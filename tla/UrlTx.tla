-------------------------------- MODULE UrlTx ---------------------------------
(***************************************************************************)
(* The transactions of PostgresStore and TagStore in one workspace: urls   *)
(* are created, edited and deleted, their tags replaced, tags created,     *)
(* renamed and deleted, by concurrent requests that share the pool.        *)
(*                                                                         *)
(* A statement is a step, and the last one of a transaction is one with    *)
(* its commit; what a transaction wrote is in its request until then.      *)
(* Postgres runs at READ COMMITTED: a statement sees what is committed     *)
(* when it starts, waits for rows others have locked or keys others have   *)
(* inserted, and after an error the transaction accepts no more            *)
(* statements and has lost its writes and locks.                           *)
(***************************************************************************)
EXTENDS Naturals, FiniteSets, Sequences, Functions

CONSTANTS
    Codes,     \* short codes: slugs that are asked for, codes that are drawn
    Names,     \* names of tags
    TagLists,  \* the lists of tags a request may set
    Requests,  \* concurrent requests
    Ops,       \* the operations the requests may be
    MaxConns,  \* connections in the pool
    UrlIds,    \* bound: ids of rows of urls
    TagIds,    \* bound: ids of rows of tags
    Faults     \* {"db"} when statements may fail, else {}

Operations == {"create", "edit", "delete", "create tag", "rename tag", "delete tag"}

ASSUME UrlTxAssumption ==
    /\ Codes # {}
    /\ Names # {}
    /\ IsFiniteSet(Requests)
    /\ Ops \subseteq Operations
    /\ TagLists \subseteq Seq(Names)
    /\ MaxConns \in Nat \ {0}
    /\ UrlIds \subseteq Nat \ {0}
    /\ TagIds \subseteq Nat \ {0}

VARIABLES
    url,    \* urls: the id of the row with a code, 0 when there is none
    tag,    \* tags: the id of the row with a name, 0 when there is none
    links,  \* url_tags: pairs of the id of a url and the id of a tag
    req     \* each request: locals, and what its transaction wrote and locked

vars == <<url, tag, links, req>>

-----------------------------------------------------------------------------
\* What a transaction has written and locked; nothing after it ended or failed.
NoTx == [newUrl |-> 0,      \* the id of the row of urls it inserted
         row |-> 0,         \* the id of the row of urls it locked
         gone |-> {},       \* links it deleted
         added |-> {},      \* links it inserted
         newTags |-> {},    \* tags it inserted, pairs of name and id
         tagLocks |-> {}]   \* ids of tags it locked

AnyCode == CHOOSE c \in Codes : TRUE
AnyName == CHOOSE n \in Names : TRUE
Idle == [pc |-> "idle", op |-> "none", code |-> AnyCode, tags |-> <<>>, slug |-> FALSE,
         fields |-> FALSE, retag |-> FALSE, old |-> AnyName, new |-> AnyName,
         conn |-> FALSE, aborted |-> FALSE,
         id |-> 0, todo |-> <<>>, tid |-> 0, want |-> {}, tx |-> NoTx,
         stored |-> FALSE,  \* history: its last answer was a record it created
         calm |-> FALSE]    \* history: no edit without the row's lock overlapped

Busy(r) == req[r].pc # "idle"
InUse == {r \in Requests : req[r].conn}
ConnFree == Cardinality(InUse) < MaxConns

\* The request ends: what it did not commit is rolled back, its locks and its
\* connection are free. Only a create remembers that it answered with a record.
End(r, stored) == req' = [req EXCEPT ![r] = [Idle EXCEPT !.stored = stored]]

\* Ids come from sequences. One that no row has stands for a new one: who still has
\* the id of a deleted row has 0 for it.
Least(S) == {i \in S : \A j \in S : i <= j}
FreshUrl == Least(UrlIds \ (Range(url) \cup {req[q].tx.newUrl : q \in Requests}))
FreshTag == Least(TagIds \ (Range(tag) \cup
                            UNION {{t[2] : t \in req[q].tx.newTags} : q \in Requests}))

\* Links L are gone for good: a statement that saw them skips them, also when the same
\* links are inserted again.
Skip(R, L) == [q \in Requests |-> [R[q] EXCEPT !.want = @ \ L]]
\* The row u is gone for good, and the id of it finds nothing.
Lose(R, u) == [q \in Requests |-> [R[q] EXCEPT !.id = IF @ = u THEN 0 ELSE @]]

-----------------------------------------------------------------------------
(* Who has what: locks are held until the transaction ends or fails. *)

Inserting(c) == {q \in Requests : req[q].tx.newUrl # 0 /\ req[q].code = c}
RowLockers(u) == {q \in Requests : u # 0 /\ req[q].tx.row = u}
Sharers(u) == {q \in Requests : \E l \in req[q].tx.added : l[1] = u}
Deleting(L) == {q \in Requests : req[q].tx.gone \cap L # {}}
Naming(n) == {q \in Requests : \E t \in req[q].tx.newTags : t[1] = n}
TagLockers(t) == {q \in Requests : t # 0 /\ t \in req[q].tx.tagLocks}

LinksOf(u) == {l \in links : l[1] = u}
LinksTo(t) == {l \in links : l[2] = t}
Link(r) == <<req[r].id, req[r].tid>>
\* The link is there, seen from r: INSERT ... ON CONFLICT DO NOTHING.
Linked(r) == Link(r) \in links \ req[r].tx.gone

\* The requests that hold what the present statement of r needs.
Holders(r) ==
    LET q == req[r] IN
    CASE q.pc = "insert" -> Inserting(q.code)
      [] q.pc = "write row" -> RowLockers(url[q.code])
      [] q.pc = "lock row" -> RowLockers(url[q.code]) \cup Sharers(url[q.code])
      [] q.pc = "delete links" -> Deleting(q.want)
      [] q.pc = "tag" -> Naming(Head(q.todo)) \cup TagLockers(tag[Head(q.todo)])
      [] q.pc = "link" -> IF Linked(r) THEN Deleting({Link(r)})
                          ELSE {d \in RowLockers(q.id) : req[d].op = "delete"}
      [] q.pc = "cascade url" -> Deleting(LinksOf(q.tx.row))
      [] q.pc = "upsert tag" -> Naming(q.new) \cup TagLockers(tag[q.new])
      [] q.pc = "lock tag" -> TagLockers(tag[q.old])
      [] q.pc = "rename tag" -> Naming(q.new) \cup TagLockers(tag[q.new])
      [] q.pc = "cascade tag" -> Deleting(LinksTo(q.tid))
      [] OTHER -> {}
WaitsFor(r) == IF req[r].aborted THEN {} ELSE Holders(r) \ {r}
MayRun(r, pc) == req[r].pc = pc /\ WaitsFor(r) = {}

\* An error of a statement: Postgres undoes the transaction but does not end it.
Aborted(q, pc) == [q EXCEPT !.pc = pc, !.aborted = TRUE, !.tx = NoTx, !.want = {}]

Init ==
    /\ url = [c \in Codes |-> 0]
    /\ tag = [n \in Names |-> 0]
    /\ links = {}
    /\ req = [r \in Requests |-> Idle]

-----------------------------------------------------------------------------
(* Requests, and the connection they wait for. *)

Start(r, op, q) ==
    /\ ~Busy(r)
    /\ op \in Ops
    /\ req' = [req EXCEPT ![r] = [q EXCEPT !.pc = "acquire", !.op = op]]
    /\ UNCHANGED <<url, tag, links>>

\* GenCode draws any code; a slug is any code too. With a list of tags (retag) setTags runs;
\* it trims their names and leaves out the blank ones, and tags are what then remains.
PostURL(r) == \E s, g \in BOOLEAN, c \in Codes, T \in TagLists :
    /\ T # <<>> => g
    /\ Start(r, "create", [Idle EXCEPT !.slug = s, !.code = c, !.tags = T, !.retag = g])
\* UpdateURL: fields of the row, tags, or both. No list is no change of the tags.
PatchURL(r) == \E f, g \in BOOLEAN, c \in Codes, T \in TagLists :
    /\ f \/ g
    /\ T # <<>> => g
    /\ Start(r, "edit", [Idle EXCEPT !.code = c, !.tags = T, !.fields = f, !.retag = g])
DeleteURL(r) == \E c \in Codes : Start(r, "delete", [Idle EXCEPT !.code = c])
PostTag(r) == \E n \in Names : Start(r, "create tag", [Idle EXCEPT !.new = n])
PatchTag(r) == \E n, m \in Names :
    Start(r, "rename tag", [Idle EXCEPT !.old = n, !.new = m])
DeleteTag(r) == \E n \in Names : Start(r, "delete tag", [Idle EXCEPT !.old = n])

FirstStatement(q) ==
    CASE q.op = "create" -> "insert"
      [] q.op = "edit" -> IF q.fields THEN "write row" ELSE "find"
      [] q.op = "delete" -> "lock row"
      [] q.op = "create tag" -> "upsert tag"
      [] OTHER -> "lock tag"

\* Pool.Begin, or the pool's own Query: it waits until a connection is free.
Acquire(r) ==
    /\ req[r].pc = "acquire"
    /\ ConnFree
    /\ req' = [req EXCEPT ![r].pc = FirstStatement(req[r]), ![r].conn = TRUE]
    /\ UNCHANGED <<url, tag, links>>

-----------------------------------------------------------------------------
(* Create. *)

\* insertURL's INSERT. A taken code is a unique violation: for a slug Create looks
\* who has it; for a drawn code it goes on to the next attempt, which Postgres
\* refuses as the transaction is aborted, and Create gives up on that error.
InsertURL(r) ==
    /\ MayRun(r, "insert")
    /\ LET c == req[r].code IN
       \/ req[r].aborted /\ End(r, FALSE)
       \/ /\ ~req[r].aborted /\ url[c] # 0
          /\ req' = [req EXCEPT ![r] =
                 Aborted(@, IF @.slug THEN "get existing" ELSE "insert")]
       \/ /\ ~req[r].aborted /\ url[c] = 0
          /\ \E u \in FreshUrl :
               req' = [req EXCEPT ![r].id = u, ![r].tx.newUrl = u, ![r].slug = FALSE,
                          ![r].pc = IF req[r].retag THEN "find links" ELSE "commit"]
    /\ UNCHANGED <<url, tag, links>>

\* Get of the taken slug, in a transaction of its own: a second connection while the
\* first is held. Then both end, and the create with an error.
GetExisting(r) ==
    /\ req[r].pc = "get existing"
    /\ ConnFree
    /\ End(r, FALSE)
    /\ UNCHANGED <<url, tag, links>>

-----------------------------------------------------------------------------
(* Update. *)

\* Mutant: the UPDATE is not in the transaction that sets the tags.
WriteRowOutside(r) ==
    /\ MayRun(r, "write row")
    /\ IF url[req[r].code] = 0 THEN End(r, FALSE)
       ELSE req' = [req EXCEPT ![r].pc = IF req[r].retag THEN "find" ELSE "commit"]
    /\ UNCHANGED <<url, tag, links>>

\* UPDATE urls: locks the row.
WriteRow(r) ==
    /\ MayRun(r, "write row")
    /\ LET u == url[req[r].code] IN
       \/ u = 0 /\ End(r, FALSE)
       \/ /\ u # 0
          /\ req' = [req EXCEPT ![r].tx.row = u,
                        ![r].pc = IF req[r].retag THEN "find" ELSE "commit"]
    /\ UNCHANGED <<url, tag, links>>

\* SELECT id: locks nothing.
FindURL(r) ==
    /\ req[r].pc = "find"
    /\ LET u == url[req[r].code] IN
       \/ u = 0 /\ End(r, FALSE)
       \/ u # 0 /\ req' = [req EXCEPT ![r].id = u, ![r].pc = "find links"]
    /\ UNCHANGED <<url, tag, links>>

-----------------------------------------------------------------------------
(* setTags, in the transaction of Create or Update. *)

\* DELETE FROM url_tags, first half: the links its snapshot has.
FindLinks(r) ==
    /\ req[r].pc = "find links"
    /\ req' = [req EXCEPT ![r].want = LinksOf(req[r].id), ![r].pc = "delete links",
                          ![r].calm = TRUE]
    /\ UNCHANGED <<url, tag, links>>

\* Second half: of these, the ones no other transaction has deleted when their rows
\* are free.
DeleteLinks(r) ==
    /\ MayRun(r, "delete links")
    /\ req' = [req EXCEPT ![r].tx.gone = req[r].want, ![r].want = {},
                          ![r].todo = req[r].tags,
                          ![r].pc = IF req[r].tags = <<>> THEN "commit" ELSE "tag"]
    /\ UNCHANGED <<url, tag, links>>

\* INSERT INTO tags ... ON CONFLICT DO UPDATE: the tag exists then, and is locked.
UpsertTag(r) ==
    /\ MayRun(r, "tag")
    /\ LET n == Head(req[r].todo)
           own == {t \in req[r].tx.newTags : t[1] = n} IN
       \/ /\ tag[n] # 0
          /\ req' = [req EXCEPT ![r].tid = tag[n], ![r].pc = "link",
                                ![r].tx.tagLocks = @ \cup {tag[n]}]
       \/ /\ tag[n] = 0
          /\ \E t \in own : req' = [req EXCEPT ![r].tid = t[2], ![r].pc = "link"]
       \/ /\ tag[n] = 0 /\ own = {}
          /\ \E t \in FreshTag :
               req' = [req EXCEPT ![r].tid = t, ![r].pc = "link",
                                  ![r].tx.newTags = @ \cup {<<n, t>>}]
    /\ UNCHANGED <<url, tag, links>>

\* INSERT INTO url_tags: the foreign key asks for the row of urls, which must not be
\* deleted before the transaction ends.
LinkTag(r) ==
    /\ MayRun(r, "link")
    /\ LET rest == Tail(req[r].todo) IN
       \/ req[r].id = 0 /\ End(r, FALSE)
       \/ /\ req[r].id # 0
          /\ req' = [req EXCEPT
                        ![r].tx.added = IF Linked(r) THEN @ ELSE @ \cup {Link(r)},
                        ![r].todo = rest,
                        ![r].pc = IF rest = <<>> THEN "commit" ELSE "tag"]
    /\ UNCHANGED <<url, tag, links>>

\* What r wrote becomes visible, and r goes on as done.
Publish(r, done) ==
    LET q == req[r]
        overlaps(p) == req[p].id = q.id /\ q.id # 0 /\ ~(q.fields /\ req[p].fields) IN
    /\ url' = [url EXCEPT ![q.code] = IF q.tx.newUrl # 0 THEN q.tx.newUrl ELSE @]
    /\ tag' = [n \in Names |-> IF \E t \in q.tx.newTags : t[1] = n
                               THEN (CHOOSE t \in q.tx.newTags : t[1] = n)[2]
                               ELSE tag[n]]
    /\ links' = (links \ q.tx.gone) \cup q.tx.added
    /\ req' = Skip([p \in Requests |->
                       IF p = r THEN done
                       ELSE [req[p] EXCEPT !.calm = @ /\ ~overlaps(p)]], q.tx.gone)

Answered == [Idle EXCEPT !.stored = TRUE]
Updated == [Idle EXCEPT !.pc = "reread"]

\* Mutant: the error of the commit is not looked at.
CommitUnchecked(r) ==
    /\ req[r].pc = "commit"
    /\ \/ req[r].aborted /\ End(r, TRUE) /\ UNCHANGED <<url, tag, links>>
       \/ ~req[r].aborted /\ Publish(r, IF req[r].op = "edit" THEN Updated ELSE Answered)

\* Mutant: Update reads the record again before its connection is given back.
CommitKeepsConn(r) ==
    /\ req[r].pc = "commit"
    /\ \/ req[r].aborted /\ End(r, FALSE) /\ UNCHANGED <<url, tag, links>>
       \/ /\ ~req[r].aborted
          /\ Publish(r, IF req[r].op = "edit" THEN [Updated EXCEPT !.conn = TRUE]
                        ELSE Answered)

\* Commit makes the writes visible; of an aborted transaction it is an error. Update
\* gives its connection back and reads the record again.
Commit(r) ==
    /\ req[r].pc = "commit"
    /\ \/ req[r].aborted /\ End(r, FALSE) /\ UNCHANGED <<url, tag, links>>
       \/ ~req[r].aborted /\ Publish(r, IF req[r].op = "edit" THEN Updated ELSE Answered)

\* Get after an update, the COUNT after a tag was created or renamed: a new
\* connection, and nothing that can change the outcome.
Reread(r) ==
    /\ req[r].pc = "reread"
    /\ ConnFree
    /\ End(r, FALSE)
    /\ UNCHANGED <<url, tag, links>>

-----------------------------------------------------------------------------
(* Delete, and the statements of TagStore. *)

\* DELETE FROM urls: locks the row, also against links that are being inserted.
LockRow(r) ==
    /\ MayRun(r, "lock row")
    /\ LET u == url[req[r].code] IN
       \/ u = 0 /\ End(r, FALSE)
       \/ u # 0 /\ req' = [req EXCEPT ![r].tx.row = u, ![r].pc = "cascade url"]
    /\ UNCHANGED <<url, tag, links>>

CascadeURL(r) ==
    /\ MayRun(r, "cascade url")
    /\ url' = [url EXCEPT ![req[r].code] = 0]
    /\ links' = links \ LinksOf(req[r].tx.row)
    /\ req' = Lose(Skip([req EXCEPT ![r] = Idle], LinksOf(req[r].tx.row)), req[r].tx.row)
    /\ UNCHANGED tag

CreateTag(r) ==
    /\ MayRun(r, "upsert tag")
    /\ \/ tag[req[r].new] # 0 /\ UNCHANGED tag
       \/ /\ tag[req[r].new] = 0
          /\ \E t \in FreshTag : tag' = [tag EXCEPT ![req[r].new] = t]
    /\ req' = [req EXCEPT ![r] = [Idle EXCEPT !.pc = "reread"]]
    /\ UNCHANGED <<url, links>>

\* The row that RenameTag's UPDATE or DeleteTag's DELETE finds, and locks.
LockTag(r) ==
    /\ MayRun(r, "lock tag")
    /\ LET t == tag[req[r].old] IN
       \/ t = 0 /\ End(r, FALSE)
       \/ /\ t # 0
          /\ req' = [req EXCEPT ![r].tid = t, ![r].tx.tagLocks = {t},
                        ![r].pc = IF req[r].op = "rename tag" THEN "rename tag"
                                  ELSE "cascade tag"]
    /\ UNCHANGED <<url, tag, links>>

RenameTag(r) ==
    /\ MayRun(r, "rename tag")
    /\ \/ req[r].new # req[r].old /\ tag[req[r].new] # 0 /\ End(r, FALSE) /\ UNCHANGED tag
       \/ /\ req[r].new = req[r].old \/ tag[req[r].new] = 0
          /\ tag' = [tag EXCEPT ![req[r].old] = 0, ![req[r].new] = req[r].tid]
          /\ req' = [req EXCEPT ![r] = [Idle EXCEPT !.pc = "reread"]]
    /\ UNCHANGED <<url, links>>

\* Mutant: the links to the tag stay.
CascadeNothing(r) ==
    /\ MayRun(r, "cascade tag")
    /\ tag' = [tag EXCEPT ![req[r].old] = 0]
    /\ End(r, FALSE)
    /\ UNCHANGED <<url, links>>

CascadeTag(r) ==
    /\ MayRun(r, "cascade tag")
    /\ tag' = [tag EXCEPT ![req[r].old] = 0]
    /\ links' = links \ LinksTo(req[r].tid)
    /\ req' = Skip([req EXCEPT ![r] = Idle], LinksTo(req[r].tid))
    /\ UNCHANGED url

-----------------------------------------------------------------------------
(* Errors. *)

\* A statement of r fails. insertURL only logs an error of setTags, and goes on to
\* the commit; all others return it.
StatementError(r) ==
    LET setTags == req[r].pc \in {"find links", "delete links", "tag", "link"} IN
    IF req[r].op = "create" /\ setTags
    THEN req' = [req EXCEPT ![r] = Aborted(@, "commit")]
    ELSE End(r, FALSE)

Fail(r) ==
    /\ "db" \in Faults
    /\ Busy(r)
    /\ StatementError(r)
    /\ UNCHANGED <<url, tag, links>>

\* r is one of requests that wait for each other in a circle.
Deadlocked(r) ==
    /\ WaitsFor(r) # {}
    /\ \A S \in SUBSET Requests :
         (\A q \in S \cup {r} : WaitsFor(q) \subseteq S) => r \in S

\* Postgres ends the statement of one of them.
BreakDeadlock(r) ==
    /\ Deadlocked(r)
    /\ StatementError(r)
    /\ UNCHANGED <<url, tag, links>>

\* Two requests draw from GenCode's source at the same time: the race may make it
\* panic, and with it the process, which starts again. Other outcomes are codes.
Panic ==
    /\ \E p, q \in Requests :
         p # q /\ \A r \in {p, q} : req[r].pc = "insert" /\ ~req[r].slug
    /\ req' = [r \in Requests |-> Idle]
    /\ UNCHANGED <<url, tag, links>>

Post(r) == \/ PostURL(r) \/ PatchURL(r) \/ DeleteURL(r)
           \/ PostTag(r) \/ PatchTag(r) \/ DeleteTag(r)
Step(r) == \/ Acquire(r) \/ InsertURL(r) \/ GetExisting(r) \/ WriteRow(r) \/ FindURL(r)
           \/ FindLinks(r) \/ DeleteLinks(r) \/ UpsertTag(r) \/ LinkTag(r) \/ Commit(r)
           \/ Reread(r) \/ LockRow(r) \/ CascadeURL(r) \/ CreateTag(r) \/ LockTag(r)
           \/ RenameTag(r) \/ CascadeTag(r) \/ BreakDeadlock(r)

Next == \/ \E r \in Requests : Post(r) \/ Step(r) \/ Fail(r)
        \/ Panic

\* The pool and Postgres's locks serve those who wait in order: a request that can
\* run again and again does run. Nothing makes clients send requests.
Fairness == \A r \in Requests : SF_vars(Step(r))

Spec == Init /\ [][Next]_vars
FairSpec == Spec /\ Fairness

-----------------------------------------------------------------------------
(* Properties. *)

Pairs == (UrlIds \X TagIds)
TxType == [newUrl : UrlIds \cup {0}, row : UrlIds \cup {0}, gone : SUBSET Pairs,
           added : SUBSET Pairs, newTags : SUBSET (Names \X TagIds),
           tagLocks : SUBSET TagIds]
RequestType == [pc : {"idle", "acquire", "insert", "get existing", "write row", "find",
                      "find links", "delete links", "tag", "link", "commit", "reread",
                      "lock row", "cascade url", "upsert tag", "lock tag", "rename tag",
                      "cascade tag"},
                op : Ops \cup {"none"}, code : Codes, tags : Seq(Names), slug : BOOLEAN,
                fields : BOOLEAN, retag : BOOLEAN, old : Names, new : Names,
                conn : BOOLEAN, aborted : BOOLEAN, id : UrlIds \cup {0}, todo : Seq(Names), tid : TagIds \cup {0},
                want : SUBSET Pairs, tx : TxType, stored : BOOLEAN, calm : BOOLEAN]

\* Every variable keeps its type, and the links are links of rows: what the foreign
\* keys ask for.
TypeOK ==
    /\ url \in [Codes -> UrlIds \cup {0}]
    /\ tag \in [Names -> TagIds \cup {0}]
    /\ links \subseteq (Range(url) \X Range(tag)) \cap Pairs
    /\ req \in [Requests -> RequestType]

\* The names the row of urls u is linked to, by the tables t of tags and l of url_tags.
NamesOf(u, t, l) == {n \in Names : t[n] # 0 /\ <<u, t[n]>> \in l}

\* A create that answers with a record has stored it, under its code and with all its
\* tags, also when setTags failed (its error is only logged) and whatever renames,
\* deletions and other creates of the same tags went on meanwhile.
AnsweredIsStored ==
    [][\A r \in Requests : ~req[r].stored /\ req'[r].stored =>
         /\ req[r].id # 0
         /\ url'[req[r].code] = req[r].id
         /\ NamesOf(req[r].id, tag', links') = Range(req[r].tags)]_vars

\* An edit that commits leaves the URL with exactly the tags it asks for, with none when
\* its list has only blanks, unless an edit of its tags overlapped of which one did not
\* write the row: two edits that write the row are kept apart by its lock, two others
\* leave the tags of both.
TagsAsRequested ==
    [][\A r \in Requests :
         req[r].pc = "commit" /\ req[r].retag /\ req[r].calm /\ req'[r].pc = "reread"
             => NamesOf(req[r].id, tag', links') = Range(req[r].tags)]_vars

\* Every connection is held by a create that waits for a second one.
PoolHeld == Cardinality({r \in Requests : req[r].pc = "get existing"}) = MaxConns

\* Every request ends, whatever it waits for (connections, rows, keys, deadlocks that
\* Postgres breaks), unless creates of taken slugs come to hold the whole pool.
RequestEnds == \A r \in Requests : Busy(r) ~> (~Busy(r) \/ PoolHeld)
=============================================================================
