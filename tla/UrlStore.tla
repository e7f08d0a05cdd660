------------------------------- MODULE UrlStore -------------------------------
(***************************************************************************)
(* One short code of GoShorten: its row in the Postgres table urls, the    *)
(* clicks recorded against the row, the Redis entry that caches its        *)
(* redirect, and the concurrent gRPC handlers that read and change them.   *)
(*                                                                         *)
(* Every statement of the component is keyed by the code (or by the id of  *)
(* the row the code had), so codes do not interact and one is enough.      *)
(* A statement, a transaction and a Redis command are each one step; the   *)
(* handlers interleave between them.                                       *)
(*                                                                         *)
(* The visit logger appears as its promise only: a bounded set of places   *)
(* that holds visits until a worker writes them (module VisitLogger has    *)
(* its channel, workers and shutdown).                                     *)
(***************************************************************************)
EXTENDS Integers, FiniteSets

CONSTANTS
    Visitors,    \* concurrent redirect requests (GetURL with a visitor)
    Editors,     \* concurrent CreateURL, UpdateURL and DeleteURL requests
    Workspaces,  \* the tenants the editors act for
    Targets,     \* long URLs
    NoTarget,    \* no long URL: a cache miss, an absent row, "keep" in a patch
    MaxVisits,   \* values a URL's max_visits may be given; negative ones by an update
    Patches,     \* what an UpdateURL request may change
    Slots,       \* the visit logger's buffer places and its workers' hands
    Workers,     \* how many of the slots are hands
    Faults,      \* the stores whose calls may fail, a subset of {"redis", "db"}
    MaxId,       \* bound: rows the code may have one after the other
    ClickBound   \* bound: clicks recorded for one row

Unlimited == 0   \* max_visits is NULL
NoPatch == [target |-> NoTarget, max |-> 0, active |-> "keep", expiry |-> "keep"]
Patch == [target : Targets \cup {NoTarget}, max : {-1, 0} \cup MaxVisits,
          active : {"keep", "on", "off"}, expiry : {"keep", "never", "later", "past"}]

ASSUME UrlStoreAssumption ==
    /\ IsFiniteSet(Visitors)
    /\ IsFiniteSet(Slots)
    /\ Workspaces # {}
    /\ NoTarget \notin Targets
    /\ MaxVisits \subseteq Int \ {-1, 0}
    /\ Patches \subseteq Patch
    /\ Workers \in Nat
    /\ MaxId \in Nat
    /\ ClickBound \in Nat

VARIABLES
    row,     \* the row of urls for the code; id 0 when there is none
    nextId,  \* the id the next insert takes (BIGSERIAL)
    clicks,  \* rows of clicks that reference the present row
    cache,   \* the Redis entry of the code
    slot,    \* the id each slot's visit is for, 0 when the slot is free
    visit,   \* progress and locals of each redirect
    edit,    \* progress and locals of each edit
    orphan,  \* redirects whose visit went to LogOrphanVisit
    limits,  \* history: every max_visits the present row has had, and Unlimited
             \* once a COUNT of its clicks has failed
    seen     \* history: what the row was at each moment of a redirect

vars == <<row, nextId, clicks, cache, slot, visit, edit, orphan, limits, seen>>

-----------------------------------------------------------------------------
NoRow(ws) == [id |-> 0, ws |-> ws, target |-> NoTarget, active |-> FALSE,
              expiry |-> "never", max |-> Unlimited]
AnyWorkspace == CHOOSE w \in Workspaces : TRUE
Absent == NoRow(AnyWorkspace)
IdleVisit == [pc |-> "idle", hit |-> FALSE, url |-> NoTarget, id |-> 0, max |-> Unlimited]
IdleEdit == [pc |-> "idle", ws |-> AnyWorkspace, patch |-> NoPatch,
             target |-> NoTarget, active |-> FALSE]

\* The condition of Load's SELECT.
Live(r) == r.id # 0 /\ r.active /\ r.expiry # "past"

Busy(v) == visit[v].pc \notin {"idle", "served", "refused"}
Queued(id) == {s \in Slots : slot[s] = id}
Snapshot(r) == [target |-> r.target, live |-> Live(r)]

\* A step that changes the row is seen by every redirect in progress.
Observe == seen' = [v \in Visitors |->
                        IF Busy(v) THEN seen[v] \cup {Snapshot(row')} ELSE seen[v]]

\* A read of the row by v failed: to v the row was not there.
ReadFails(v) == /\ "db" \in Faults
                /\ seen' = [seen EXCEPT ![v] = @ \cup {Snapshot(Absent)}]

\* A Redis command that fails changes nothing and is only logged.
SetCache(url) == \/ cache' = url
                 \/ "redis" \in Faults /\ UNCHANGED cache
DelCache == SetCache(NoTarget)

Goto(v, pc) == visit' = [visit EXCEPT ![v].pc = pc]

\* Load's error return: a hit is evicted first. IdleVisit forgets the locals.
Refuse(v) == visit' = [visit EXCEPT ![v] = [IdleVisit EXCEPT
                           !.pc = IF visit[v].hit THEN "evict" ELSE "refused"]]
\* Load's normal return: only a miss goes back to the cache.
Accept(v, url) == visit' = [visit EXCEPT ![v] = [IdleVisit EXCEPT
                               !.pc = IF visit[v].hit THEN "record" ELSE "backfill",
                               !.url = url]]

\* The answer of GetURL.
Serve(v, url) == visit' = [visit EXCEPT ![v] = [IdleVisit EXCEPT !.pc = "served",
                                                                 !.url = url]]

Init ==
    /\ row = Absent
    /\ nextId = 1
    /\ clicks = 0
    /\ cache = NoTarget
    /\ slot = [s \in Slots |-> 0]
    /\ visit = [v \in Visitors |-> IdleVisit]
    /\ edit = [e \in Editors |-> IdleEdit]
    /\ orphan = {}
    /\ limits = {}
    /\ seen = [v \in Visitors |-> {}]

-----------------------------------------------------------------------------
(* The redirect: GetURL for a visitor, CachedStore.Load inside it. *)

\* GetURL starts, and Load asks Redis; an error of Redis is a miss.
GetURL(v) ==
    /\ ~Busy(v)
    /\ \E url \in {cache} \cup (IF "redis" \in Faults THEN {NoTarget} ELSE {}) :
         visit' = [visit EXCEPT ![v] = [IdleVisit EXCEPT
                      !.pc = "load", !.hit = (url # NoTarget), !.url = url]]
    /\ seen' = [seen EXCEPT ![v] = {Snapshot(row)}]
    /\ orphan' = orphan \ {v}
    /\ UNCHANGED <<row, nextId, clicks, cache, slot, edit, limits>>

\* Mutant: a cache hit is answered without asking Postgres.
PrimaryLoadTrustsCache(v) ==
    /\ visit[v].pc = "load"
    /\ \/ (visit[v].hit \/ Live(row)) /\ Accept(v, row.target)
       \/ ~visit[v].hit /\ ~Live(row) /\ Refuse(v)
    /\ UNCHANGED <<row, nextId, clicks, cache, slot, edit, orphan, limits, seen>>

\* PostgresStore.Load's SELECT. With max_visits set the clicks are counted next.
PrimaryLoad(v) ==
    /\ visit[v].pc = "load"
    /\ LET url == IF visit[v].hit THEN visit[v].url ELSE row.target IN
       \/ /\ Live(row)
          /\ row.max = Unlimited
          /\ Accept(v, url)
       \/ /\ Live(row)
          /\ row.max # Unlimited
          /\ visit' = [visit EXCEPT ![v].pc = "count", ![v].url = url,
                                    ![v].id = row.id, ![v].max = row.max]
       \/ /\ ~Live(row) \/ "db" \in Faults
          /\ Refuse(v)
    /\ UNCHANGED <<row, nextId, clicks, cache, slot, edit, orphan, limits, seen>>

\* Mutant: the limit is checked with > instead of >=.
DecideOffByOne(v, n) == \/ n > visit[v].max /\ Goto(v, "disable")
                        \/ n <= visit[v].max /\ Accept(v, visit[v].url)

\* What Load does with a number of clicks.
Decide(v, n) == \/ n >= visit[v].max /\ Goto(v, "disable")
                \/ n < visit[v].max /\ Accept(v, visit[v].url)

\* The COUNT of the loaded row's clicks; a row that is gone has none, and a failed
\* query counts as none because its error is discarded, as if there were no limit.
CountClicks(v) ==
    /\ visit[v].pc = "count"
    /\ \/ /\ Decide(v, IF row.id = visit[v].id THEN clicks ELSE 0)
          /\ UNCHANGED limits
       \/ /\ "db" \in Faults
          /\ Decide(v, 0)
          /\ limits' = IF row.id = visit[v].id THEN limits \cup {Unlimited} ELSE limits
    /\ UNCHANGED <<row, nextId, clicks, cache, slot, edit, orphan, seen>>

\* Mutant: the row is disabled by its code instead of its id.
AutoDisableByCode(v) ==
    /\ visit[v].pc = "disable"
    /\ row' = [row EXCEPT !.active = FALSE]
    /\ Refuse(v)
    /\ Observe
    /\ UNCHANGED <<nextId, clicks, cache, slot, edit, orphan, limits>>

\* The auto-disable of the row with the loaded id; its error is discarded too.
AutoDisable(v) ==
    /\ visit[v].pc = "disable"
    /\ row' \in {[row EXCEPT !.active = @ /\ row.id # visit[v].id]}
                   \cup (IF "db" \in Faults THEN {row} ELSE {})
    /\ Refuse(v)
    /\ Observe
    /\ UNCHANGED <<nextId, clicks, cache, slot, edit, orphan, limits>>

\* Load evicts the entry it hit when Postgres rejects the code.
Evict(v) ==
    /\ visit[v].pc = "evict"
    /\ DelCache
    /\ Goto(v, "refused")
    /\ UNCHANGED <<row, nextId, clicks, slot, edit, orphan, limits, seen>>

\* Load fills the cache with the URL it read, which may be old by now.
Backfill(v) ==
    /\ visit[v].pc = "backfill"
    /\ SetCache(visit[v].url)
    /\ Goto(v, "record")
    /\ UNCHANGED <<row, nextId, clicks, slot, edit, orphan, limits, seen>>

\* The buffer is full: all slots but the workers' hands may hold visits.
BufferMayBeFull ==
    Cardinality({s \in Slots : slot[s] # 0}) >= Cardinality(Slots) - Workers

\* RecordVisit looks the row up by code, whatever its state, and hands the
\* visit to LogVisit, which drops it when the buffer is full.
RecordVisit(v) ==
    /\ visit[v].pc = "record"
    /\ \/ /\ row.id # 0
          /\ \/ \E s \in Queued(0) : slot' = [slot EXCEPT ![s] = row.id]
             \/ BufferMayBeFull /\ UNCHANGED slot
          /\ UNCHANGED <<orphan, seen>>
       \/ /\ (row.id = 0 /\ UNCHANGED seen) \/ ReadFails(v)
          /\ orphan' = orphan \cup {v}
          /\ UNCHANGED slot
    /\ Goto(v, "get")
    /\ UNCHANGED <<row, nextId, clicks, cache, edit, limits>>

\* Mutant: GetURL answers with Load's URL, without reading the record again.
GetRecordTrustsLoad(v) ==
    /\ visit[v].pc = "get"
    /\ Serve(v, visit[v].url)
    /\ UNCHANGED <<row, nextId, clicks, cache, slot, edit, orphan, limits, seen>>

\* GetURL answers with the record, or with Load's URL when there is none.
GetRecord(v) ==
    /\ visit[v].pc = "get"
    /\ \/ row.id # 0 /\ Serve(v, row.target) /\ UNCHANGED seen
       \/ row.id = 0 /\ Serve(v, visit[v].url) /\ UNCHANGED seen
       \/ ReadFails(v) /\ Serve(v, visit[v].url)
    /\ UNCHANGED <<row, nextId, clicks, cache, slot, edit, orphan, limits>>

\* A worker inserts a click; the foreign key refuses it when the row is gone,
\* and an insert that fails is only logged.
InsertClick(s) ==
    /\ slot[s] # 0
    /\ \/ row.id = slot[s] /\ clicks < ClickBound /\ clicks' = clicks + 1
       \/ (row.id # slot[s] \/ "db" \in Faults) /\ UNCHANGED clicks
    /\ slot' = [slot EXCEPT ![s] = 0]
    /\ UNCHANGED <<row, nextId, cache, visit, edit, orphan, limits, seen>>

-----------------------------------------------------------------------------
(* The owner's requests, through CachedStore to PostgresStore. *)

\* Mutant: -1 is stored instead of NULL.
ApplyNoNull(r, p) == [r EXCEPT !.max = IF p.max = 0 THEN @ ELSE p.max]

\* The UPDATE's SET list. The expiry a TTL gives: -1 never, positive later,
\* other negative values a time already past.
Apply(r, p) ==
    [r EXCEPT !.target = IF p.target = NoTarget THEN @ ELSE p.target,
              !.max = CASE p.max = 0 -> @ [] p.max = -1 -> Unlimited [] OTHER -> p.max,
              !.active = IF p.active = "keep" THEN @ ELSE p.active = "on",
              !.expiry = IF p.expiry = "keep" THEN @ ELSE p.expiry]

\* Mutant: the writes ask for the code only.
InAnyWorkspace(ws) == row.id # 0 /\ ws \in Workspaces

\* What getScopedURL and the WHERE clause of the writes ask for.
InWorkspace(ws) == row.id # 0 /\ row.ws = ws

EndEdit(e) == edit' = [edit EXCEPT ![e] = IdleEdit]

\* CreateURL with this code as custom slug, or GenCode's draw: one INSERT, which
\* the unique index refuses (no step here) while the code has a row.
CreateURL(e) ==
    /\ edit[e].pc = "idle"
    /\ row.id = 0
    /\ nextId <= MaxId
    /\ \E ws \in Workspaces, url \in Targets, expiry \in {"never", "later"},
          max \in {Unlimited} \cup {m \in MaxVisits : m > 0} :
         /\ row' = [id |-> nextId, ws |-> ws, target |-> url, active |-> TRUE,
                    expiry |-> expiry, max |-> max]
         /\ limits' = {max}
         /\ edit' = [edit EXCEPT ![e] = [IdleEdit EXCEPT !.pc = "set", !.ws = ws,
                                             !.target = url]]
    /\ nextId' = nextId + 1
    /\ Observe
    /\ UNCHANGED <<clicks, cache, slot, visit, orphan>>

\* UpdateURL and DeleteURL read the row first and go on only in its workspace. A
\* request that sets nothing goes on to the reread; one that sets what is not
\* modelled (title, tags, redirect type) is an update with no change.
UpdateURL(e) ==
    /\ edit[e].pc = "idle"
    /\ \/ \E p \in Patches :
            edit' = [edit EXCEPT ![e] = [IdleEdit EXCEPT !.pc = "update", !.ws = row.ws,
                                             !.patch = p]]
       \/ edit' = [edit EXCEPT ![e] = [IdleEdit EXCEPT !.pc = "reread", !.ws = row.ws]]
    /\ row.id # 0
    /\ UNCHANGED <<row, nextId, clicks, cache, slot, visit, orphan, limits, seen>>

DeleteURL(e) ==
    /\ edit[e].pc = "idle"
    /\ row.id # 0
    /\ edit' = [edit EXCEPT ![e] = [IdleEdit EXCEPT !.pc = "delete", !.ws = row.ws]]
    /\ UNCHANGED <<row, nextId, clicks, cache, slot, visit, orphan, limits, seen>>

\* PostgresStore.Update's transaction.
CommitUpdate(e) ==
    /\ edit[e].pc = "update"
    /\ \/ /\ InWorkspace(edit[e].ws)
          /\ row' = Apply(row, edit[e].patch)
          /\ limits' = limits \cup {row'.max}
          /\ edit' = [edit EXCEPT ![e].pc = "reread", ![e].patch = NoPatch]
          /\ Observe
       \/ /\ ~InWorkspace(edit[e].ws) \/ "db" \in Faults
          /\ EndEdit(e)
          /\ UNCHANGED <<row, limits, seen>>
    /\ UNCHANGED <<nextId, clicks, cache, slot, visit, orphan>>

\* The Get after the commit. When it fails Update fails, with the change made
\* and the cache not touched.
Reread(e) ==
    /\ edit[e].pc = "reread"
    /\ \/ /\ row.id # 0
          /\ edit' = [edit EXCEPT ![e].pc = "invalidate", ![e].target = row.target,
                                  ![e].active = row.active]
       \/ (row.id = 0 \/ "db" \in Faults) /\ EndEdit(e)
    /\ UNCHANGED <<row, nextId, clicks, cache, slot, visit, orphan, limits, seen>>

\* PostgresStore.Delete: the row goes, its clicks go by cascade.
CommitDelete(e) ==
    /\ edit[e].pc = "delete"
    /\ \/ /\ InWorkspace(edit[e].ws)
          /\ row' = Absent
          /\ clicks' = 0
          /\ limits' = {}
          /\ edit' = [edit EXCEPT ![e].pc = "invalidate"]
          /\ Observe
       \/ /\ ~InWorkspace(edit[e].ws) \/ "db" \in Faults
          /\ EndEdit(e)
          /\ UNCHANGED <<row, clicks, limits, seen>>
    /\ UNCHANGED <<nextId, cache, slot, visit, orphan>>

\* The DEL after a write, then the SET of what an active record says.
Invalidate(e) ==
    /\ edit[e].pc = "invalidate"
    /\ DelCache
    /\ IF edit[e].active THEN edit' = [edit EXCEPT ![e].pc = "set"] ELSE EndEdit(e)
    /\ UNCHANGED <<row, nextId, clicks, slot, visit, orphan, limits, seen>>

WriteThrough(e) ==
    /\ edit[e].pc = "set"
    /\ SetCache(edit[e].target)
    /\ EndEdit(e)
    /\ UNCHANGED <<row, nextId, clicks, slot, visit, orphan, limits, seen>>

-----------------------------------------------------------------------------
(* Time. *)

\* NOW() passes expires_at.
ExpireURL ==
    /\ row.expiry = "later"
    /\ row' = [row EXCEPT !.expiry = "past"]
    /\ Observe
    /\ UNCHANGED <<nextId, clicks, cache, slot, visit, edit, orphan, limits>>

\* The TTL of the cache entry ends.
CacheTTL ==
    /\ cache # NoTarget
    /\ cache' = NoTarget
    /\ UNCHANGED <<row, nextId, clicks, slot, visit, edit, orphan, limits, seen>>

Redirect(v) == \/ GetURL(v) \/ PrimaryLoad(v) \/ CountClicks(v) \/ AutoDisable(v)
               \/ Evict(v) \/ Backfill(v) \/ RecordVisit(v) \/ GetRecord(v)

Edit(e) == \/ CreateURL(e) \/ UpdateURL(e) \/ DeleteURL(e) \/ CommitUpdate(e)
           \/ Reread(e) \/ CommitDelete(e) \/ Invalidate(e) \/ WriteThrough(e)

Next == \/ \E v \in Visitors : Redirect(v)
        \/ \E e \in Editors : Edit(e)
        \/ \E s \in Slots : InsertClick(s)
        \/ ExpireURL
        \/ CacheTTL

Spec == Init /\ [][Next]_vars

-----------------------------------------------------------------------------
(* Properties. *)

RowType == [id : 0..MaxId, ws : Workspaces, target : Targets \cup {NoTarget},
            active : BOOLEAN, expiry : {"never", "later", "past"},
            max : {Unlimited} \cup MaxVisits]
VisitType == [pc : {"idle", "load", "count", "disable", "evict", "backfill",
                    "record", "get", "served", "refused"},
              hit : BOOLEAN, url : Targets \cup {NoTarget}, id : 0..MaxId,
              max : {Unlimited} \cup MaxVisits]
EditType == [pc : {"idle", "update", "reread", "delete", "invalidate", "set"},
             ws : Workspaces, patch : Patch, target : Targets \cup {NoTarget},
             active : BOOLEAN]

SnapshotType == [target : Targets \cup {NoTarget}, live : BOOLEAN]

\* Every variable keeps its type; the counters stay within their bounds.
TypeOK ==
    /\ row \in RowType
    /\ nextId \in 1..MaxId + 1
    /\ clicks \in 0..ClickBound
    /\ cache \in Targets \cup {NoTarget}
    /\ slot \in [Slots -> 0..MaxId]
    /\ visit \in [Visitors -> VisitType]
    /\ edit \in [Editors -> EditType]
    /\ orphan \subseteq Visitors
    /\ limits \subseteq {Unlimited} \cup MaxVisits
    /\ seen \in [Visitors -> SUBSET SnapshotType]

\* A redirect is served only if the code was live (present, active, not
\* expired) at some moment between the request and its answer: however stale
\* the cache entry it hit, Load asks Postgres before it answers (cached_store.go).
RedirectNeedsLive ==
    \A v \in Visitors : visit[v].pc = "served" => \E s \in seen[v] : s.live

\* The URL a redirect is sent to is one the row held during the request, unless
\* the row disappeared during it or could not be read: GetURL's final Get hides a
\* stale cache entry, and only a Get that returns nothing lets Load's URL through.
StaleOnlyIfGone ==
    \A v \in Visitors : visit[v].pc = "served" =>
        {s.target : s \in seen[v]} \cap {visit[v].url, NoTarget} # {}

\* Load checks max_visits against clicks that are written later, so a limit is
\* overshot; but by less than the visits the logger and the concurrent redirects can
\* hold, whatever else fails, as long as no COUNT of the row's clicks does.
OvershootBounded ==
    row.id # 0 /\ Unlimited \notin limits =>
        \E m \in limits : clicks < m + Cardinality(Slots) + Cardinality(Visitors)

\* Load disables a row only if its clicks have reached a max_visits its owner
\* gave it: not for the clicks of a deleted predecessor with the same code.
AutoDisableJustified ==
    [][row.id # 0 /\ row.id = row'.id /\ row.active /\ ~row'.active /\ edit' = edit
        => \E m \in limits \ {Unlimited} : clicks >= m]_vars

\* An edit changes or deletes only a row of the workspace it was authorized in,
\* also when the code is deleted and taken by another tenant after the check.
WorkspaceScoped ==
    [][\A e \in Editors : edit'[e] # edit[e] /\ row' # row /\ row.id # 0
        => row.ws = edit[e].ws]_vars

(* Claims of the repository that the code does not keep. *)

\* A visit to a code that was not live at any moment of it is logged as an orphan
\* (visit.go, LogOrphanVisit): GetURL returns before RecordVisit when Load refuses.
DeadVisitsAreOrphans ==
    \A v \in Visitors :
        visit[v].pc = "refused" /\ (\A s \in seen[v] : ~s.live) => v \in orphan

\* With no request in progress the cache holds the row's URL or nothing.
CacheFreshAtRest ==
    (\A v \in Visitors : ~Busy(v)) /\ (\A e \in Editors : edit[e].pc = "idle")
        => cache \in {NoTarget, row.target}
=============================================================================
