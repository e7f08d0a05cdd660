--------------------------- MODULE UrlStore_proofs ---------------------------
(***************************************************************************)
(* Proofs about UrlStore, for every number of redirects, editors, targets, *)
(* rows and clicks.                                                        *)
(***************************************************************************)
EXTENDS UrlStore, FiniteSetTheorems, TLAPS

USE DEF Unlimited

LEMMA AnyWorkspaceType == AnyWorkspace \in Workspaces
BY UrlStoreAssumption DEF AnyWorkspace

LEMMA LimitsAreNumbers == \A m \in MaxVisits : m \in Int /\ m # 0
BY UrlStoreAssumption

LEMMA IdleTypes ==
    /\ Absent \in RowType
    /\ IdleVisit \in VisitType
    /\ IdleEdit \in EditType
    /\ NoPatch \in Patch
BY AnyWorkspaceType, UrlStoreAssumption
DEF Absent, NoRow, RowType, IdleVisit, VisitType, IdleEdit, EditType, NoPatch, Patch

\* The SET list of an UPDATE leaves a well-formed row, with the same id and
\* workspace.
LEMMA ApplyType ==
    ASSUME NEW r \in RowType, NEW p \in Patch
    PROVE  /\ Apply(r, p) \in RowType
           /\ Apply(r, p).id = r.id
           /\ Apply(r, p).ws = r.ws
<1>1. (CASE p.max = 0 -> r.max [] p.max = -1 -> 0 [] OTHER -> p.max)
        \in {0} \cup MaxVisits
  BY UrlStoreAssumption DEF RowType, Patch
<1>2. (IF p.target = NoTarget THEN r.target ELSE p.target) \in Targets \cup {NoTarget}
  BY DEF RowType, Patch
<1>3. (IF p.active = "keep" THEN r.active ELSE p.active = "on") \in BOOLEAN
  BY DEF RowType, Patch
<1>4. (IF p.expiry = "keep" THEN r.expiry ELSE p.expiry) \in {"never", "later", "past"}
  BY DEF RowType, Patch
<1> QED
  BY <1>1, <1>2, <1>3, <1>4 DEF Apply, RowType

LEMMA SnapshotIsType ==
    ASSUME NEW r \in RowType
    PROVE  Snapshot(r) \in SnapshotType
BY DEF Snapshot, Live, RowType, SnapshotType

\* The history of a redirect stays well formed when it sees the row.
LEMMA ObserveType ==
    ASSUME TypeOK, Observe, row' \in RowType
    PROVE  seen' \in [Visitors -> SUBSET SnapshotType]
<1>1. Snapshot(row') \in SnapshotType
  BY SnapshotIsType
<1> QED
  BY <1>1 DEF TypeOK, Observe

LEMMA ReadFailsType ==
    ASSUME TypeOK, NEW v \in Visitors, ReadFails(v)
    PROVE  seen' \in [Visitors -> SUBSET SnapshotType]
<1>1. Snapshot(Absent) \in SnapshotType
  BY SnapshotIsType, IdleTypes
<1> QED
  BY <1>1 DEF TypeOK, ReadFails

\* The ways a redirect moves on.
LEMMA GotoType ==
    ASSUME TypeOK, NEW v \in Visitors,
           NEW pc \in {"idle", "load", "count", "disable", "evict", "backfill",
                       "record", "get", "served", "refused"},
           Goto(v, pc)
    PROVE  visit' \in [Visitors -> VisitType]
BY DEF TypeOK, Goto, VisitType

LEMMA RefuseType ==
    ASSUME TypeOK, NEW v \in Visitors, Refuse(v)
    PROVE  visit' \in [Visitors -> VisitType]
BY IdleTypes DEF TypeOK, Refuse, VisitType

LEMMA AnswerType ==
    ASSUME TypeOK, NEW v \in Visitors, NEW url \in Targets \cup {NoTarget},
           Accept(v, url) \/ Serve(v, url)
    PROVE  visit' \in [Visitors -> VisitType]
<1>1. ASSUME NEW pc \in {"record", "backfill", "served"}
      PROVE  [IdleVisit EXCEPT !.pc = pc, !.url = url] \in VisitType
  BY IdleTypes DEF VisitType
<1>2. CASE Accept(v, url)
  BY <1>1, <1>2 DEF TypeOK, Accept
<1>3. CASE Serve(v, url)
  BY <1>1, <1>3 DEF TypeOK, Serve
<1> QED
  BY <1>2, <1>3

LEMMA SetCacheType ==
    ASSUME TypeOK, NEW url \in Targets \cup {NoTarget}, SetCache(url)
    PROVE  cache' \in Targets \cup {NoTarget}
BY DEF TypeOK, SetCache

LEMMA EndEditType ==
    ASSUME TypeOK, NEW e \in Editors, EndEdit(e)
    PROVE  edit' \in [Editors -> EditType]
BY IdleTypes DEF TypeOK, EndEdit

-----------------------------------------------------------------------------
(* Type correctness. *)

\* One step keeps every variable's type.
LEMMA TypeStep ==
    ASSUME TypeOK, [Next]_vars
    PROVE  TypeOK'
<1> USE UrlStoreAssumption
<1>1. ASSUME NEW v \in Visitors, GetURL(v)
      PROVE  TypeOK'
  <2>1. visit' \in [Visitors -> VisitType]
    <3>1. ASSUME NEW url \in Targets \cup {NoTarget}
          PROVE  [IdleVisit EXCEPT !.pc = "load", !.hit = (url # NoTarget), !.url = url]
                   \in VisitType
      BY IdleTypes DEF VisitType
    <3>2. \E url \in Targets \cup {NoTarget} :
            visit' = [visit EXCEPT ![v] = [IdleVisit EXCEPT
                        !.pc = "load", !.hit = (url # NoTarget), !.url = url]]
      BY <1>1 DEF GetURL, TypeOK
    <3> QED
      BY <3>1, <3>2 DEF TypeOK
  <2>2. seen' \in [Visitors -> SUBSET SnapshotType]
    BY <1>1, SnapshotIsType DEF GetURL, TypeOK
  <2> QED
    BY <1>1, <2>1, <2>2 DEF GetURL, TypeOK
<1>2. ASSUME NEW v \in Visitors, PrimaryLoad(v)
      PROVE  TypeOK'
  <2>1. visit[v] \in VisitType /\ row \in RowType
    BY DEF TypeOK
  <2>2. (IF visit[v].hit THEN visit[v].url ELSE row.target) \in Targets \cup {NoTarget}
    BY <2>1 DEF VisitType, RowType
  <2>3. visit' \in [Visitors -> VisitType]
    <3> DEFINE url == IF visit[v].hit THEN visit[v].url ELSE row.target
    <3>1. CASE Accept(v, url)
      BY <2>2, <3>1, AnswerType
    <3>2. CASE Refuse(v)
      BY <3>2, RefuseType
    <3>3. CASE visit' = [visit EXCEPT ![v].pc = "count", ![v].url = url,
                                      ![v].id = row.id, ![v].max = row.max]
      BY <2>1, <2>2, <3>3 DEF TypeOK, VisitType, RowType
    <3> QED
      BY <1>2, <3>1, <3>2, <3>3 DEF PrimaryLoad
  <2> QED
    BY <1>2, <2>3 DEF PrimaryLoad, TypeOK
<1>3. ASSUME NEW v \in Visitors, CountClicks(v)
      PROVE  TypeOK'
  <2>1. visit[v].url \in Targets \cup {NoTarget}
    BY DEF TypeOK, VisitType
  <2>2. visit' \in [Visitors -> VisitType]
    BY <1>3, <2>1, GotoType, AnswerType DEF CountClicks, Decide
  <2> QED
    BY <1>3, <2>2 DEF CountClicks, TypeOK
<1>4. ASSUME NEW v \in Visitors, AutoDisable(v)
      PROVE  TypeOK'
  <2>1. row' \in RowType
    BY <1>4 DEF AutoDisable, TypeOK, RowType
  <2>2. seen' \in [Visitors -> SUBSET SnapshotType]
    BY <1>4, <2>1, ObserveType DEF AutoDisable
  <2>3. visit' \in [Visitors -> VisitType]
    BY <1>4, RefuseType DEF AutoDisable
  <2> QED
    BY <1>4, <2>1, <2>2, <2>3 DEF AutoDisable, TypeOK
<1>5. ASSUME NEW v \in Visitors, Evict(v)
      PROVE  TypeOK'
  <2>1. visit' \in [Visitors -> VisitType]
    BY <1>5, GotoType DEF Evict
  <2>2. cache' \in Targets \cup {NoTarget}
    BY <1>5, SetCacheType DEF Evict, DelCache
  <2> QED
    BY <1>5, <2>1, <2>2 DEF Evict, TypeOK
<1>6. ASSUME NEW v \in Visitors, Backfill(v)
      PROVE  TypeOK'
  <2>1. visit[v].url \in Targets \cup {NoTarget}
    BY DEF TypeOK, VisitType
  <2>2. visit' \in [Visitors -> VisitType]
    BY <1>6, GotoType DEF Backfill
  <2>3. cache' \in Targets \cup {NoTarget}
    BY <1>6, <2>1, SetCacheType DEF Backfill
  <2> QED
    BY <1>6, <2>2, <2>3 DEF Backfill, TypeOK
<1>7. ASSUME NEW v \in Visitors, RecordVisit(v)
      PROVE  TypeOK'
  <2>1. visit' \in [Visitors -> VisitType]
    BY <1>7, GotoType DEF RecordVisit
  <2>2. seen' \in [Visitors -> SUBSET SnapshotType]
    BY <1>7, ReadFailsType DEF RecordVisit, TypeOK
  <2>3. slot' \in [Slots -> 0..MaxId]
    BY <1>7 DEF RecordVisit, TypeOK, RowType, Queued
  <2>4. orphan' \subseteq Visitors
    BY <1>7 DEF RecordVisit, TypeOK
  <2> QED
    BY <1>7, <2>1, <2>2, <2>3, <2>4 DEF RecordVisit, TypeOK
<1>8. ASSUME NEW v \in Visitors, GetRecord(v)
      PROVE  TypeOK'
  <2>1. visit[v].url \in Targets \cup {NoTarget} /\ row.target \in Targets \cup {NoTarget}
    BY DEF TypeOK, VisitType, RowType
  <2>2. visit' \in [Visitors -> VisitType]
    BY <1>8, <2>1, AnswerType DEF GetRecord
  <2>3. seen' \in [Visitors -> SUBSET SnapshotType]
    BY <1>8, ReadFailsType DEF GetRecord, TypeOK
  <2> QED
    BY <1>8, <2>2, <2>3 DEF GetRecord, TypeOK
<1>9. ASSUME NEW e \in Editors, CreateURL(e)
      PROVE  TypeOK'
  <2>1. PICK ws \in Workspaces, url \in Targets, expiry \in {"never", "later"},
             max \in {Unlimited} \cup {m \in MaxVisits : m > 0} :
          /\ row' = [id |-> nextId, ws |-> ws, target |-> url, active |-> TRUE,
                     expiry |-> expiry, max |-> max]
          /\ limits' = {max}
          /\ edit' = [edit EXCEPT ![e] = [IdleEdit EXCEPT !.pc = "set", !.ws = ws,
                                              !.target = url]]
    BY <1>9 DEF CreateURL
  <2>2. row' \in RowType
    BY <1>9, <2>1 DEF CreateURL, TypeOK, RowType
  <2>3. edit' \in [Editors -> EditType]
    BY <2>1, IdleTypes DEF TypeOK, EditType
  <2>4. seen' \in [Visitors -> SUBSET SnapshotType]
    BY <1>9, <2>2, ObserveType DEF CreateURL
  <2>5. nextId' \in 1..MaxId + 1
    BY <1>9 DEF CreateURL, TypeOK
  <2> QED
    BY <1>9, <2>1, <2>2, <2>3, <2>4, <2>5 DEF CreateURL, TypeOK
<1>10. ASSUME NEW e \in Editors, UpdateURL(e)
       PROVE  TypeOK'
  <2>1. edit' \in [Editors -> EditType]
    <3>1. ASSUME NEW p \in Patches
          PROVE  [IdleEdit EXCEPT !.pc = "update", !.ws = row.ws, !.patch = p] \in EditType
      BY IdleTypes DEF TypeOK, EditType, RowType
    <3>2. [IdleEdit EXCEPT !.pc = "reread", !.ws = row.ws] \in EditType
      BY IdleTypes DEF TypeOK, EditType, RowType
    <3> QED
      BY <1>10, <3>1, <3>2 DEF UpdateURL, TypeOK
  <2> QED
    BY <1>10, <2>1 DEF UpdateURL, TypeOK
<1>11. ASSUME NEW e \in Editors, DeleteURL(e)
       PROVE  TypeOK'
  <2>1. edit' \in [Editors -> EditType]
    BY <1>11, IdleTypes DEF DeleteURL, TypeOK, EditType, RowType
  <2> QED
    BY <1>11, <2>1 DEF DeleteURL, TypeOK
<1>12. ASSUME NEW e \in Editors, CommitUpdate(e)
       PROVE  TypeOK'
  <2>1. CASE EndEdit(e) /\ UNCHANGED <<row, limits, seen>>
    BY <1>12, <2>1, EndEditType DEF CommitUpdate, TypeOK
  <2>2. CASE /\ row' = Apply(row, edit[e].patch)
             /\ limits' = limits \cup {row'.max}
             /\ edit' = [edit EXCEPT ![e].pc = "reread", ![e].patch = NoPatch]
             /\ Observe
    <3>1. edit[e] \in EditType /\ edit[e].patch \in Patch
      BY DEF TypeOK, EditType
    <3>2. row' \in RowType
      BY <2>2, <3>1, ApplyType DEF TypeOK
    <3>3. edit' \in [Editors -> EditType]
      BY <2>2, <3>1, IdleTypes DEF TypeOK, EditType
    <3>4. seen' \in [Visitors -> SUBSET SnapshotType]
      BY <2>2, <3>2, ObserveType
    <3>5. limits' \subseteq {Unlimited} \cup MaxVisits
      BY <2>2, <3>2 DEF TypeOK, RowType
    <3> QED
      BY <1>12, <3>2, <3>3, <3>4, <3>5 DEF CommitUpdate, TypeOK
  <2> QED
    BY <1>12, <2>1, <2>2 DEF CommitUpdate
<1>13. ASSUME NEW e \in Editors, Reread(e)
       PROVE  TypeOK'
  <2>1. edit' \in [Editors -> EditType]
    <3>1. edit[e] \in EditType /\ row \in RowType
      BY DEF TypeOK
    <3>2. CASE edit' = [edit EXCEPT ![e].pc = "invalidate", ![e].target = row.target,
                                    ![e].active = row.active]
      BY <3>1, <3>2 DEF TypeOK, EditType, RowType
    <3> QED
      BY <1>13, <3>2, EndEditType DEF Reread
  <2> QED
    BY <1>13, <2>1 DEF Reread, TypeOK
<1>14. ASSUME NEW e \in Editors, CommitDelete(e)
       PROVE  TypeOK'
  <2>1. CASE EndEdit(e) /\ UNCHANGED <<row, clicks, limits, seen>>
    BY <1>14, <2>1, EndEditType DEF CommitDelete, TypeOK
  <2>2. CASE /\ row' = Absent
             /\ clicks' = 0
             /\ limits' = {}
             /\ edit' = [edit EXCEPT ![e].pc = "invalidate"]
             /\ Observe
    <3>1. edit' \in [Editors -> EditType]
      BY <2>2 DEF TypeOK, EditType
    <3>2. seen' \in [Visitors -> SUBSET SnapshotType]
      BY <2>2, IdleTypes, ObserveType
    <3> QED
      BY <1>14, <2>2, <3>1, <3>2, IdleTypes DEF CommitDelete, TypeOK
  <2> QED
    BY <1>14, <2>1, <2>2 DEF CommitDelete
<1>15. ASSUME NEW e \in Editors, Invalidate(e)
       PROVE  TypeOK'
  <2>1. cache' \in Targets \cup {NoTarget}
    BY <1>15, SetCacheType DEF Invalidate, DelCache
  <2>2. edit' \in [Editors -> EditType]
    <3>1. edit[e] \in EditType
      BY DEF TypeOK
    <3>2. CASE edit' = [edit EXCEPT ![e].pc = "set"]
      BY <3>1, <3>2 DEF TypeOK, EditType
    <3> QED
      BY <1>15, <3>2, EndEditType DEF Invalidate
  <2> QED
    BY <1>15, <2>1, <2>2 DEF Invalidate, TypeOK
<1>16. ASSUME NEW e \in Editors, WriteThrough(e)
       PROVE  TypeOK'
  <2>1. edit[e].target \in Targets \cup {NoTarget}
    BY DEF TypeOK, EditType
  <2>2. cache' \in Targets \cup {NoTarget}
    BY <1>16, <2>1, SetCacheType DEF WriteThrough
  <2> QED
    BY <1>16, <2>2, EndEditType DEF WriteThrough, TypeOK
<1>17. ASSUME NEW s \in Slots, InsertClick(s)
       PROVE  TypeOK'
  BY <1>17 DEF InsertClick, TypeOK
<1>18. CASE ExpireURL
  <2>1. row' \in RowType
    BY <1>18 DEF ExpireURL, TypeOK, RowType
  <2>2. seen' \in [Visitors -> SUBSET SnapshotType]
    BY <1>18, <2>1, ObserveType DEF ExpireURL
  <2> QED
    BY <1>18, <2>1, <2>2 DEF ExpireURL, TypeOK
<1>19. CASE CacheTTL
  BY <1>19 DEF CacheTTL, TypeOK
<1>20. CASE UNCHANGED vars
  BY <1>20 DEF vars, TypeOK
<1> QED
  BY <1>1, <1>2, <1>3, <1>4, <1>5, <1>6, <1>7, <1>8, <1>9, <1>10, <1>11, <1>12,
     <1>13, <1>14, <1>15, <1>16, <1>17, <1>18, <1>19, <1>20
  DEF Next, Redirect, Edit

\* Every reachable state is well typed, and the counters keep their bounds.
THEOREM TypeCorrect == Spec => []TypeOK
<1>1. Init => TypeOK
  BY IdleTypes, UrlStoreAssumption DEF Init, TypeOK
<1> QED
  BY <1>1, TypeStep, PTL DEF Spec

-----------------------------------------------------------------------------
(* What a redirect has seen of the row. *)

\* A redirect in progress has seen the row as it is now.
WatchInv == \A v \in Visitors : Busy(v) => Snapshot(row) \in seen[v]

\* A redirect past PrimaryLoad's SELECT has seen the row live.
LiveInv == \A v \in Visitors :
    visit[v].pc \in {"count", "disable", "backfill", "record", "get", "served"}
        => \E s \in seen[v] : s.live

\* A code without a row has no target and no clicks.
AbsentInv == row.id = 0 => row.target = NoTarget /\ clicks = 0

\* The code of an orphan visit was live, and then not there or not readable.
OrphanInv == \A v \in orphan : /\ \E s \in seen[v] : s.live
                              /\ \E s \in seen[v] : s.target = NoTarget

RedirectInv == TypeOK /\ WatchInv /\ LiveInv /\ AbsentInv
                      /\ StaleOnlyIfGone /\ OrphanInv

\* Steps that leave the redirects and the row alone.
LEMMA RedirectUntouched ==
    ASSUME RedirectInv, TypeOK', UNCHANGED <<row, visit, seen, orphan>>,
           row.id = 0 => clicks' = clicks
    PROVE  RedirectInv'
BY DEF RedirectInv, WatchInv, LiveInv, AbsentInv, StaleOnlyIfGone, OrphanInv,
       Busy, Snapshot, Live

\* Steps that change the row: every redirect in progress sees the new one.
LEMMA RedirectObserves ==
    ASSUME RedirectInv, TypeOK', Observe, UNCHANGED <<visit, orphan>>,
           row'.id = 0 => row'.target = NoTarget /\ clicks' = 0
    PROVE  RedirectInv'
<1>1. \A v \in Visitors : seen[v] \subseteq seen'[v]
  BY DEF Observe
<1>2. WatchInv'
  BY DEF Observe, WatchInv, Busy, Snapshot, Live
<1>3. LiveInv'
  BY <1>1 DEF RedirectInv, LiveInv
<1>4. StaleOnlyIfGone'
  BY <1>1 DEF RedirectInv, StaleOnlyIfGone
<1>5. OrphanInv'
  BY <1>1 DEF RedirectInv, OrphanInv, TypeOK
<1> QED
  BY <1>2, <1>3, <1>4, <1>5 DEF RedirectInv, AbsentInv

\* Steps of a redirect v that change neither the row nor what others have seen:
\* what remains to show is about v.
LEMMA RedirectSteps ==
    ASSUME RedirectInv, TypeOK', NEW v \in Visitors, UNCHANGED <<row, clicks>>,
           \A w \in Visitors \ {v} : visit'[w] = visit[w] /\ seen'[w] = seen[w],
           orphan' \subseteq orphan \cup {v},
           Snapshot(row) \in seen'[v],
           visit'[v].pc \in {"count", "disable", "backfill", "record", "get", "served"}
               => \E s \in seen'[v] : s.live,
           visit'[v].pc = "served" => {s.target : s \in seen'[v]} \cap {visit'[v].url, NoTarget} # {},
           v \in orphan' => /\ \E s \in seen'[v] : s.live
                            /\ \E s \in seen'[v] : s.target = NoTarget
    PROVE  RedirectInv'
<1>1. WatchInv'
  BY DEF RedirectInv, WatchInv, Busy, Snapshot, Live
<1>2. LiveInv'
  BY DEF RedirectInv, LiveInv
<1>3. StaleOnlyIfGone'
  BY DEF RedirectInv, StaleOnlyIfGone
<1>4. OrphanInv'
  BY DEF RedirectInv, OrphanInv, TypeOK
<1> QED
  BY <1>1, <1>2, <1>3, <1>4 DEF RedirectInv, AbsentInv

\* Where Load's two ways out lead.
LEMMA AcceptPc ==
    ASSUME TypeOK, NEW v \in Visitors, NEW url, Accept(v, url)
    PROVE  visit'[v].pc \in {"backfill", "record"}
BY DEF TypeOK, Accept, IdleVisit

LEMMA RefusePc ==
    ASSUME TypeOK, NEW v \in Visitors, Refuse(v)
    PROVE  visit'[v].pc \in {"evict", "refused"}
BY DEF TypeOK, Refuse, IdleVisit

LEMMA GotoPc ==
    ASSUME TypeOK, NEW v \in Visitors, NEW pc, Goto(v, pc)
    PROVE  visit'[v].pc = pc
<1>1. visit[v] \in VisitType /\ visit'[v] = [visit[v] EXCEPT !.pc = pc]
  BY DEF TypeOK, Goto
<1> QED
  BY <1>1 DEF VisitType

\* To a redirect whose read failed the row had no target.
LEMMA FailedReadSeesNone ==
    ASSUME TypeOK, NEW v \in Visitors, ReadFails(v)
    PROVE  \E s \in seen'[v] : s.target = NoTarget
<1>1. Snapshot(Absent) \in seen'[v]
  BY DEF TypeOK, ReadFails
<1>2. Snapshot(Absent).target = NoTarget
  BY DEF Snapshot, Absent, NoRow
<1> QED
  BY <1>1, <1>2

LEMMA RedirectStep ==
    ASSUME RedirectInv, [Next]_vars
    PROVE  RedirectInv'
<1>0. TypeOK /\ TypeOK'
  BY TypeStep DEF RedirectInv
<1> USE <1>0
<1>1. ASSUME NEW v \in Visitors, GetURL(v)
      PROVE  RedirectInv'
  <2>1. visit'[v].pc = "load" /\ seen'[v] = {Snapshot(row)} /\ v \notin orphan'
    BY <1>1 DEF GetURL, TypeOK, IdleVisit
  <2>2. \A w \in Visitors \ {v} : visit'[w] = visit[w] /\ seen'[w] = seen[w]
    BY <1>1 DEF GetURL, TypeOK
  <2> QED
    BY <1>1, <2>1, <2>2, RedirectSteps DEF GetURL
<1>2. ASSUME NEW v \in Visitors, PrimaryLoad(v)
      PROVE  RedirectInv'
  <2>1. Snapshot(row) \in seen[v]
    BY <1>2 DEF PrimaryLoad, RedirectInv, WatchInv, Busy
  <2>2. \A w \in Visitors \ {v} : visit'[w] = visit[w] /\ seen'[w] = seen[w]
    BY <1>2 DEF PrimaryLoad, TypeOK, Accept, Refuse
  <2>3. /\ visit'[v].pc \in {"count", "backfill", "record"} /\ Live(row)
        \/ visit'[v].pc \in {"evict", "refused"}
    <3> DEFINE url == IF visit[v].hit THEN visit[v].url ELSE row.target
    <3>1. CASE Live(row) /\ Accept(v, url)
      BY <3>1, AcceptPc
    <3>2. CASE Refuse(v)
      BY <3>2, RefusePc
    <3>3. CASE /\ Live(row)
               /\ visit' = [visit EXCEPT ![v].pc = "count", ![v].url = url,
                                         ![v].id = row.id, ![v].max = row.max]
      <4>1. visit[v] \in VisitType
        BY DEF TypeOK
      <4> QED
        BY <3>3, <4>1 DEF TypeOK, VisitType
    <3> QED
      BY <1>2, <3>1, <3>2, <3>3 DEF PrimaryLoad
  <2>4. Live(row) => \E s \in seen'[v] : s.live
    BY <1>2, <2>1 DEF PrimaryLoad, Snapshot
  <2> QED
    BY <1>2, <2>1, <2>2, <2>3, <2>4, RedirectSteps
    DEF PrimaryLoad, RedirectInv, OrphanInv
<1>3. ASSUME NEW v \in Visitors, CountClicks(v)
      PROVE  RedirectInv'
  <2>1. Snapshot(row) \in seen[v] /\ \E s \in seen[v] : s.live
    BY <1>3 DEF CountClicks, RedirectInv, WatchInv, LiveInv, Busy
  <2>2. \A w \in Visitors \ {v} : visit'[w] = visit[w] /\ seen'[w] = seen[w]
    BY <1>3 DEF CountClicks, Decide, TypeOK, Accept, Goto
  <2>3. visit'[v].pc # "served"
    BY <1>3, AcceptPc, GotoPc DEF CountClicks, Decide
  <2> QED
    BY <1>3, <2>1, <2>2, <2>3, RedirectSteps
    DEF CountClicks, RedirectInv, OrphanInv
<1>5. ASSUME NEW v \in Visitors, Evict(v)
      PROVE  RedirectInv'
  <2>1. Snapshot(row) \in seen[v]
    BY <1>5 DEF Evict, RedirectInv, WatchInv, Busy
  <2>2. \A w \in Visitors \ {v} : visit'[w] = visit[w] /\ seen'[w] = seen[w]
    BY <1>5 DEF Evict, TypeOK, Goto
  <2>3. visit'[v].pc = "refused"
    BY <1>5 DEF Evict, TypeOK, Goto, VisitType
  <2> QED
    BY <1>5, <2>1, <2>2, <2>3, RedirectSteps DEF Evict, RedirectInv, OrphanInv
<1>6. ASSUME NEW v \in Visitors, Backfill(v)
      PROVE  RedirectInv'
  <2>1. Snapshot(row) \in seen[v] /\ \E s \in seen[v] : s.live
    BY <1>6 DEF Backfill, RedirectInv, WatchInv, LiveInv, Busy
  <2>2. \A w \in Visitors \ {v} : visit'[w] = visit[w] /\ seen'[w] = seen[w]
    BY <1>6 DEF Backfill, TypeOK, Goto
  <2>3. visit'[v].pc # "served"
    BY <1>6 DEF Backfill, TypeOK, Goto, VisitType
  <2> QED
    BY <1>6, <2>1, <2>2, <2>3, RedirectSteps DEF Backfill, RedirectInv, OrphanInv
<1>7. ASSUME NEW v \in Visitors, RecordVisit(v)
      PROVE  RedirectInv'
  <2>1. Snapshot(row) \in seen[v] /\ \E s \in seen[v] : s.live
    BY <1>7 DEF RecordVisit, RedirectInv, WatchInv, LiveInv, Busy
  <2>2. \A w \in Visitors \ {v} : visit'[w] = visit[w] /\ seen'[w] = seen[w]
    BY <1>7 DEF RecordVisit, TypeOK, Goto, ReadFails
  <2>3. visit'[v].pc = "get"
    BY <1>7 DEF RecordVisit, TypeOK, Goto, VisitType
  <2>4. seen[v] \subseteq seen'[v]
    BY <1>7 DEF RecordVisit, TypeOK, ReadFails
  <2>5. v \in orphan' => v \in orphan \/ \E s \in seen'[v] : s.target = NoTarget
    <3>1. CASE row.id = 0 /\ UNCHANGED seen
      BY <2>1, <3>1 DEF RedirectInv, AbsentInv, Snapshot
    <3>2. CASE ReadFails(v)
      BY <3>2, FailedReadSeesNone
    <3> QED
      BY <1>7, <3>1, <3>2 DEF RecordVisit
  <2>6. v \in orphan => \E s \in seen'[v] : s.target = NoTarget
    BY <2>4 DEF RedirectInv, OrphanInv
  <2>7. orphan' \subseteq orphan \cup {v}
    BY <1>7 DEF RecordVisit
  <2> QED
    BY <1>7, <2>1, <2>2, <2>3, <2>4, <2>5, <2>6, <2>7, RedirectSteps DEF RecordVisit
<1>8. ASSUME NEW v \in Visitors, GetRecord(v)
      PROVE  RedirectInv'
  <2>1. Snapshot(row) \in seen[v] /\ \E s \in seen[v] : s.live
    BY <1>8 DEF GetRecord, RedirectInv, WatchInv, LiveInv, Busy
  <2>2. \A w \in Visitors \ {v} : visit'[w] = visit[w] /\ seen'[w] = seen[w]
    BY <1>8 DEF GetRecord, TypeOK, Serve, ReadFails
  <2>3. seen[v] \subseteq seen'[v]
    BY <1>8 DEF GetRecord, TypeOK, ReadFails
  <2>4. {s.target : s \in seen'[v]} \cap {visit'[v].url, NoTarget} # {}
    <3>1. CASE row.id # 0 /\ Serve(v, row.target) /\ UNCHANGED seen
      <4>1. visit'[v].url = row.target
        BY <3>1 DEF TypeOK, Serve, IdleVisit
      <4> QED
        BY <2>1, <3>1, <4>1 DEF Snapshot
    <3>2. CASE row.id = 0 /\ UNCHANGED seen
      BY <2>1, <3>2 DEF RedirectInv, AbsentInv, Snapshot
    <3>3. CASE ReadFails(v)
      BY <3>3, FailedReadSeesNone
    <3> QED
      BY <1>8, <3>1, <3>2, <3>3 DEF GetRecord
  <2> QED
    BY <1>8, <2>1, <2>2, <2>3, <2>4, RedirectSteps
    DEF GetRecord, RedirectInv, OrphanInv
<1>4. ASSUME NEW v \in Visitors, AutoDisable(v)
      PROVE  RedirectInv'
  <2>1. \A w \in Visitors \ {v} : visit'[w] = visit[w]
    BY <1>4 DEF AutoDisable, TypeOK, Refuse
  <2>2. visit'[v].pc \in {"evict", "refused"}
    BY <1>4 DEF AutoDisable, TypeOK, Refuse, IdleVisit, VisitType
  <2>3. \A w \in Visitors : seen[w] \subseteq seen'[w]
    BY <1>4 DEF AutoDisable, Observe
  <2>4. \A w \in Visitors : Busy(w) => Snapshot(row') \in seen'[w]
    BY <1>4 DEF AutoDisable, Observe
  <2>5. WatchInv'
    <3>1. Busy(v)
      BY <1>4 DEF AutoDisable, Busy
    <3>2. Snapshot(row') = Snapshot(row)'
      BY DEF Snapshot, Live
    <3> QED
      BY <2>1, <2>4, <3>1, <3>2 DEF WatchInv, Busy
  <2>6. LiveInv'
    BY <2>1, <2>2, <2>3 DEF RedirectInv, LiveInv
  <2>7. StaleOnlyIfGone'
    BY <2>1, <2>2, <2>3 DEF RedirectInv, StaleOnlyIfGone
  <2>8. OrphanInv'
    BY <1>4, <2>3 DEF AutoDisable, RedirectInv, OrphanInv, TypeOK
  <2>9. AbsentInv'
    BY <1>4 DEF AutoDisable, RedirectInv, AbsentInv, TypeOK, RowType
  <2> QED
    BY <2>5, <2>6, <2>7, <2>8, <2>9 DEF RedirectInv
<1>9. ASSUME NEW e \in Editors, CreateURL(e)
      PROVE  RedirectInv'
  <2>1. row'.id = nextId /\ nextId # 0
    BY <1>9 DEF CreateURL, TypeOK
  <2> QED
    BY <1>9, <2>1, RedirectObserves DEF CreateURL
<1>10. ASSUME NEW e \in Editors, UpdateURL(e) \/ DeleteURL(e) \/ Reread(e)
                                   \/ Invalidate(e) \/ WriteThrough(e)
       PROVE  RedirectInv'
  BY <1>10, RedirectUntouched DEF UpdateURL, DeleteURL, Reread, Invalidate, WriteThrough
<1>11. ASSUME NEW e \in Editors, CommitUpdate(e)
       PROVE  RedirectInv'
  <2>1. CASE UNCHANGED <<row, limits, seen>>
    BY <1>11, <2>1, RedirectUntouched DEF CommitUpdate
  <2>2. CASE InWorkspace(edit[e].ws) /\ row' = Apply(row, edit[e].patch) /\ Observe
    <3>1. row'.id # 0
      BY <2>2, ApplyType DEF InWorkspace, TypeOK, EditType
    <3> QED
      BY <1>11, <2>2, <3>1, RedirectObserves DEF CommitUpdate
  <2> QED
    BY <1>11, <2>1, <2>2 DEF CommitUpdate
<1>12. ASSUME NEW e \in Editors, CommitDelete(e)
       PROVE  RedirectInv'
  <2>1. CASE UNCHANGED <<row, clicks, limits, seen>>
    BY <1>12, <2>1, RedirectUntouched DEF CommitDelete
  <2>2. CASE row' = Absent /\ clicks' = 0 /\ Observe
    BY <1>12, <2>2, RedirectObserves DEF CommitDelete, Absent, NoRow
  <2> QED
    BY <1>12, <2>1, <2>2 DEF CommitDelete
<1>13. ASSUME NEW s \in Slots, InsertClick(s)
       PROVE  RedirectInv'
  BY <1>13, RedirectUntouched DEF InsertClick, TypeOK
<1>14. CASE ExpireURL
  <2>1. row'.id = row.id /\ row'.target = row.target
    BY <1>14 DEF ExpireURL, TypeOK, RowType
  <2> QED
    BY <1>14, <2>1, RedirectObserves DEF ExpireURL, RedirectInv, AbsentInv
<1>15. CASE CacheTTL
  BY <1>15, RedirectUntouched DEF CacheTTL
<1>16. CASE UNCHANGED vars
  BY <1>16, RedirectUntouched DEF vars
<1> QED
  BY <1>1, <1>2, <1>3, <1>4, <1>5, <1>6, <1>7, <1>8, <1>9, <1>10, <1>11, <1>12, <1>13,
     <1>14, <1>15, <1>16
  DEF Next, Redirect, Edit

LEMMA RedirectInvariant == Spec => []RedirectInv
<1>1. Init => RedirectInv
  <2>1. Init => TypeOK
    BY IdleTypes, UrlStoreAssumption DEF Init, TypeOK
  <2> QED
    BY <2>1 DEF Init, RedirectInv, WatchInv, LiveInv, AbsentInv, StaleOnlyIfGone,
                OrphanInv, Busy, IdleVisit, Absent, NoRow
<1> QED
  BY <1>1, RedirectStep, PTL DEF Spec

\* No redirect is served unless the code was live at some moment between the
\* request and its answer, whatever the cache held and whichever calls failed.
THEOREM RedirectsNeedLiveCode == Spec => []RedirectNeedsLive
<1>1. RedirectInv => RedirectNeedsLive
  BY DEF RedirectInv, LiveInv, RedirectNeedsLive
<1> QED
  BY <1>1, RedirectInvariant, PTL

\* A redirect goes to a URL the row held during it, unless the row was gone or
\* could not be read at some moment of it.
THEOREM StaleTargetsAreRare == Spec => []StaleOnlyIfGone
<1>1. RedirectInv => StaleOnlyIfGone
  BY DEF RedirectInv
<1> QED
  BY <1>1, RedirectInvariant, PTL

\* No orphan visit is one to a code that was never live during it, although those are
\* the visits LogOrphanVisit is for: every one comes from a code that vanished, or
\* could not be read, between Load and RecordVisit.
THEOREM OrphansWereLive == Spec => [](\A v \in orphan : \E s \in seen[v] : s.live)
<1>1. RedirectInv => \A v \in orphan : \E s \in seen[v] : s.live
  BY DEF RedirectInv, OrphanInv
<1> QED
  BY <1>1, RedirectInvariant, PTL

-----------------------------------------------------------------------------
(* Who may change the row. *)

\* The WHERE clauses of the writes keep an edit to the workspace it was
\* authorized in, whatever happened to the code since the check.
THEOREM EditsStayInTheirWorkspace == Spec => WorkspaceScoped
<1> DEFINE Scoped == \A e \in Editors : edit'[e] # edit[e] /\ row' # row /\ row.id # 0
                        => row.ws = edit[e].ws
<1>1. ASSUME TypeOK, [Next]_vars
      PROVE  Scoped
  <2>1. CASE edit' = edit \/ row' = row \/ row.id = 0
    BY <2>1
  <2>2. ASSUME NEW e \in Editors, CommitUpdate(e) \/ CommitDelete(e)
        PROVE  Scoped
    <3>1. \A f \in Editors \ {e} : edit'[f] = edit[f]
      BY <1>1, <2>2 DEF CommitUpdate, CommitDelete, EndEdit, TypeOK
    <3>2. row' = row \/ row.ws = edit[e].ws
      BY <2>2 DEF CommitUpdate, CommitDelete, InWorkspace
    <3> QED
      BY <3>1, <3>2
  <2> QED
    BY <1>1, <2>1, <2>2
    DEF Next, Redirect, Edit, vars, GetURL, PrimaryLoad, CountClicks, AutoDisable, Evict,
        Backfill, RecordVisit, GetRecord, CreateURL, UpdateURL, DeleteURL, Reread,
        Invalidate, WriteThrough, InsertClick, ExpireURL, CacheTTL
<1>2. TypeOK /\ [Next]_vars => [Scoped]_vars
  BY <1>1
<1> QED
  BY <1>2, TypeCorrect, PTL DEF WorkspaceScoped, Spec

-----------------------------------------------------------------------------
(* Why a row is disabled. *)

\* Ids are not used twice.
IdInv == row.id < nextId /\ \A v \in Visitors : visit[v].id < nextId

\* The history knows the limit the row has.
LimitInv == row.id # 0 => row.max \in limits

\* A redirect that counts clicks carries a limit of the row it loaded.
CountInv == \A v \in Visitors : visit[v].pc = "count" =>
    /\ visit[v].id # 0
    /\ visit[v].max # Unlimited
    /\ visit[v].id = row.id => visit[v].max \in limits

\* The clicks of a row about to be disabled have reached a limit of its.
ReachedLimit == \E m \in limits \ {Unlimited} : clicks >= m
DisableInv == \A v \in Visitors :
    visit[v].pc = "disable" /\ visit[v].id = row.id /\ row.id # 0 => ReachedLimit

LimitsInv == TypeOK /\ IdInv /\ LimitInv /\ CountInv /\ DisableInv

\* Steps that may add a limit or a click to the row, and touch no redirect.
LEMMA LimitsGrow ==
    ASSUME LimitsInv, TypeOK', row'.id = row.id, limits \subseteq limits', clicks' >= clicks,
           nextId' = nextId, visit' = visit, row'.id # 0 => row'.max \in limits'
    PROVE  LimitsInv'
<1>1. \A m \in limits : m \in Int
  BY UrlStoreAssumption DEF LimitsInv, TypeOK
<1>2. clicks \in Int /\ clicks' \in Int
  BY DEF LimitsInv, TypeOK
<1>3. ReachedLimit => ReachedLimit'
  BY <1>1, <1>2 DEF ReachedLimit
<1> QED
  BY <1>3 DEF LimitsInv, IdInv, LimitInv, CountInv, DisableInv

\* Steps of a redirect v that leave the clicks alone and forget no limit.
LEMMA LimitsSteps ==
    ASSUME LimitsInv, TypeOK', NEW v \in Visitors,
           row'.id = row.id, row'.max = row.max, limits \subseteq limits',
           UNCHANGED <<clicks, nextId>>,
           \A w \in Visitors \ {v} : visit'[w] = visit[w],
           visit'[v].id < nextId,
           visit'[v].pc = "count" =>
               /\ visit'[v].id # 0
               /\ visit'[v].max # Unlimited
               /\ visit'[v].id = row.id => visit'[v].max \in limits,
           visit'[v].pc = "disable" /\ visit'[v].id = row.id /\ row.id # 0 => ReachedLimit
    PROVE  LimitsInv'
BY DEF LimitsInv, IdInv, LimitInv, CountInv, DisableInv, ReachedLimit

\* Steps that move a redirect on with the locals it had or with none.
LEMMA MovesOn ==
    ASSUME LimitsInv, TypeOK', NEW v \in Visitors,
           row'.id = row.id, row'.max = row.max, limits \subseteq limits',
           UNCHANGED <<clicks, nextId>>,
           \/ \E pc \in {"evict", "refused", "record", "get"} : Goto(v, pc)
           \/ Refuse(v)
           \/ \E url \in Targets \cup {NoTarget} : Accept(v, url) \/ Serve(v, url)
    PROVE  LimitsInv'
<1>1. TypeOK /\ visit[v] \in VisitType
  BY DEF LimitsInv, TypeOK
<1>2. nextId > 0
  BY <1>1 DEF TypeOK
<1>3. \A w \in Visitors \ {v} : visit'[w] = visit[w]
  BY <1>1 DEF TypeOK, Goto, Refuse, Accept, Serve
<1>4. visit'[v].id < nextId /\ visit'[v].pc \notin {"count", "disable"}
  <2>1. ASSUME NEW pc \in {"evict", "refused", "record", "get"}, Goto(v, pc)
        PROVE  visit'[v].id = visit[v].id /\ visit'[v].pc = pc
    <3>1. visit'[v] = [visit[v] EXCEPT !.pc = pc]
      BY <1>1, <2>1 DEF TypeOK, Goto
    <3> QED
      BY <1>1, <3>1 DEF VisitType
  <2>2. CASE Refuse(v)
    BY <1>1, <1>2, <2>2 DEF TypeOK, Refuse, IdleVisit
  <2>3. ASSUME NEW url \in Targets \cup {NoTarget}, Accept(v, url) \/ Serve(v, url)
        PROVE  visit'[v].id = 0 /\ visit'[v].pc \notin {"count", "disable"}
    <3>1. CASE Accept(v, url)
      BY <1>1, <3>1 DEF TypeOK, Accept, IdleVisit
    <3>2. CASE Serve(v, url)
      BY <1>1, <3>2 DEF TypeOK, Serve, IdleVisit
    <3> QED
      BY <2>3, <3>1, <3>2
  <2> QED
    BY <1>2, <2>1, <2>2, <2>3 DEF LimitsInv, IdInv
<1> QED
  BY <1>3, <1>4, LimitsSteps

LEMMA LimitsStep ==
    ASSUME LimitsInv, [Next]_vars
    PROVE  LimitsInv'
<1>0. TypeOK /\ TypeOK'
  BY TypeStep DEF LimitsInv
<1> USE <1>0
<1>1. ASSUME NEW v \in Visitors, GetURL(v)
      PROVE  LimitsInv'
  <2>1. visit'[v].pc = "load" /\ visit'[v].id = 0
    BY <1>1 DEF GetURL, TypeOK, IdleVisit
  <2>2. \A w \in Visitors \ {v} : visit'[w] = visit[w]
    BY <1>1 DEF GetURL, TypeOK
  <2>3. 0 < nextId
    BY DEF TypeOK
  <2> QED
    BY <1>1, <2>1, <2>2, <2>3, LimitsSteps DEF GetURL
<1>2. ASSUME NEW v \in Visitors, PrimaryLoad(v)
      PROVE  LimitsInv'
  <2> DEFINE url == IF visit[v].hit THEN visit[v].url ELSE row.target
  <2>1. url \in Targets \cup {NoTarget} /\ visit[v] \in VisitType
    BY DEF TypeOK, VisitType, RowType
  <2>2. CASE Accept(v, url) \/ Refuse(v)
    BY <1>2, <2>1, <2>2, MovesOn DEF PrimaryLoad
  <2>3. CASE /\ Live(row)
             /\ row.max # Unlimited
             /\ visit' = [visit EXCEPT ![v].pc = "count", ![v].url = url,
                                       ![v].id = row.id, ![v].max = row.max]
    <3>1. visit'[v].pc = "count" /\ visit'[v].id = row.id /\ visit'[v].max = row.max
      BY <2>1, <2>3 DEF TypeOK, VisitType
    <3>2. \A w \in Visitors \ {v} : visit'[w] = visit[w]
      BY <2>3 DEF TypeOK
    <3>3. row.max \in limits /\ row.id < nextId /\ row.id # 0
      BY <2>3 DEF LimitsInv, LimitInv, IdInv, Live
    <3> QED
      BY <1>2, <2>3, <3>1, <3>2, <3>3, LimitsSteps DEF PrimaryLoad
  <2> QED
    BY <1>2, <2>2, <2>3 DEF PrimaryLoad
<1>3. ASSUME NEW v \in Visitors, CountClicks(v)
      PROVE  LimitsInv'
  <2>1. visit[v].url \in Targets \cup {NoTarget} /\ visit[v].max \in {0} \cup MaxVisits
    BY DEF TypeOK, VisitType
  <2>a. limits \subseteq limits' /\ UNCHANGED <<row, clicks, nextId>>
    BY <1>3 DEF CountClicks
  <2>2. CASE Accept(v, visit[v].url)
    BY <2>a, <2>1, <2>2, MovesOn
  <2>3. ASSUME NEW n \in {0, clicks}, n >= visit[v].max, n = 0 \/ row.id = visit[v].id,
               Goto(v, "disable")
        PROVE  LimitsInv'
    <3>1. visit[v].max \in Int /\ visit[v].max # 0
      <4>1. visit[v].max # 0
        BY <1>3 DEF CountClicks, LimitsInv, CountInv
      <4> QED
        BY <2>1, <4>1, LimitsAreNumbers
    <3>2. clicks >= visit[v].max
      BY <2>3, <3>1 DEF TypeOK
    <3>3. visit[v].id = row.id => ReachedLimit
      BY <1>3, <3>1, <3>2 DEF CountClicks, LimitsInv, CountInv, ReachedLimit
    <3>4. visit'[v].pc = "disable" /\ visit'[v].id = visit[v].id
      <4>1. visit[v] \in VisitType /\ visit'[v] = [visit[v] EXCEPT !.pc = "disable"]
        BY <2>3 DEF TypeOK, Goto
      <4> QED
        BY <4>1 DEF VisitType
    <3>5. \A w \in Visitors \ {v} : visit'[w] = visit[w]
      BY <2>3 DEF TypeOK, Goto
    <3> QED
      BY <2>a, <3>3, <3>4, <3>5, LimitsSteps DEF LimitsInv, IdInv
  <2> QED
    BY <1>3, <2>2, <2>3 DEF CountClicks, Decide
<1>4. ASSUME NEW v \in Visitors, AutoDisable(v)
      PROVE  LimitsInv'
  <2>1. row'.id = row.id /\ row'.max = row.max
    BY <1>4 DEF AutoDisable, TypeOK, RowType
  <2> QED
    BY <1>4, <2>1, MovesOn DEF AutoDisable
<1>5. ASSUME NEW v \in Visitors, Evict(v) \/ Backfill(v) \/ RecordVisit(v) \/ GetRecord(v)
      PROVE  LimitsInv'
  <2>1. visit[v].url \in Targets \cup {NoTarget} /\ row.target \in Targets \cup {NoTarget}
    BY DEF TypeOK, VisitType, RowType
  <2>2. /\ row' = row
        /\ UNCHANGED <<limits, clicks, nextId>>
        /\ \/ \E pc \in {"evict", "refused", "record", "get"} : Goto(v, pc)
           \/ \E url \in Targets \cup {NoTarget} : Serve(v, url)
    BY <1>5, <2>1 DEF Evict, Backfill, RecordVisit, GetRecord
  <2> QED
    BY <2>2, MovesOn
<1>6. ASSUME NEW e \in Editors, CreateURL(e)
      PROVE  LimitsInv'
  <2>1. row.id = 0 /\ row'.id = nextId /\ nextId' = nextId + 1 /\ visit' = visit
    BY <1>6 DEF CreateURL
  <2>2. row'.max \in limits'
    BY <1>6 DEF CreateURL
  <2>3. \A v \in Visitors : visit[v].id < nextId /\ visit[v].id \in Int
    BY DEF LimitsInv, IdInv, TypeOK, VisitType
  <2>4. nextId \in Int
    BY DEF TypeOK
  <2>5. IdInv' /\ LimitInv'
    BY <2>1, <2>2, <2>3, <2>4 DEF IdInv, LimitInv
  <2>6. CountInv' /\ DisableInv'
    BY <2>1, <2>3, <2>4 DEF LimitsInv, CountInv, DisableInv
  <2> QED
    BY <2>5, <2>6 DEF LimitsInv
<1>7. ASSUME NEW e \in Editors, CommitUpdate(e)
      PROVE  LimitsInv'
  <2>1. Apply(row, edit[e].patch).id = row.id
    BY ApplyType DEF TypeOK, EditType
  <2>2. row'.id = row.id /\ limits \subseteq limits' /\ (row'.id # 0 => row'.max \in limits')
    BY <1>7, <2>1 DEF CommitUpdate, LimitsInv, LimitInv
  <2>3. clicks' >= clicks
    BY <1>7 DEF CommitUpdate, TypeOK
  <2> QED
    BY <1>7, <2>2, <2>3, LimitsGrow DEF CommitUpdate
<1>8. ASSUME NEW e \in Editors, CommitDelete(e)
      PROVE  LimitsInv'
  <2>1. CASE UNCHANGED <<row, clicks, limits>>
    BY <1>8, <2>1, LimitsGrow DEF CommitDelete, LimitsInv, LimitInv, TypeOK
  <2>2. CASE row' = Absent
    <3>1. row'.id = 0
      BY <2>2 DEF Absent, NoRow
    <3>2. nextId' = nextId /\ visit' = visit /\ 0 < nextId
      BY <1>8 DEF CommitDelete, TypeOK
    <3> QED
      BY <3>1, <3>2 DEF LimitsInv, IdInv, LimitInv, CountInv, DisableInv
  <2> QED
    BY <1>8, <2>1, <2>2 DEF CommitDelete
<1>9. ASSUME NEW s \in Slots, InsertClick(s)
      PROVE  LimitsInv'
  <2>1. clicks' >= clicks
    BY <1>9 DEF InsertClick, TypeOK
  <2> QED
    BY <1>9, <2>1, LimitsGrow DEF InsertClick, LimitsInv, LimitInv
<1>10. CASE ExpireURL
  <2>1. row'.id = row.id /\ row'.max = row.max
    BY <1>10 DEF ExpireURL, TypeOK, RowType
  <2>2. clicks' >= clicks
    BY <1>10 DEF ExpireURL, TypeOK
  <2> QED
    BY <1>10, <2>1, <2>2, LimitsGrow DEF ExpireURL, LimitsInv, LimitInv
<1>11. CASE UNCHANGED <<row, nextId, clicks, visit, limits>>
  BY <1>11 DEF LimitsInv, IdInv, LimitInv, CountInv, DisableInv, ReachedLimit
<1> QED
  BY <1>1, <1>2, <1>3, <1>4, <1>5, <1>6, <1>7, <1>8, <1>9, <1>10, <1>11
  DEF Next, Redirect, Edit, UpdateURL, DeleteURL, Reread, Invalidate, WriteThrough,
      CacheTTL, vars

LEMMA LimitsStart == Init => LimitsInv
<1>1. Init => TypeOK
  BY IdleTypes, UrlStoreAssumption DEF Init, TypeOK
<1> QED
  BY <1>1 DEF Init, LimitsInv, IdInv, LimitInv, CountInv, DisableInv, IdleVisit,
              Absent, NoRow

LEMMA LimitsInvariant == Spec => []LimitsInv
BY LimitsStart, LimitsStep, PTL DEF Spec

\* Load disables a row only when the row's own clicks have reached a limit the
\* row was given: not for a limit or the clicks of a deleted predecessor.
THEOREM OnlyReachedLimitsDisable == Spec => AutoDisableJustified
<1> DEFINE Justified ==
      row.id # 0 /\ row.id = row'.id /\ row.active /\ ~row'.active /\ edit' = edit
        => ReachedLimit
<1>1. ASSUME LimitsInv, [Next]_vars
      PROVE  Justified
  <2>1. CASE row' = row
    BY <2>1
  <2>2. ASSUME NEW v \in Visitors, AutoDisable(v)
        PROVE  Justified
    <3>1. row' = row \/ row'.active = (row.active /\ row.id # visit[v].id)
      BY <1>1, <2>2 DEF AutoDisable, LimitsInv, TypeOK, RowType
    <3> QED
      BY <1>1, <2>2, <3>1 DEF AutoDisable, LimitsInv, DisableInv
  <2>3. ASSUME NEW e \in Editors, CommitUpdate(e)
        PROVE  Justified
    <3>1. row' = row \/ edit'[e].pc = "reread"
      <4>1. edit[e] \in EditType
        BY <1>1 DEF LimitsInv, TypeOK
      <4> QED
        BY <1>1, <2>3, <4>1 DEF CommitUpdate, LimitsInv, TypeOK, EditType
    <3> QED
      BY <2>3, <3>1 DEF CommitUpdate
  <2>4. ASSUME NEW e \in Editors, CommitDelete(e)
        PROVE  Justified
    BY <2>4 DEF CommitDelete, Absent, NoRow
  <2>5. CASE ExpireURL
    BY <1>1, <2>5 DEF ExpireURL, LimitsInv, TypeOK, RowType
  <2> QED
    BY <1>1, <2>1, <2>2, <2>3, <2>4, <2>5
    DEF Next, Redirect, Edit, vars, GetURL, PrimaryLoad, CountClicks, Evict,
        Backfill, RecordVisit, GetRecord, CreateURL, UpdateURL, DeleteURL, Reread,
        Invalidate, WriteThrough, InsertClick, CacheTTL
<1>2. LimitsInv /\ [Next]_vars => [Justified]_vars
  BY <1>1
<1> QED
  BY <1>2, LimitsInvariant, PTL DEF AutoDisableJustified, ReachedLimit, Spec

-----------------------------------------------------------------------------
(* By how much a limit is overshot. *)

\* Redirects that will record a visit whatever the clicks of the row are: those past the
\* check, and those about to count the clicks of a row that is gone.
Passing == {v \in Visitors : \/ visit[v].pc \in {"backfill", "record"}
                             \/ visit[v].pc = "count" /\ visit[v].id # row.id}
InFlight == Cardinality(Queued(row.id)) + Cardinality(Passing)
Room == Cardinality(Slots) + Cardinality(Visitors)

\* The logger holds no visit of a row to come.
PlaceInv == \A s \in Slots : slot[s] < nextId

\* The clicks of the row, and those that are on their way.
FlightInv ==
    row.id # 0 /\ Unlimited \notin limits =>
        \E m \in limits : clicks + InFlight < m + Room

OvershootInv == LimitsInv /\ PlaceInv /\ FlightInv

LEMMA QueuedIsFinite ==
    ASSUME NEW id
    PROVE  /\ IsFiniteSet(Queued(id))
           /\ Cardinality(Queued(id)) \in 0..Cardinality(Slots)
           /\ Cardinality(Slots) \in Nat
<1>1. Queued(id) \in SUBSET Slots
  BY DEF Queued
<1> QED
  BY <1>1, UrlStoreAssumption, FS_Subset, FS_CardinalityType

LEMMA PassingIsFinite ==
    /\ IsFiniteSet(Passing)
    /\ Cardinality(Passing) \in 0..Cardinality(Visitors)
    /\ Cardinality(Visitors) \in Nat
<1>1. Passing \in SUBSET Visitors
  BY DEF Passing
<1> QED
  BY <1>1, UrlStoreAssumption, FS_Subset, FS_CardinalityType

\* The same of the next state.
LEMMA NextPassingIsFinite ==
    /\ IsFiniteSet(Passing')
    /\ Cardinality(Passing)' \in 0..Cardinality(Visitors)
<1>1. Passing' \in SUBSET Visitors
  BY DEF Passing
<1> QED
  BY <1>1, UrlStoreAssumption, FS_Subset, FS_CardinalityType

LEMMA NextQueuedIsFinite ==
    /\ IsFiniteSet(Queued(row.id)')
    /\ Cardinality(Queued(row.id))' \in 0..Cardinality(Slots)
<1>1. Queued(row.id)' \in SUBSET Slots
  BY DEF Queued
<1> QED
  BY <1>1, UrlStoreAssumption, FS_Subset, FS_CardinalityType

\* Steps that keep the row and its limits, and the sum within what it was.
LEMMA FlightSteps ==
    ASSUME FlightInv, TypeOK, TypeOK', row'.id = row.id,
           limits \subseteq limits',
           clicks' + InFlight' <= clicks + InFlight
    PROVE  FlightInv'
<1>1. /\ \A m \in limits : m \in Int
      /\ clicks \in Int /\ clicks' \in Int
  BY UrlStoreAssumption DEF TypeOK
<1>2. InFlight \in Int /\ InFlight' \in Int /\ Room \in Int
  BY QueuedIsFinite, PassingIsFinite, NextQueuedIsFinite, NextPassingIsFinite
  DEF InFlight, Room
<1>3. SUFFICES ASSUME row'.id # 0, Unlimited \notin limits'
               PROVE  \E m \in limits' : clicks' + InFlight' < m + Room
  BY DEF FlightInv, Room
<1>4. PICK m \in limits : clicks + InFlight < m + Room
  BY <1>3 DEF FlightInv
<1>5. m \in Int /\ m \in limits'
  BY <1>1
<1>6. clicks' + InFlight' < m + Room
  <2>1. \A a, b, c \in Int : a <= b /\ b < c => a < c
    OBVIOUS
  <2>2. clicks + InFlight \in Int /\ clicks' + InFlight' \in Int /\ m + Room \in Int
    BY <1>1, <1>2, <1>5
  <2> QED
    BY <1>4, <2>1, <2>2
<1> QED
  BY <1>5, <1>6

\* In particular when no visit is on its way that was not, and no click is new.
LEMMA NothingComes ==
    ASSUME FlightInv, TypeOK, TypeOK', row'.id = row.id, limits \subseteq limits',
           clicks' = clicks, Queued(row.id)' \subseteq Queued(row.id),
           Passing' \subseteq Passing
    PROVE  FlightInv'
<1>1. Cardinality(Queued(row.id))' <= Cardinality(Queued(row.id))
  BY QueuedIsFinite, FS_Subset
<1>2. Cardinality(Passing)' <= Cardinality(Passing)
  BY PassingIsFinite, FS_Subset
<1>3. clicks' + InFlight' <= clicks + InFlight
  BY <1>1, <1>2, QueuedIsFinite, PassingIsFinite, NextQueuedIsFinite, NextPassingIsFinite
  DEF InFlight, TypeOK
<1> QED
  BY <1>3, FlightSteps

\* A redirect v that goes on, and is not on its way to a visit unless it was before.
LEMMA FlightMoves ==
    ASSUME FlightInv, TypeOK, TypeOK', NEW v \in Visitors, row'.id = row.id,
           limits \subseteq limits', UNCHANGED <<clicks, slot>>,
           \A w \in Visitors \ {v} : visit'[w] = visit[w],
           v \in Passing' => v \in Passing
    PROVE  FlightInv'
<1>1. Passing' \subseteq Passing
  BY DEF Passing
<1>2. Queued(row.id)' \subseteq Queued(row.id)
  BY DEF Queued
<1> QED
  BY <1>1, <1>2, NothingComes

LEMMA OvershootStep ==
    ASSUME OvershootInv, AbsentInv, [Next]_vars
    PROVE  OvershootInv'
<1>0. LimitsInv /\ LimitsInv' /\ TypeOK /\ TypeOK'
  BY LimitsStep DEF OvershootInv, LimitsInv
<1>f. FlightInv /\ PlaceInv
  BY DEF OvershootInv
<1>1. ASSUME NEW v \in Visitors, GetURL(v)
      PROVE  FlightInv'
  <2>1. /\ visit'[v].pc = "load"
        /\ \A w \in Visitors \ {v} : visit'[w] = visit[w]
    BY <1>0, <1>1 DEF GetURL, TypeOK, IdleVisit
  <2> QED
    BY <1>0, <1>f, <1>1, <2>1, FlightMoves DEF GetURL, Passing
<1>2. ASSUME NEW v \in Visitors, PrimaryLoad(v)
      PROVE  FlightInv'
  <2>1. visit[v] \in VisitType /\ (\A w \in Visitors \ {v} : visit'[w] = visit[w])
    BY <1>0, <1>2 DEF PrimaryLoad, TypeOK, Accept, Refuse
  <2>2. CASE row.id # 0 /\ row.max = Unlimited
    BY <1>0, <1>2, <2>2 DEF PrimaryLoad, FlightInv, LimitsInv, LimitInv
  <2>3. CASE Refuse(v)
    <3>1. visit'[v].pc \in {"evict", "refused"}
      BY <1>0, <2>1, <2>3 DEF TypeOK, Refuse, IdleVisit
    <3> QED
      BY <1>0, <1>f, <1>2, <2>1, <3>1, FlightMoves DEF PrimaryLoad, Passing
  <2>4. ASSUME NEW url,
               visit' = [visit EXCEPT ![v].pc = "count", ![v].url = url,
                                      ![v].id = row.id, ![v].max = row.max]
        PROVE  FlightInv'
    <3>1. visit'[v].pc = "count" /\ visit'[v].id = row.id
      BY <1>0, <2>1, <2>4 DEF TypeOK, VisitType
    <3> QED
      BY <1>0, <1>f, <1>2, <2>1, <3>1, FlightMoves DEF PrimaryLoad, Passing
  <2> QED
    BY <1>2, <2>2, <2>3, <2>4 DEF PrimaryLoad, Live
<1>3. ASSUME NEW v \in Visitors, CountClicks(v)
      PROVE  FlightInv'
  <2>1. /\ visit[v] \in VisitType /\ visit[v].pc = "count"
        /\ UNCHANGED <<row, clicks, slot>> /\ limits \subseteq limits'
    BY <1>0, <1>3 DEF CountClicks, TypeOK
  <2>2. \A w \in Visitors \ {v} : visit'[w] = visit[w]
    BY <1>0, <1>3 DEF CountClicks, Decide, TypeOK, Accept, Goto
  <2>3. CASE visit[v].id # row.id
    <3>1. v \in Passing
      BY <2>1, <2>3 DEF Passing
    <3> QED
      BY <1>0, <1>f, <2>1, <2>2, <3>1, FlightMoves
  <2>4. CASE Goto(v, "disable")
    <3>1. visit'[v].pc = "disable"
      BY <1>0, <2>1, <2>4 DEF TypeOK, Goto, VisitType
    <3> QED
      BY <1>0, <1>f, <2>1, <2>2, <3>1, FlightMoves DEF Passing
  <2>5. CASE visit[v].id = row.id /\ ~Goto(v, "disable") /\ UNCHANGED limits
                /\ Decide(v, clicks)
    <3>1. visit[v].max \in limits /\ visit[v].max \in Int
      <4>1. visit[v].max \in limits /\ visit[v].max # 0
        BY <1>0, <2>1, <2>5 DEF LimitsInv, CountInv
      <4> QED
        BY <2>1, <4>1, LimitsAreNumbers DEF VisitType
    <3>2. clicks < visit[v].max
      BY <2>5 DEF Decide
    <3>3. clicks' + InFlight' < visit[v].max + Room
      <4>1. InFlight' \in Int /\ Room \in Int /\ InFlight' <= Room
        BY NextQueuedIsFinite, NextPassingIsFinite, QueuedIsFinite, PassingIsFinite
        DEF InFlight, Room
      <4>2. clicks \in Int /\ clicks' = clicks
        BY <1>0, <2>1 DEF TypeOK
      <4> QED
        BY <3>1, <3>2, <4>1, <4>2
    <3> QED
      BY <2>1, <2>5, <3>1, <3>3 DEF FlightInv, Room
  <2>6. CASE visit[v].id = row.id /\ limits' = limits \cup {Unlimited}
    BY <2>6 DEF FlightInv
  <2> QED
    BY <1>3, <2>3, <2>4, <2>5, <2>6 DEF CountClicks
<1>4. ASSUME NEW v \in Visitors, AutoDisable(v)
      PROVE  FlightInv'
  <2>1. row'.id = row.id /\ (\A w \in Visitors \ {v} : visit'[w] = visit[w])
    BY <1>0, <1>4 DEF AutoDisable, TypeOK, RowType, Refuse
  <2>2. visit'[v].pc \in {"evict", "refused"}
    BY <1>0, <1>4 DEF AutoDisable, TypeOK, Refuse, IdleVisit
  <2> QED
    BY <1>0, <1>f, <1>4, <2>1, <2>2, FlightMoves DEF AutoDisable, Passing
<1>5. ASSUME NEW v \in Visitors, Evict(v) \/ Backfill(v) \/ GetRecord(v)
      PROVE  FlightInv'
  <2>1. /\ UNCHANGED <<row, limits, clicks, slot>>
        /\ \A w \in Visitors \ {v} : visit'[w] = visit[w]
    BY <1>0, <1>5 DEF TypeOK, Evict, Backfill, GetRecord, Goto, Serve
  <2>2. \/ visit'[v].pc \in {"refused", "served"}
        \/ visit[v].pc = "backfill"
    <3>1. visit[v] \in VisitType
      BY <1>0 DEF TypeOK
    <3>2. Evict(v) => visit'[v].pc = "refused"
      BY <1>0, <3>1 DEF TypeOK, VisitType, Evict, Goto
    <3>3. Backfill(v) => visit[v].pc = "backfill"
      BY DEF Backfill
    <3>4. GetRecord(v) => visit'[v].pc = "served"
      <4>1. ASSUME NEW url, Serve(v, url)
            PROVE  visit'[v].pc = "served"
        BY <1>0, <4>1 DEF TypeOK, Serve, IdleVisit
      <4> QED
        BY <4>1 DEF GetRecord
    <3> QED
      BY <1>5, <3>2, <3>3, <3>4
  <2> QED
    BY <1>0, <1>f, <2>1, <2>2, FlightMoves DEF Passing
<1>6. ASSUME NEW v \in Visitors, RecordVisit(v)
      PROVE  FlightInv'
  <2>1. /\ UNCHANGED <<row, limits, clicks>>
        /\ v \in Passing
        /\ visit' = [visit EXCEPT ![v].pc = "get"]
    BY <1>6 DEF RecordVisit, Passing, Goto
  <2>2. Passing' = Passing \ {v}
    <3>1. visit'[v].pc = "get" /\ (\A w \in Visitors \ {v} : visit'[w] = visit[w])
      BY <1>0, <2>1 DEF TypeOK, VisitType
    <3> QED
      BY <2>1, <3>1 DEF Passing
  <2>3. Cardinality(Passing)' = Cardinality(Passing) - 1
    BY <2>1, <2>2, PassingIsFinite, FS_RemoveElement
  <2>4. Cardinality(Queued(row.id))' <= Cardinality(Queued(row.id)) + 1
    <3>1. CASE slot' = slot
      BY <2>1, <3>1, QueuedIsFinite DEF Queued
    <3>2. ASSUME NEW s \in Queued(0), slot' = [slot EXCEPT ![s] = row.id]
          PROVE  Cardinality(Queued(row.id))' <= Cardinality(Queued(row.id)) + 1
      <4>1. Queued(row.id)' = Queued(row.id) \cup {s}
        BY <1>0, <2>1, <3>2 DEF Queued, TypeOK
      <4>2. IsFiniteSet(Queued(row.id)) /\ Cardinality(Queued(row.id)) \in Int
        BY QueuedIsFinite
      <4>3. Cardinality(Queued(row.id) \cup {s}) \in
              {Cardinality(Queued(row.id)), Cardinality(Queued(row.id)) + 1}
        BY <4>2, FS_AddElement
      <4> QED
        BY <4>1, <4>2, <4>3
    <3> QED
      BY <1>6, <3>1, <3>2 DEF RecordVisit
  <2>5. clicks' + InFlight' <= clicks + InFlight
    BY <1>0, <2>1, <2>3, <2>4, QueuedIsFinite, PassingIsFinite, NextQueuedIsFinite
    DEF InFlight, TypeOK
  <2> QED
    BY <1>0, <1>f, <2>1, <2>5, FlightSteps
<1>7. ASSUME NEW s \in Slots, InsertClick(s)
      PROVE  FlightInv'
  <2>1. /\ UNCHANGED <<row, limits, visit>>
        /\ slot' = [slot EXCEPT ![s] = 0]
        /\ Passing' = Passing
    BY <1>7 DEF InsertClick, Passing
  <2>2. CASE row.id # 0 /\ row.id = slot[s] /\ clicks' = clicks + 1
    <3>1. Queued(row.id)' = Queued(row.id) \ {s} /\ s \in Queued(row.id)
      BY <1>0, <2>1, <2>2 DEF Queued, TypeOK
    <3>2. Cardinality(Queued(row.id))' = Cardinality(Queued(row.id)) - 1
      BY <3>1, QueuedIsFinite, FS_RemoveElement
    <3>3. clicks' + InFlight' <= clicks + InFlight
      BY <1>0, <2>1, <2>2, <3>2, QueuedIsFinite, PassingIsFinite DEF InFlight, TypeOK
    <3> QED
      BY <1>0, <1>f, <2>1, <3>3, FlightSteps
  <2>3. CASE row.id # 0 /\ clicks' = clicks
    <3>1. Queued(row.id)' \subseteq Queued(row.id)
      BY <1>0, <2>1, <2>3 DEF Queued, TypeOK
    <3> QED
      BY <1>0, <1>f, <2>1, <2>3, <3>1, NothingComes
  <2>4. CASE row.id = 0
    BY <2>1, <2>4 DEF FlightInv
  <2> QED
    BY <1>7, <2>2, <2>3, <2>4 DEF InsertClick
<1>8. ASSUME NEW e \in Editors, CreateURL(e)
      PROVE  FlightInv'
  <2>1. PICK max \in {Unlimited} \cup {m \in MaxVisits : m > 0} :
          limits' = {max} /\ row'.id = nextId
    BY <1>8 DEF CreateURL
  <2>2. clicks' = 0 /\ slot' = slot
    BY <1>0, <1>8 DEF CreateURL, AbsentInv
  <2>3. Queued(row.id)' = {}
    BY <1>0, <1>f, <2>1, <2>2 DEF Queued, PlaceInv, TypeOK
  <2>4. Cardinality(Queued(row.id))' = 0
    BY <2>3, FS_EmptySet
  <2>5. ASSUME max # Unlimited
        PROVE  clicks' + InFlight' < max + Room
    <3>1. max \in Int /\ max > 0
      BY <2>5, LimitsAreNumbers
    <3> QED
      BY <2>2, <2>4, <3>1, NextPassingIsFinite, QueuedIsFinite, PassingIsFinite
      DEF InFlight, Room
  <2> QED
    BY <2>1, <2>5 DEF FlightInv, Room
<1>9. ASSUME NEW e \in Editors, CommitUpdate(e)
      PROVE  FlightInv'
  <2>1. Apply(row, edit[e].patch).id = row.id
    BY <1>0, ApplyType DEF TypeOK, EditType
  <2>2. /\ row'.id = row.id /\ limits \subseteq limits'
        /\ UNCHANGED <<clicks, slot, visit>>
    BY <1>9, <2>1 DEF CommitUpdate
  <2>3. Queued(row.id)' = Queued(row.id) /\ Passing' = Passing
    BY <2>2 DEF Queued, Passing
  <2> QED
    BY <1>0, <1>f, <2>2, <2>3, NothingComes
<1>10. ASSUME NEW e \in Editors, CommitDelete(e)
       PROVE  FlightInv'
  <2>1. CASE UNCHANGED <<row, clicks, limits>>
    <3>1. Queued(row.id)' = Queued(row.id) /\ Passing' = Passing
      BY <1>10, <2>1 DEF CommitDelete, Queued, Passing
    <3> QED
      BY <1>0, <1>f, <2>1, <3>1, NothingComes
  <2>2. CASE row' = Absent
    BY <2>2 DEF FlightInv, Absent, NoRow
  <2> QED
    BY <1>10, <2>1, <2>2 DEF CommitDelete
<1>11. ASSUME ExpireURL PROVE FlightInv'
  <2>1. row'.id = row.id /\ UNCHANGED <<clicks, slot, visit, limits>>
    BY <1>0, <1>11 DEF ExpireURL, TypeOK, RowType
  <2>2. Queued(row.id)' = Queued(row.id) /\ Passing' = Passing
    BY <2>1 DEF Queued, Passing
  <2> QED
    BY <1>0, <1>f, <2>1, <2>2, NothingComes
<1>12. ASSUME UNCHANGED <<row, clicks, slot, visit, limits>> PROVE FlightInv'
  <2>1. Queued(row.id)' = Queued(row.id) /\ Passing' = Passing
    BY <1>12 DEF Queued, Passing
  <2> QED
    BY <1>0, <1>f, <1>12, <2>1, NothingComes
<1>13. FlightInv'
  BY <1>1, <1>2, <1>3, <1>4, <1>5, <1>6, <1>7, <1>8, <1>9, <1>10, <1>11, <1>12
  DEF Next, Redirect, Edit, UpdateURL, DeleteURL, Reread, Invalidate, WriteThrough,
      CacheTTL, vars
<1>14. PlaceInv'
  <2>1. nextId' >= nextId
    <3>1. nextId' = nextId \/ \E e \in Editors : CreateURL(e)
      BY DEF Next, Redirect, Edit, vars, GetURL, PrimaryLoad, CountClicks, AutoDisable,
          Evict, Backfill, RecordVisit, GetRecord, UpdateURL, DeleteURL, CommitUpdate,
          CommitDelete, Reread, Invalidate, WriteThrough, InsertClick, ExpireURL, CacheTTL
    <3>2. \A e \in Editors : CreateURL(e) => nextId' = nextId + 1
      BY DEF CreateURL
    <3> QED
      BY <1>0, <3>1, <3>2 DEF TypeOK
  <2>2. \A s \in Slots : slot'[s] \in {slot[s], 0, row.id}
    <3>1. ASSUME NEW v \in Visitors, RecordVisit(v)
          PROVE  \A s \in Slots : slot'[s] \in {slot[s], row.id}
      BY <1>0, <3>1 DEF RecordVisit, TypeOK
    <3>2. ASSUME NEW t \in Slots, InsertClick(t)
          PROVE  \A s \in Slots : slot'[s] \in {slot[s], 0}
      BY <1>0, <3>2 DEF InsertClick, TypeOK
    <3>3. CASE slot' = slot
      BY <3>3
    <3> QED
      BY <3>1, <3>2, <3>3
      DEF Next, Redirect, Edit, vars, GetURL, PrimaryLoad, CountClicks, AutoDisable,
        Evict, Backfill, GetRecord, CreateURL, UpdateURL, DeleteURL, CommitUpdate,
        CommitDelete, Reread, Invalidate, WriteThrough, ExpireURL, CacheTTL
  <2>3. row.id < nextId /\ 0 < nextId /\ nextId \in Int /\ nextId' \in Int
    BY <1>0 DEF LimitsInv, IdInv, TypeOK
  <2>4. \A s \in Slots : slot[s] \in Int /\ slot[s] < nextId
    BY <1>0, <1>f DEF PlaceInv, TypeOK
  <2>5. row.id \in Int
    BY <1>0 DEF TypeOK, RowType
  <2>6. \A s \in Slots : slot'[s] < nextId'
    BY <2>1, <2>2, <2>3, <2>4, <2>5
  <2> QED
    BY <2>6 DEF PlaceInv
<1> QED
  BY <1>0, <1>13, <1>14 DEF OvershootInv

\* Load compares the limit with clicks that are written later, so a limit may be overshot,
\* but by less than the visits the logger and the concurrent redirects can hold.
THEOREM OvershootIsBounded == Spec => []OvershootBounded
<1>1. Init => OvershootInv
  <2>1. Init => LimitsInv
    BY LimitsStart
  <2> QED
    BY <2>1 DEF Init, OvershootInv, PlaceInv, FlightInv, Absent, NoRow
<1>2. OvershootInv => OvershootBounded
  <2>1. SUFFICES ASSUME OvershootInv, row.id # 0, Unlimited \notin limits
                 PROVE  \E m \in limits :
                          clicks < m + Cardinality(Slots) + Cardinality(Visitors)
    BY DEF OvershootBounded
  <2>2. PICK m \in limits : clicks + InFlight < m + Room
    BY <2>1 DEF OvershootInv, FlightInv
  <2>3. m \in Int /\ clicks \in Int
    BY <2>1, UrlStoreAssumption DEF OvershootInv, LimitsInv, TypeOK
  <2>4. clicks < m + Cardinality(Slots) + Cardinality(Visitors)
    BY <2>2, <2>3, QueuedIsFinite, PassingIsFinite DEF InFlight, Room
  <2> QED
    BY <2>4
<1>3. RedirectInv => AbsentInv
  BY DEF RedirectInv
<1> QED
  BY <1>1, <1>2, <1>3, OvershootStep, RedirectInvariant, PTL DEF Spec
=============================================================================
