-------------------------- MODULE Membership_proofs --------------------------
(***************************************************************************)
(* Proofs about Membership, for any number of users, invitations and       *)
(* concurrent requests, and with or without faults.                        *)
(***************************************************************************)
EXTENDS Membership, FiniteSetTheorems, TLAPS

-----------------------------------------------------------------------------
(* The invariants. *)

\* What a request has seen and still relies on: it locks its user's row first, and until a
\* transfer has demoted no other; the rows it has locked are there, the invitation it is
\* about to use up is pending, and one it knows by its token is its user's.
RelyOK(q) ==
    /\ q.pc \in {"count", "write", "demote"} => q.locks = {q.user}
    /\ q.pc = "hand over" => q.user \in q.locks
    /\ q.pc \notin {"count", "write", "demote", "hand over"} => q.locks = {}
    /\ q.pc # "join" => q.inv = {}
    /\ \A u \in q.locks : role[u] # "none"
    /\ \A i \in q.token : invite[i].user = q.user /\ invite[i].status # "none"
    /\ q.pc = "join" => \E i \in Invites : /\ q.inv = {i} /\ invite[i].status = "pending"
                                           /\ invite[i].user = q.user
                                           /\ invite[i].role = q.new
RelyInv == \A r \in Requests : RelyOK(req[r])

AccountInv == \A r \in Requests : req[r].pc \in {"accept", "join"} => req[r].user \in account

\* A row and an invitation are locked by one request.
Apart(q, p) == q.locks \cap p.locks = {} /\ q.inv \cap p.inv = {}
LockInv == \A r, s \in Requests : r # s => Apart(req[r], req[s])

\* While the count of the owners is right there is another owner.
FreshInv == \A r \in fresh : req[r].pc = "write" /\ Cardinality(Owners) > 1

MembershipInv == TypeOK /\ RelyInv /\ AccountInv /\ LockInv /\ FreshInv

-----------------------------------------------------------------------------
(* Who writes which table. *)

LEMMA Writers ==
    ASSUME [Next]_vars
    PROVE  /\ \/ UNCHANGED role
              \/ \E r \in Requests : CommitMember(r) \/ CommitTransfer(r) \/ CommitAccept(r)
           /\ UNCHANGED owner \/ \E r \in Requests : CommitTransfer(r)
           /\ \/ UNCHANGED account
              \/ (\E r \in Requests : RegisterAccount(r)) \/ \E u \in Users : CreateUser(u)
           /\ \/ UNCHANGED invite \/ SweepExpiredInvitations
              \/ \E r \in Requests : Supersede(r) \/ InsertInvitation(r) \/ CommitAccept(r)
              \/ \E i \in Invites :
                    ResendInvitation(i) \/ RevokeInvitation(i) \/ ExpireInvitation(i)
           /\ \/ UNCHANGED <<role, fresh>>
              \/ \E r \in Requests : CountOwners(r) \/ Recount(r) \/ Fail(r)
<1>1. ASSUME NEW r \in Requests, Member(r)
      PROVE  /\ UNCHANGED role \/ CommitMember(r) \/ CommitTransfer(r)
             /\ UNCHANGED owner \/ CommitTransfer(r)
             /\ UNCHANGED <<account, invite>>
             /\ UNCHANGED <<role, fresh>> \/ CountOwners(r) \/ Recount(r)
  BY <1>1
  DEF Member, PatchMember, DeleteMember, PostTransfer, LockTarget, CountOwners, CommitMember,
      DemoteOwner, CommitTransfer
<1>2. ASSUME NEW r \in Requests, Invitation(r)
      PROVE  /\ UNCHANGED owner
             /\ UNCHANGED role \/ CommitAccept(r)
             /\ UNCHANGED account \/ RegisterAccount(r)
             /\ UNCHANGED invite \/ Supersede(r) \/ InsertInvitation(r) \/ CommitAccept(r)
             /\ UNCHANGED <<role, fresh>> \/ Recount(r)
  BY <1>2
  DEF Invitation, PostInvitation, Supersede, InsertInvitation, AcceptInvitation, CommitAccept,
      PostSignUp, RegisterAccount, AcceptSignUp
<1>3. ASSUME NEW r \in Requests, Fail(r)
      PROVE  UNCHANGED <<role, owner, account, invite>>
  BY <1>3 DEF Fail
<1>4. ASSUME NEW i \in Invites,
             ResendInvitation(i) \/ RevokeInvitation(i) \/ ExpireInvitation(i)
      PROVE  UNCHANGED <<role, owner, account, fresh>>
  BY <1>4 DEF ResendInvitation, RevokeInvitation, ExpireInvitation
<1>5. ASSUME SweepExpiredInvitations
      PROVE  UNCHANGED <<role, owner, account, fresh>>
  BY <1>5 DEF SweepExpiredInvitations
<1>6. ASSUME NEW u \in Users, CreateUser(u)
      PROVE  UNCHANGED <<role, owner, invite, fresh>>
  BY <1>6 DEF CreateUser
<1>7. CASE UNCHANGED vars
  BY <1>7 DEF vars
<1>8. CASE \E r \in Requests : Member(r)
  BY <1>1, <1>8
<1>9. CASE \E r \in Requests : Invitation(r)
  BY <1>2, <1>9
<1>10. CASE \E r \in Requests : Fail(r)
  BY <1>3, <1>10
<1>11. CASE \E i \in Invites : ResendInvitation(i) \/ RevokeInvitation(i) \/ ExpireInvitation(i)
  BY <1>4, <1>11
<1>12. CASE SweepExpiredInvitations \/ \E u \in Users : CreateUser(u)
  BY <1>5, <1>6, <1>12
<1> QED
  BY <1>7, <1>8, <1>9, <1>10, <1>11, <1>12 DEF Next

-----------------------------------------------------------------------------
(* The requests. *)

LEMMA IdleType == Idle \in RequestType /\ RelyOK(Idle)
BY MembershipAssumption DEF Idle, RequestType, RelyOK

\* No other request has locked the row of u.
RowFree(r, u) == \A q \in Requests \ {r} : u \notin req[q].locks

\* A statement that may run finds what it locks free.
LEMMA MayLock ==
    ASSUME RelyInv, NEW r \in Requests, MayRun(r)
    PROVE  /\ \A u \in Needs(r) : RowFree(r, u)
           /\ \A i \in NeedsInvites(r) : InviteFree(i)
<1>1. \A s \in Requests \ {r} : /\ Needs(r) \cap req[s].locks = {}
                                /\ NeedsInvites(r) \cap req[s].inv = {}
  BY DEF MayRun, WaitsFor
<1>2. NeedsInvites(r) # {} => req[r].inv = {}
  BY DEF NeedsInvites, RelyInv, RelyOK
<1> QED
  BY <1>1, <1>2 DEF RowFree, InviteFree

\* Other requests stay as they are.
Alone(r) == \A s \in Requests \ {r} : req'[s] = req[s]

\* What a request locks was free, or its own before.
LockStep(r) ==
    /\ \/ req'[r].locks \subseteq req[r].locks
       \/ \E u \in Users : req'[r].locks \subseteq req[r].locks \cup {u} /\ RowFree(r, u)
    /\ \/ req'[r].inv \subseteq req[r].inv
       \/ \E i \in Invites : req'[r].inv = {i} /\ InviteFree(i)

Moves(r) ==
    /\ req' \in [Requests -> RequestType]
    /\ Alone(r) /\ LockStep(r) /\ RelyOK(req'[r])

LEMMA ToIdle ==
    ASSUME TypeOK, NEW r \in Requests, End(r)
    PROVE  Moves(r) /\ req'[r] = Idle
<1>1. req' \in [Requests -> RequestType] /\ req'[r] = Idle /\ Alone(r)
  BY IdleType DEF End, TypeOK, Alone
<1>2. req'[r].locks = {} /\ req'[r].inv = {}
  BY <1>1 DEF Idle
<1> QED
  BY <1>1, <1>2, IdleType DEF Moves, LockStep

\* A request goes on as q.
LEMMA ToRequest ==
    ASSUME TypeOK, NEW r \in Requests, NEW q \in RequestType, req' = [req EXCEPT ![r] = q],
           RelyOK(q),
           \/ q.locks \subseteq req[r].locks
           \/ \E u \in Users : q.locks \subseteq req[r].locks \cup {u} /\ RowFree(r, u),
           \/ q.inv \subseteq req[r].inv
           \/ \E i \in Invites : q.inv = {i} /\ InviteFree(i)
    PROVE  Moves(r)
<1>1. req' \in [Requests -> RequestType] /\ req'[r] = q /\ Alone(r)
  BY DEF TypeOK, Alone
<1> QED
  BY <1>1 DEF Moves, LockStep

\* A request goes on to a place where it relies on no more.
LEMMA ToPlace ==
    ASSUME TypeOK, RelyInv, NEW r \in Requests, NEW pc, Goto(r, pc),
           \/ pc = "insert" /\ req[r].pc = "supersede"
           \/ pc = "accept" /\ req[r].pc = "register"
           \/ pc = "write" /\ req[r].pc = "count"
           \/ pc = "hand over" /\ req[r].pc = "demote"
    PROVE  Moves(r) /\ req'[r] = [req[r] EXCEPT !.pc = pc]
<1> DEFINE q == [req[r] EXCEPT !.pc = pc]
<1>1. req[r] \in RequestType /\ RelyOK(req[r])
  BY DEF TypeOK, RelyInv
<1>2. q \in RequestType /\ q.locks = req[r].locks /\ q.inv = req[r].inv
  BY <1>1 DEF RequestType
<1>3. RelyOK(q)
  BY <1>1 DEF RelyOK, RequestType
<1>4. req' = [req EXCEPT ![r] = q] /\ req'[r] = q
  BY DEF Goto, TypeOK
<1> QED
  BY <1>2, <1>3, <1>4, ToRequest

\* A request on members, or an invitation, begins with nothing locked or seen.
Blank(q) == q.pc \in {"lock", "supersede"} /\ q.token = {} /\ q.locks = {} /\ q.inv = {}

LEMMA Begins ==
    ASSUME TypeOK, NEW r \in Requests,
           PatchMember(r) \/ DeleteMember(r) \/ PostTransfer(r) \/ PostInvitation(r)
    PROVE  \E q \in RequestType : req' = [req EXCEPT ![r] = q] /\ Blank(q)
<1>1. CASE PatchMember(r)
  <2>1. PICK u \in Users, new \in Granted :
          req' = [req EXCEPT ![r] = [Idle EXCEPT !.pc = "lock", !.op = "update",
                                                 !.user = u, !.new = new]]
    BY <1>1 DEF PatchMember
  <2> DEFINE q == [Idle EXCEPT !.pc = "lock", !.op = "update", !.user = u, !.new = new]
  <2>2. q \in RequestType
    BY IdleType DEF RequestType
  <2>3. Blank(q)
    BY DEF Blank, Idle
  <2> QED
    BY <2>1, <2>2, <2>3
<1>2. CASE DeleteMember(r)
  <2>1. PICK u \in Users :
          req' = [req EXCEPT ![r] = [Idle EXCEPT !.pc = "lock", !.op = "remove", !.user = u]]
    BY <1>2 DEF DeleteMember
  <2> DEFINE q == [Idle EXCEPT !.pc = "lock", !.op = "remove", !.user = u]
  <2>2. q \in RequestType
    BY IdleType DEF RequestType
  <2>3. Blank(q)
    BY DEF Blank, Idle
  <2> QED
    BY <2>1, <2>2, <2>3
<1>3. CASE PostTransfer(r)
  <2>1. PICK u \in Users :
          req' = [req EXCEPT ![r] = [Idle EXCEPT !.pc = "lock", !.op = "transfer",
                                                 !.user = u, !.from = owner]]
    BY <1>3 DEF PostTransfer
  <2> DEFINE q == [Idle EXCEPT !.pc = "lock", !.op = "transfer", !.user = u, !.from = owner]
  <2>2. q \in RequestType
    BY IdleType DEF RequestType, TypeOK
  <2>3. Blank(q)
    BY DEF Blank, Idle
  <2> QED
    BY <2>1, <2>2, <2>3
<1>4. CASE PostInvitation(r)
  <2>1. PICK u \in Users, new \in Granted :
          req' = [req EXCEPT ![r] = [Idle EXCEPT !.pc = "supersede", !.op = "invite",
                                                 !.user = u, !.new = new]]
    BY <1>4 DEF PostInvitation
  <2> DEFINE q == [Idle EXCEPT !.pc = "supersede", !.op = "invite", !.user = u, !.new = new]
  <2>2. q \in RequestType
    BY IdleType DEF RequestType
  <2>3. Blank(q)
    BY DEF Blank, Idle
  <2> QED
    BY <2>1, <2>2, <2>3
<1> QED
  BY <1>1, <1>2, <1>3, <1>4

LEMMA MemberMoves ==
    ASSUME TypeOK, RelyInv, NEW r \in Requests, Member(r)
    PROVE  Moves(r)
<1>1. CASE PatchMember(r) \/ DeleteMember(r) \/ PostTransfer(r)
  <2>1. PICK q \in RequestType : req' = [req EXCEPT ![r] = q] /\ Blank(q)
    BY <1>1, Begins
  <2>2. RelyOK(q)
    BY <2>1 DEF RelyOK, Blank
  <2> QED
    BY <2>1, <2>2, ToRequest DEF Blank
<1>2. CASE LockTarget(r)
  <2> DEFINE u == req[r].user
  <2>1. \/ End(r)
        \/ \E pc \in {"count", "write", "demote"} :
             /\ RowFree(r, u)
             /\ req' = [req EXCEPT ![r].pc = pc, ![r].locks = {u}]
             /\ role[u] # "none"
    BY <1>2, MayLock DEF LockTarget, Needs
  <2>2. ASSUME NEW pc \in {"count", "write", "demote"}, RowFree(r, u),
               req' = [req EXCEPT ![r].pc = pc, ![r].locks = {u}],
               role[u] # "none"
        PROVE  Moves(r)
    <3> DEFINE q == [req[r] EXCEPT !.pc = pc, !.locks = {u}]
    <3>1. req[r] \in RequestType /\ RelyOK(req[r]) /\ u \in Users /\ req[r].pc = "lock"
      BY <1>2 DEF TypeOK, RelyInv, RequestType, LockTarget
    <3>2. q \in RequestType /\ q.locks = {u} /\ q.inv = req[r].inv
      BY <3>1 DEF RequestType
    <3>3. RelyOK(q)
      BY <2>2, <3>1 DEF RelyOK, RequestType
    <3>4. req' = [req EXCEPT ![r] = q]
      BY <2>2 DEF TypeOK
    <3>5. q.locks \subseteq req[r].locks \cup {u}
      BY <3>2
    <3> QED
      BY <2>2, <3>1, <3>2, <3>3, <3>4, <3>5, ToRequest
  <2> QED
    BY <2>1, <2>2, ToIdle
<1>3. CASE CountOwners(r)
  BY <1>3, ToIdle, ToPlace DEF CountOwners
<1>4. CASE CommitMember(r)
  BY <1>4, ToIdle DEF CommitMember
<1>5. CASE DemoteOwner(r)
  <2>1. CASE Goto(r, "hand over")
    BY <1>5, <2>1, ToPlace DEF DemoteOwner
  <2> DEFINE u == req[r].from
             q == [req[r] EXCEPT !.pc = "hand over", !.locks = @ \cup {u}]
  <2>2. CASE /\ role[u] = "owner" /\ RowFree(r, u)
             /\ req' = [req EXCEPT ![r].pc = "hand over", ![r].locks = @ \cup {u}]
    <3>1. req[r] \in RequestType /\ RelyOK(req[r]) /\ u \in Users /\ req[r].pc = "demote"
      BY <1>5 DEF TypeOK, RelyInv, RequestType, DemoteOwner
    <3>2. q \in RequestType /\ q.locks = req[r].locks \cup {u} /\ q.inv = req[r].inv
      BY <3>1 DEF RequestType
    <3>3. RelyOK(q)
      BY <2>2, <3>1, <3>2 DEF RelyOK, RequestType
    <3>4. req' = [req EXCEPT ![r] = q]
      BY <2>2 DEF TypeOK
    <3> QED
      BY <2>2, <3>1, <3>2, <3>3, <3>4, ToRequest
  <2> QED
    BY <1>5, <2>1, <2>2, MayLock DEF DemoteOwner, Needs, Owners, TypeOK, RequestType
<1>6. CASE CommitTransfer(r)
  BY <1>6, ToIdle DEF CommitTransfer
<1> QED
  BY <1>1, <1>2, <1>3, <1>4, <1>5, <1>6 DEF Member

LEMMA InvitationMoves ==
    ASSUME TypeOK, RelyInv, NEW r \in Requests, Invitation(r)
    PROVE  Moves(r)
<1>1. CASE PostInvitation(r)
  <2>1. PICK q \in RequestType : req' = [req EXCEPT ![r] = q] /\ Blank(q)
    BY <1>1, Begins
  <2>2. RelyOK(q)
    BY <2>1 DEF RelyOK, Blank
  <2> QED
    BY <2>1, <2>2, ToRequest DEF Blank
<1>2. CASE Supersede(r)
  BY <1>2, ToPlace DEF Supersede
<1>3. CASE AcceptInvitation(r)
  <2>1. PICK i \in Invites :
          /\ invite[i].status = "pending" /\ InviteFree(i)
          /\ req' = [req EXCEPT ![r] = [Idle EXCEPT !.pc = "join", !.op = "accept",
                        !.user = invite[i].user, !.new = invite[i].role, !.inv = {i}]]
    BY <1>3 DEF AcceptInvitation
  <2> DEFINE q == [Idle EXCEPT !.pc = "join", !.op = "accept", !.user = invite[i].user,
                               !.new = invite[i].role, !.inv = {i}]
  <2>2. invite[i].user \in Users /\ invite[i].role \in Granted \cup {"none"}
    BY DEF TypeOK, InviteType
  <2>3. q \in RequestType
    BY <2>2, IdleType DEF RequestType
  <2>4. /\ q.pc = "join" /\ q.user = invite[i].user /\ q.new = invite[i].role /\ q.inv = {i}
        /\ q.locks = {} /\ q.token = {}
    BY DEF Idle
  <2>5. RelyOK(q)
    BY <2>1, <2>4 DEF RelyOK
  <2> QED
    BY <2>1, <2>3, <2>4, <2>5, ToRequest
<1>4. CASE PostSignUp(r)
  <2>1. PICK i \in Invites :
          /\ invite[i].status = "pending"
          /\ req' = [req EXCEPT ![r] = [Idle EXCEPT !.pc = "register", !.op = "accept",
                                                    !.user = invite[i].user, !.token = {i}]]
    BY <1>4 DEF PostSignUp
  <2> DEFINE q == [Idle EXCEPT !.pc = "register", !.op = "accept", !.user = invite[i].user,
                               !.token = {i}]
  <2>2. invite[i].user \in Users
    BY DEF TypeOK, InviteType
  <2>3. q \in RequestType
    BY <2>2, IdleType DEF RequestType
  <2>4. /\ q.pc = "register" /\ q.user = invite[i].user /\ q.token = {i}
        /\ q.locks = {} /\ q.inv = {}
    BY DEF Idle
  <2>5. RelyOK(q)
    BY <2>1, <2>4 DEF RelyOK
  <2> QED
    BY <2>1, <2>3, <2>4, <2>5, ToRequest
<1>5. CASE RegisterAccount(r)
  BY <1>5, ToIdle, ToPlace DEF RegisterAccount
<1>6. CASE AcceptSignUp(r)
  <2>1. ASSUME NEW i \in req[r].token, InviteFree(i), invite[i].status = "pending",
               req[r].pc = "accept",
               req' = [req EXCEPT ![r].pc = "join", ![r].new = invite[i].role, ![r].inv = {i}]
        PROVE  Moves(r)
    <3> DEFINE q == [req[r] EXCEPT !.pc = "join", !.new = invite[i].role, !.inv = {i}]
    <3>1. req[r] \in RequestType /\ RelyOK(req[r]) /\ i \in Invites
      BY <2>1 DEF TypeOK, RelyInv, RequestType
    <3>2. invite[i].role \in Granted \cup {"none"} /\ invite[i].user = req[r].user
      BY <2>1, <3>1 DEF TypeOK, InviteType, RelyOK
    <3>3. q \in RequestType
      BY <3>1, <3>2 DEF RequestType
    <3>4. /\ q.pc = "join" /\ q.user = req[r].user /\ q.new = invite[i].role /\ q.inv = {i}
          /\ q.locks = req[r].locks /\ q.token = req[r].token
      BY <3>1 DEF RequestType
    <3>5. RelyOK(q)
      BY <2>1, <3>1, <3>2, <3>4 DEF RelyOK
    <3>6. req' = [req EXCEPT ![r] = q]
      BY <2>1 DEF TypeOK
    <3> QED
      BY <2>1, <3>1, <3>3, <3>4, <3>5, <3>6, ToRequest
  <2> QED
    BY <1>6, <2>1, ToIdle, MayLock DEF AcceptSignUp, NeedsInvites
<1>7. CASE InsertInvitation(r) \/ CommitAccept(r)
  BY <1>7, ToIdle DEF InsertInvitation, CommitAccept
<1> QED
  BY <1>1, <1>2, <1>3, <1>4, <1>5, <1>6, <1>7 DEF Invitation

\* A new token for an invitation moves no request.
LEMMA ResendMoves ==
    ASSUME TypeOK, RelyInv, NEW i \in Invites, ResendInvitation(i)
    PROVE  /\ req' \in [Requests -> RequestType]
           /\ \A r \in Requests :
                /\ req'[r].pc = req[r].pc /\ req'[r].user = req[r].user
                /\ req'[r].locks = req[r].locks /\ req'[r].inv = req[r].inv
                /\ RelyOK(req'[r])
<1>1. req' = [r \in Requests |-> [req[r] EXCEPT !.token = @ \ {i}]]
  BY DEF ResendInvitation
<1>2. ASSUME NEW r \in Requests
      PROVE  /\ req'[r] \in RequestType
             /\ req'[r].pc = req[r].pc /\ req'[r].user = req[r].user
             /\ req'[r].locks = req[r].locks /\ req'[r].inv = req[r].inv
             /\ RelyOK(req'[r])
  <2>1. req[r] \in RequestType /\ RelyOK(req[r])
    BY DEF TypeOK, RelyInv
  <2> DEFINE q == [req[r] EXCEPT !.token = @ \ {i}]
  <2>2. /\ q \in RequestType /\ q.pc = req[r].pc /\ q.user = req[r].user /\ q.new = req[r].new
        /\ q.locks = req[r].locks /\ q.inv = req[r].inv /\ q.token \subseteq req[r].token
    BY <2>1 DEF RequestType
  <2>3. RelyOK(q)
    BY <2>1, <2>2 DEF RelyOK
  <2>4. req'[r] = q
    BY <1>1
  <2> QED
    BY <2>2, <2>3, <2>4
<1> QED
  BY <1>1, <1>2

\* Every step moves one request, or none.
LEMMA Steps ==
    ASSUME TypeOK, RelyInv, [Next]_vars
    PROVE  \/ UNCHANGED req
           \/ \E i \in Invites : ResendInvitation(i)
           \/ \E r \in Requests : (Member(r) \/ Invitation(r) \/ Fail(r)) /\ Moves(r)
<1>1. ASSUME NEW r \in Requests, Fail(r)
      PROVE  Moves(r)
  BY <1>1, ToIdle DEF Fail
<1> QED
  BY <1>1, MemberMoves, InvitationMoves
  DEF Next, RevokeInvitation, ExpireInvitation, SweepExpiredInvitations, CreateUser, vars

\* The requests keep their type, and rely on what they saw.
LEMMA RequestStep ==
    ASSUME TypeOK, RelyInv, [Next]_vars
    PROVE  /\ req' \in [Requests -> RequestType]
           /\ \A r \in Requests : RelyOK(req'[r])
<1>1. CASE UNCHANGED req
  BY <1>1 DEF TypeOK, RelyInv
<1>2. ASSUME NEW r \in Requests, Moves(r)
      PROVE  \A s \in Requests : RelyOK(req'[s])
  BY <1>2 DEF Moves, Alone, RelyInv
<1> QED
  BY <1>1, <1>2, Steps, ResendMoves DEF Moves

LEMMA LockInvStep ==
    ASSUME TypeOK, RelyInv, LockInv, [Next]_vars
    PROVE  LockInv'
<1>1. CASE UNCHANGED req
  BY <1>1 DEF LockInv, Apart
<1>2. CASE \E i \in Invites : ResendInvitation(i)
  BY <1>2, ResendMoves DEF LockInv, Apart
<1>3. ASSUME NEW r \in Requests, Moves(r)
      PROVE  LockInv'
  <2>1. ASSUME NEW s \in Requests \ {r}
        PROVE  Apart(req'[r], req'[s])
    <3>1. Apart(req[r], req[s]) /\ req'[s] = req[s]
      BY <1>3 DEF LockInv, Moves, Alone
    <3>2. req'[r].locks \cap req[s].locks = {}
      BY <1>3, <3>1 DEF Moves, LockStep, RowFree, Apart
    <3>3. req'[r].inv \cap req[s].inv = {}
      BY <1>3, <3>1 DEF Moves, LockStep, InviteFree, Apart
    <3> QED
      BY <3>1, <3>2, <3>3 DEF Apart
  <2>2. ASSUME NEW s \in Requests \ {r}, NEW t \in Requests \ {r}, s # t
        PROVE  Apart(req'[s], req'[t])
    BY <1>3, <2>2 DEF LockInv, Moves, Alone
  <2>3. ASSUME NEW s \in Requests \ {r}
        PROVE  Apart(req'[s], req'[r])
    BY <2>1 DEF Apart
  <2>4. ASSUME NEW s \in Requests, NEW t \in Requests, s # t
        PROVE  Apart(req'[s], req'[t])
    BY <2>1, <2>2, <2>3, <2>4
  <2> QED
    BY <2>4 DEF LockInv, Apart
<1> QED
  BY <1>1, <1>2, <1>3, Steps

-----------------------------------------------------------------------------
(* Memberships. *)

\* A row goes only when a request commits that may: no other has it locked.
RowStep(u) ==
    \/ role'[u] = role[u]
    \/ role'[u] # "none"
    \/ \E r \in Requests : req'[r] = Idle /\ Alone(r) /\ RowFree(r, u)

LEMMA Rows ==
    ASSUME TypeOK, RelyInv, LockInv, [Next]_vars
    PROVE  /\ role' \in [Users -> Roles \cup {"none"}]
           /\ \A u \in Users : RowStep(u)
<1>1. /\ role \in [Users -> Roles \cup {"none"}]
      /\ \A r \in Requests : /\ req[r].user \in Users
                              /\ req[r].new \in Roles \cup {"none"}
  BY MembershipAssumption DEF TypeOK, RequestType
<1>2. CASE UNCHANGED role
  BY <1>1, <1>2 DEF RowStep
<1>3. ASSUME NEW r \in Requests, CommitMember(r)
      PROVE  /\ role' \in [Users -> Roles \cup {"none"}]
             /\ \A u \in Users : RowStep(u)
  <2>1. req'[r] = Idle /\ Alone(r)
    BY <1>3, ToIdle DEF CommitMember, Moves
  <2>2. RowFree(r, req[r].user)
    BY <1>3 DEF CommitMember, RelyInv, RelyOK, LockInv, Apart, RowFree
  <2>3. /\ role' \in [Users -> Roles \cup {"none"}]
        /\ \A u \in Users : u # req[r].user => role'[u] = role[u]
    BY <1>1, <1>3 DEF CommitMember, Roles
  <2> QED
    BY <2>1, <2>2, <2>3 DEF RowStep
<1>4. ASSUME NEW r \in Requests, CommitTransfer(r)
      PROVE  /\ role' \in [Users -> Roles \cup {"none"}]
             /\ \A u \in Users : RowStep(u)
  BY <1>1, <1>4 DEF CommitTransfer, Roles, RowStep
<1>5. ASSUME NEW r \in Requests, CommitAccept(r)
      PROVE  /\ role' \in [Users -> Roles \cup {"none"}]
             /\ \A u \in Users : RowStep(u)
  <2>1. req'[r] = Idle /\ Alone(r)
    BY <1>5, ToIdle DEF CommitAccept, Moves
  <2>2. /\ role' \in [Users -> Roles \cup {"none"}]
        /\ \A u \in Users : u # req[r].user => role'[u] = role[u]
    BY <1>1, <1>5 DEF CommitAccept
  <2>3. RowFree(r, req[r].user)
    BY <1>5, MayLock DEF CommitAccept, Needs
  <2> QED
    BY <2>1, <2>2, <2>3 DEF RowStep
<1>6. UNCHANGED role \/ \E r \in Requests : CommitMember(r) \/ CommitTransfer(r) \/ CommitAccept(r)
  BY Writers
<1> QED
  BY <1>2, <1>3, <1>4, <1>5, <1>6

-----------------------------------------------------------------------------
(* Invitations. *)

\* An invitation keeps its user and role from its creation on; its status changes while
\* no request has it locked, or when the request that has it ends, and only before it is
\* resolved.
Keeps(i) == invite'[i].user = invite[i].user /\ invite'[i].role = invite[i].role
Unlocked(i) == InviteFree(i) /\ \A r \in Requests : req'[r].inv = req[r].inv
UsedUp(i) == \E r \in Requests : i \in req[r].inv /\ req'[r] = Idle /\ Alone(r)
InviteStep(i) ==
    \/ Keeps(i) /\ invite'[i].status = invite[i].status
    \/ invite[i].status = "none"
    \/ /\ Keeps(i) /\ invite'[i].status # "none"
       /\ invite[i].status \in {"pending", "expired"}
       /\ Unlocked(i) \/ UsedUp(i)

\* The invitations in S get the status st.
LEMMA Marked ==
    ASSUME TypeOK, NEW S, NEW st \in {"pending", "accepted", "revoked", "expired"},
           invite' = [i \in Invites |-> IF i \in S THEN [invite[i] EXCEPT !.status = st]
                                        ELSE invite[i]],
           \A i \in S \cap Invites : /\ invite[i].status \in {"pending", "expired"}
                                     /\ Unlocked(i) \/ UsedUp(i)
    PROVE  invite' \in [Invites -> InviteType] /\ \A i \in Invites : InviteStep(i)
<1>1. ASSUME NEW i \in Invites
      PROVE  invite'[i] \in InviteType /\ InviteStep(i)
  <2>1. CASE i \in S
    <3> DEFINE v == [invite[i] EXCEPT !.status = st]
    <3>1. /\ v \in InviteType /\ v.user = invite[i].user /\ v.role = invite[i].role
          /\ v.status = st
      <4>1. invite[i] \in InviteType
        BY DEF TypeOK
      <4> QED
        BY <4>1 DEF InviteType
    <3>4. invite'[i] = v
      BY <2>1
    <3> HIDE DEF v
    <3>2. invite'[i] \in InviteType /\ Keeps(i) /\ invite'[i].status = st
      BY <3>1, <3>4 DEF Keeps
    <3>3. invite[i].status \in {"pending", "expired"} /\ (Unlocked(i) \/ UsedUp(i))
      BY <2>1
    <3> QED
      BY <3>2, <3>3 DEF InviteStep
  <2>2. CASE i \notin S
    BY <2>2 DEF InviteStep, Keeps, TypeOK
  <2> QED
    BY <2>1, <2>2
<1> QED
  BY <1>1

LEMMA SameInv ==
    ASSUME TypeOK, RelyInv, NEW r \in Requests, Supersede(r)
    PROVE  \A s \in Requests : req'[s].inv = req[s].inv
<1>1. req' = [req EXCEPT ![r].pc = "insert"]
  BY DEF Supersede, Goto
<1> QED
  BY <1>1 DEF TypeOK, RequestType

LEMMA Invitations ==
    ASSUME TypeOK, RelyInv, LockInv, [Next]_vars
    PROVE  invite' \in [Invites -> InviteType] /\ \A i \in Invites : InviteStep(i)
<1>1. invite \in [Invites -> InviteType]
  BY DEF TypeOK
<1>2. CASE UNCHANGED invite
  BY <1>1, <1>2 DEF InviteStep, Keeps
<1>3. ASSUME NEW r \in Requests, Supersede(r)
      PROVE  invite' \in [Invites -> InviteType] /\ \A i \in Invites : InviteStep(i)
  <2>1. \A i \in Pending(req[r].user) : invite[i].status = "pending" /\ Unlocked(i)
    BY <1>3, SameInv, MayLock DEF Supersede, NeedsInvites, Pending, Unlocked
  <2> QED
    BY <1>3, <2>1, Marked DEF Supersede
<1>4. ASSUME NEW r \in Requests, InsertInvitation(r)
      PROVE  invite' \in [Invites -> InviteType] /\ \A i \in Invites : InviteStep(i)
  <2>1. ASSUME NEW i \in Unused,
               invite' = [invite EXCEPT ![i] = [user |-> req[r].user, role |-> req[r].new,
                                                status |-> "pending", past |-> FALSE]]
        PROVE  invite' \in [Invites -> InviteType] /\ \A j \in Invites : InviteStep(j)
    <3>1. i \in Invites /\ invite[i].status = "none"
      BY DEF Unused
    <3>2. [user |-> req[r].user, role |-> req[r].new, status |-> "pending", past |-> FALSE]
             \in InviteType
      BY DEF TypeOK, RequestType, InviteType
    <3>3. \A j \in Invites : j # i => invite'[j] = invite[j]
      BY <1>1, <2>1
    <3> QED
      BY <1>1, <2>1, <3>1, <3>2, <3>3 DEF InviteStep, Keeps
  <2> QED
    BY <1>2, <1>4, <2>1 DEF InsertInvitation
<1>5. ASSUME NEW i \in Invites, ResendInvitation(i)
      PROVE  invite' \in [Invites -> InviteType] /\ \A j \in Invites : InviteStep(j)
  <2>1. /\ invite' = [invite EXCEPT ![i].status = "pending", ![i].past = FALSE]
        /\ invite[i].status \in {"pending", "expired"} /\ Unlocked(i)
    BY <1>5, ResendMoves DEF ResendInvitation, Unlocked
  <2>2. \A j \in Invites : j # i => invite'[j] = invite[j]
    BY <1>1, <2>1
  <2>3. invite'[i] \in InviteType /\ Keeps(i) /\ invite'[i].status = "pending"
    BY <1>1, <2>1 DEF InviteType, Keeps
  <2> QED
    BY <1>1, <2>1, <2>2, <2>3 DEF InviteStep, Keeps
<1>6. ASSUME NEW i \in Invites, RevokeInvitation(i)
      PROVE  invite' \in [Invites -> InviteType] /\ \A j \in Invites : InviteStep(j)
  <2>1. /\ invite' = [invite EXCEPT ![i].status = "revoked"]
        /\ invite[i].status \in {"pending", "expired"} /\ Unlocked(i)
    BY <1>6 DEF RevokeInvitation, Unlocked
  <2>2. \A j \in Invites : j # i => invite'[j] = invite[j]
    BY <1>1, <2>1
  <2>3. invite'[i] \in InviteType /\ Keeps(i) /\ invite'[i].status = "revoked"
    BY <1>1, <2>1 DEF InviteType, Keeps
  <2> QED
    BY <1>1, <2>1, <2>2, <2>3 DEF InviteStep, Keeps
<1>7. ASSUME NEW i \in Invites, ExpireInvitation(i)
      PROVE  invite' \in [Invites -> InviteType] /\ \A j \in Invites : InviteStep(j)
  <2>1. invite' = [invite EXCEPT ![i].past = TRUE]
    BY <1>7 DEF ExpireInvitation
  <2>2. \A j \in Invites : j # i => invite'[j] = invite[j]
    BY <1>1, <2>1
  <2>3. invite'[i] \in InviteType /\ Keeps(i) /\ invite'[i].status = invite[i].status
    BY <1>1, <2>1 DEF InviteType, Keeps
  <2> QED
    BY <1>1, <2>1, <2>2, <2>3 DEF InviteStep, Keeps
<1>8. CASE SweepExpiredInvitations
  <2> DEFINE due == {i \in Invites : invite[i].status = "pending" /\ invite[i].past}
  <2>1. \A i \in due : invite[i].status = "pending" /\ Unlocked(i)
    BY <1>8 DEF SweepExpiredInvitations, Unlocked
  <2>2. invite' = [i \in Invites |-> IF i \in due THEN [invite[i] EXCEPT !.status = "expired"]
                                     ELSE invite[i]]
    BY <1>8 DEF SweepExpiredInvitations
  <2> HIDE DEF due
  <2> QED
    BY <2>1, <2>2, Marked
<1>9. ASSUME NEW r \in Requests, CommitAccept(r)
      PROVE  invite' \in [Invites -> InviteType] /\ \A i \in Invites : InviteStep(i)
  <2>1. req'[r] = Idle /\ Alone(r)
    BY <1>9, ToIdle DEF CommitAccept, Moves
  <2>2. \A i \in req[r].inv : invite[i].status = "pending" /\ UsedUp(i)
    BY <1>9, <2>1 DEF CommitAccept, RelyInv, RelyOK, UsedUp
  <2> QED
    BY <1>9, <2>2, Marked DEF CommitAccept
<1>10. \/ UNCHANGED invite \/ SweepExpiredInvitations
       \/ \E r \in Requests : Supersede(r) \/ InsertInvitation(r) \/ CommitAccept(r)
       \/ \E i \in Invites : ResendInvitation(i) \/ RevokeInvitation(i) \/ ExpireInvitation(i)
  BY Writers
<1> QED
  BY <1>2, <1>3, <1>4, <1>5, <1>6, <1>7, <1>8, <1>9, <1>10

\* What the requests rely on stays so.
LEMMA RelyStep ==
    ASSUME TypeOK, RelyInv, LockInv, [Next]_vars
    PROVE  RelyInv'
<1> SUFFICES ASSUME NEW r \in Requests
             PROVE  RelyOK(req[r])'
  BY DEF RelyInv
<1> DEFINE q == req'[r]
<1>1. q \in RequestType /\ RelyOK(q)
  BY RequestStep
<1>2. /\ q.pc \in {"count", "write", "demote"} => q.locks = {q.user}
      /\ q.pc = "hand over" => q.user \in q.locks
      /\ q.pc \notin {"count", "write", "demote", "hand over"} => q.locks = {}
      /\ q.pc # "join" => q.inv = {}
  BY <1>1 DEF RelyOK
<1>3. ASSUME NEW u \in q.locks
      PROVE  role'[u] # "none"
  <2>1. role[u] # "none" /\ u \in Users
    BY <1>1 DEF RelyOK, RequestType
  <2>2. q # Idle
    BY DEF Idle
  <2>3. ASSUME NEW t \in Requests, req'[t] = Idle, Alone(t), RowFree(t, u)
        PROVE  FALSE
    BY <2>2, <2>3 DEF Alone, RowFree
  <2> QED
    BY <2>1, <2>3, Rows DEF RowStep
<1>4. ASSUME NEW i \in q.token
      PROVE  invite'[i].user = q.user /\ invite'[i].status # "none"
  <2>1. i \in Invites /\ invite[i].user = q.user /\ invite[i].status # "none"
    BY <1>1 DEF RelyOK, RequestType
  <2> QED
    BY <2>1, Invitations DEF InviteStep, Keeps
<1>5. ASSUME q.pc = "join"
      PROVE  \E i \in Invites : /\ q.inv = {i} /\ invite'[i].status = "pending"
                                /\ invite'[i].user = q.user /\ invite'[i].role = q.new
  <2>1. PICK i \in Invites : /\ q.inv = {i} /\ invite[i].status = "pending"
                             /\ invite[i].user = q.user /\ invite[i].role = q.new
    BY <1>1, <1>5 DEF RelyOK
  <2>2. ~Unlocked(i)
    BY <2>1 DEF Unlocked, InviteFree
  <2>3. q # Idle
    BY <1>5 DEF Idle
  <2>4. ASSUME NEW s \in Requests, i \in req[s].inv, req'[s] = Idle, Alone(s)
        PROVE  FALSE
    <3>1. s # r /\ q = req[r]
      BY <2>3, <2>4 DEF Alone
    <3> QED
      BY <2>1, <2>4, <3>1 DEF LockInv, Apart
  <2>5. ~UsedUp(i)
    BY <2>4 DEF UsedUp
  <2> QED
    BY <2>1, <2>2, <2>5, Invitations DEF InviteStep, Keeps
<1> QED
  BY <1>2, <1>3, <1>4, <1>5 DEF RelyOK

-----------------------------------------------------------------------------
(* Accounts. *)

\* Only requests of somebody with an account come to accept an invitation.
LEMMA AccountSteps ==
    ASSUME TypeOK, AccountInv, [Next]_vars
    PROVE  account \subseteq account' /\ account' \subseteq Users /\ AccountInv'
<1>1. /\ account \subseteq Users /\ req \in [Requests -> RequestType]
      /\ \A r \in Requests : req[r].user \in Users
  BY DEF TypeOK, RequestType
<1>2. account \subseteq account' /\ account' \subseteq Users
  BY <1>1, Writers DEF RegisterAccount, CreateUser
<1>3. ASSUME NEW r \in Requests, NEW q, req' = [req EXCEPT ![r] = q],
             q.pc \in {"accept", "join"} => q.user \in account'
      PROVE  AccountInv'
  BY <1>1, <1>2, <1>3 DEF AccountInv
<1>4. CASE UNCHANGED req
  BY <1>2, <1>4 DEF AccountInv
<1>5. ASSUME NEW i \in Invites, ResendInvitation(i)
      PROVE  AccountInv'
  <2>1. req' = [r \in Requests |-> [req[r] EXCEPT !.token = @ \ {i}]]
    BY <1>5 DEF ResendInvitation
  <2>2. \A r \in Requests : req'[r].pc = req[r].pc /\ req'[r].user = req[r].user
    BY <1>1, <2>1 DEF RequestType
  <2> QED
    BY <1>2, <2>2 DEF AccountInv
<1>6. ASSUME NEW r \in Requests, End(r)
      PROVE  AccountInv'
  BY <1>3, <1>6 DEF End, Idle
<1>7. ASSUME NEW r \in Requests, NEW pc, Goto(r, pc), pc \notin {"accept", "join"}
      PROVE  AccountInv'
  <2> DEFINE q == [req[r] EXCEPT !.pc = pc]
  <2>1. q.pc = pc
    BY <1>1 DEF RequestType
  <2>2. req' = [req EXCEPT ![r] = q]
    BY <1>1, <1>7 DEF Goto
  <2> QED
    BY <1>3, <1>7, <2>1, <2>2
<1>8. ASSUME NEW r \in Requests,
             PatchMember(r) \/ DeleteMember(r) \/ PostTransfer(r) \/ PostInvitation(r)
      PROVE  AccountInv'
  <2>1. PICK q \in RequestType : req' = [req EXCEPT ![r] = q] /\ Blank(q)
    BY <1>8, Begins
  <2> QED
    BY <1>3, <2>1 DEF Blank
<1>9. ASSUME NEW r \in Requests, PostSignUp(r)
      PROVE  AccountInv'
  <2>1. PICK i \in Invites :
          req' = [req EXCEPT ![r] = [Idle EXCEPT !.pc = "register", !.op = "accept",
                                                 !.user = invite[i].user, !.token = {i}]]
    BY <1>9 DEF PostSignUp
  <2> DEFINE q == [Idle EXCEPT !.pc = "register", !.op = "accept", !.user = invite[i].user,
                               !.token = {i}]
  <2>2. q.pc = "register"
    BY DEF Idle
  <2> HIDE DEF q
  <2>3. req' = [req EXCEPT ![r] = q]
    BY <2>1 DEF q
  <2> QED
    BY <1>3, <2>2, <2>3
<1>10. ASSUME NEW r \in Requests, LockTarget(r) \/ DemoteOwner(r)
       PROVE  AccountInv'
  <2>1. CASE End(r) \/ Goto(r, "hand over")
    BY <1>6, <1>7, <2>1
  <2>2. ASSUME NEW pc \in {"write", "count", "demote", "hand over"}, NEW L,
               req' = [req EXCEPT ![r].pc = pc, ![r].locks = L]
        PROVE  AccountInv'
    <3> DEFINE q == [req[r] EXCEPT !.pc = pc, !.locks = L]
    <3>1. q.pc = pc
      BY <1>1 DEF RequestType
    <3>2. req' = [req EXCEPT ![r] = q]
      BY <1>1, <2>2
    <3> QED
      BY <1>3, <3>1, <3>2
  <2>3. ASSUME req' = [req EXCEPT ![r].pc = "hand over", ![r].locks = @ \cup {req[r].from}]
        PROVE  AccountInv'
    <3>1. req' = [req EXCEPT ![r].pc = "hand over", ![r].locks = req[r].locks \cup {req[r].from}]
      BY <1>1, <2>3
    <3> QED
      BY <2>2, <3>1
  <2> QED
    BY <1>10, <2>1, <2>2, <2>3 DEF LockTarget, DemoteOwner
<1>11. ASSUME NEW r \in Requests, AcceptInvitation(r)
       PROVE  AccountInv'
  <2>1. PICK i \in Invites :
          /\ invite[i].user \in account
          /\ req' = [req EXCEPT ![r] = [Idle EXCEPT !.pc = "join", !.op = "accept",
                        !.user = invite[i].user, !.new = invite[i].role, !.inv = {i}]]
    BY <1>11 DEF AcceptInvitation
  <2> DEFINE q == [Idle EXCEPT !.pc = "join", !.op = "accept", !.user = invite[i].user,
                               !.new = invite[i].role, !.inv = {i}]
  <2>2. q.user = invite[i].user
    BY DEF Idle
  <2> QED
    BY <1>2, <1>3, <2>1, <2>2
<1>12. ASSUME NEW r \in Requests, RegisterAccount(r)
       PROVE  AccountInv'
  <2> DEFINE q == [req[r] EXCEPT !.pc = "accept"]
  <2>1. q.user = req[r].user
    BY <1>1 DEF RequestType
  <2>2. CASE account' = account \cup {req[r].user} /\ Goto(r, "accept")
    <3>1. req' = [req EXCEPT ![r] = q]
      BY <1>1, <2>2 DEF Goto
    <3>2. req[r].user \in account'
      BY <2>2
    <3> HIDE DEF q
    <3> QED
      BY <1>3, <2>1, <3>1, <3>2
  <2> QED
    BY <1>6, <1>12, <2>2 DEF RegisterAccount
<1>13. ASSUME NEW r \in Requests, AcceptSignUp(r)
       PROVE  AccountInv'
  <2>1. ASSUME NEW i \in req[r].token, req[r].pc = "accept",
               req' = [req EXCEPT ![r].pc = "join", ![r].new = invite[i].role, ![r].inv = {i}]
        PROVE  AccountInv'
    <3> DEFINE q == [req[r] EXCEPT !.pc = "join", !.new = invite[i].role, !.inv = {i}]
    <3>1. q.user = req[r].user /\ req[r].user \in account
      BY <1>1, <2>1 DEF RequestType, AccountInv
    <3>2. req' = [req EXCEPT ![r] = q]
      BY <1>1, <2>1
    <3> QED
      BY <1>2, <1>3, <3>1, <3>2
  <2> QED
    BY <1>6, <1>13, <2>1 DEF AcceptSignUp
<1>14. ASSUME NEW r \in Requests, Member(r) \/ Invitation(r) \/ Fail(r)
       PROVE  AccountInv'
  <2>1. CASE CountOwners(r) \/ CommitMember(r) \/ CommitTransfer(r) \/ InsertInvitation(r)
             \/ CommitAccept(r) \/ Fail(r) \/ Supersede(r)
    BY <1>6, <1>7, <2>1
    DEF CountOwners, CommitMember, CommitTransfer, InsertInvitation, CommitAccept, Fail, Supersede
  <2> QED
    BY <1>8, <1>9, <1>10, <1>11, <1>12, <1>13, <1>14, <2>1 DEF Member, Invitation
<1>15. UNCHANGED req \/ (\E i \in Invites : ResendInvitation(i))
       \/ \E r \in Requests : Member(r) \/ Invitation(r) \/ Fail(r)
  BY DEF Next, RevokeInvitation, ExpireInvitation, SweepExpiredInvitations, CreateUser, vars
<1> QED
  BY <1>2, <1>4, <1>5, <1>14, <1>15

\* Members and the owner have accounts.
LEMMA MembersStep ==
    ASSUME TypeOK, RelyInv, AccountInv, [Next]_vars
    PROVE  /\ {owner'} \cup {u \in Users : role'[u] # "none"} \subseteq account'
           /\ owner' \in Users
<1>1. /\ owner \in account /\ owner \in Users
      /\ \A u \in Users : role[u] # "none" => u \in account
      /\ role \in [Users -> Roles \cup {"none"}]
      /\ \A r \in Requests : req[r].user \in Users
      /\ account \subseteq account'
  BY AccountSteps DEF TypeOK, RequestType
<1>2. CASE UNCHANGED <<role, owner>>
  BY <1>1, <1>2
<1>3. ASSUME NEW r \in Requests, CommitMember(r)
      PROVE  owner' = owner /\ \A u \in Users : role'[u] # "none" => role[u] # "none"
  BY <1>1, <1>3 DEF CommitMember
<1>4. ASSUME NEW r \in Requests, CommitTransfer(r)
      PROVE  /\ owner' \in account /\ owner' \in Users
             /\ \A u \in Users : role'[u] # "none" => u \in account
  <2>1. role[req[r].user] # "none" /\ owner' = req[r].user
    BY <1>4 DEF CommitTransfer, RelyInv, RelyOK
  <2>2. \A u \in req[r].locks : role[u] # "none"
    BY DEF RelyInv, RelyOK
  <2>3. \A u \in Users : role'[u] # "none" => role[u] # "none"
    BY <1>1, <1>4, <2>1, <2>2 DEF CommitTransfer
  <2> QED
    BY <1>1, <2>1, <2>3
<1>5. ASSUME NEW r \in Requests, CommitAccept(r)
      PROVE  owner' = owner /\ \A u \in Users : role'[u] # "none" => u \in account
  BY <1>1, <1>5 DEF CommitAccept, AccountInv
<1>6. \/ UNCHANGED <<role, owner>>
      \/ \E r \in Requests : CommitMember(r) \/ CommitTransfer(r) \/ CommitAccept(r)
  BY Writers
<1> QED
  BY <1>1, <1>2, <1>3, <1>4, <1>5, <1>6

-----------------------------------------------------------------------------
(* The count of the owners. *)

LEMMA Another ==
    ASSUME NEW S, IsFiniteSet(S), Cardinality(S) > 1, NEW x
    PROVE  \E y \in S : y # x
<1> SUFFICES ASSUME S \subseteq {x}
             PROVE  FALSE
  OBVIOUS
<1>1. IsFiniteSet({x}) /\ Cardinality({x}) = 1
  BY FS_Singleton
<1>2. Cardinality(S) <= 1 /\ Cardinality(S) \in Nat
  BY <1>1, FS_Subset, FS_CardinalityType
<1> QED
  BY <1>2

LEMMA OwnersFinite ==
    IsFiniteSet(Owners)
BY MembershipAssumption, FS_Subset DEF Owners

\* A request with a right count commits, fails, or waits.
LEMMA FreshMoves ==
    ASSUME TypeOK, NEW r \in Requests, req[r].pc = "write",
           Member(r) \/ Invitation(r) \/ Fail(r)
    PROVE  CommitMember(r) \/ Fail(r)
BY DEF Member, Invitation, PatchMember, DeleteMember, PostTransfer, LockTarget, CountOwners,
       DemoteOwner, CommitTransfer, PostInvitation, Supersede, InsertInvitation,
       AcceptInvitation, CommitAccept, PostSignUp, RegisterAccount, AcceptSignUp

LEMMA FreshSteps ==
    ASSUME TypeOK, FreshInv, [Next]_vars
    PROVE  /\ fresh' \subseteq Requests
           /\ Owners' = Owners \/ fresh' = {}
           /\ \A r \in fresh' : r \in fresh \/ CountOwners(r)
           /\ \A r \in Requests : CommitMember(r) \/ Fail(r) => r \notin fresh'
<1>1. fresh \subseteq Requests
  BY DEF TypeOK
<1>2. CASE UNCHANGED <<role, fresh>>
  BY <1>1, <1>2 DEF Owners, CommitMember, Recount, Fail
<1>3. ASSUME NEW r \in Requests, CountOwners(r)
      PROVE  /\ role' = role
             /\ fresh' = fresh \/ fresh' = fresh \cup {r}
             /\ \A s \in Requests : CommitMember(s) \/ Fail(s) => s \notin fresh'
  <2>1. role' = role /\ (fresh' = fresh \/ fresh' = fresh \cup {r})
    BY <1>3 DEF CountOwners
  <2>2. \A s \in Requests : CommitMember(s) \/ Fail(s) => s \notin fresh'
    BY DEF CommitMember, Fail, Recount
  <2> QED
    BY <2>1, <2>2
<1>4. ASSUME NEW r \in Requests, Recount(r)
      PROVE  (Owners' = Owners \/ fresh' = {}) /\ fresh' \subseteq fresh
  BY <1>4 DEF Recount
<1>5. ASSUME NEW r \in Requests, Fail(r)
      PROVE  role' = role /\ fresh' \subseteq fresh
  BY <1>5 DEF Fail
<1>6. \A s \in Requests : CommitMember(s) \/ Fail(s) => s \notin fresh'
  BY DEF CommitMember, Fail, Recount
<1>7. \/ UNCHANGED <<role, fresh>>
      \/ \E r \in Requests : CountOwners(r) \/ Recount(r) \/ Fail(r)
  BY Writers
<1> QED
  BY <1>1, <1>2, <1>3, <1>4, <1>5, <1>6, <1>7 DEF Owners

LEMMA FreshStep ==
    ASSUME TypeOK, RelyInv, FreshInv, [Next]_vars
    PROVE  FreshInv'
<1> SUFFICES ASSUME NEW r \in fresh'
             PROVE  req'[r].pc = "write" /\ Cardinality(Owners') > 1
  BY DEF FreshInv
<1>1. r \in Requests /\ Owners' = Owners /\ ~CommitMember(r) /\ ~Fail(r)
  BY FreshSteps
<1>2. CASE CountOwners(r)
  <2>1. Cardinality(Owners) > 1 /\ Goto(r, "write")
    BY <1>2, FreshSteps, ToIdle DEF CountOwners, FreshInv
  <2> QED
    BY <1>1, <2>1 DEF Goto, TypeOK, RequestType
<1>3. CASE r \in fresh
  <2>1. req[r].pc = "write" /\ Cardinality(Owners) > 1
    BY <1>3 DEF FreshInv
  <2>2. ~(Member(r) \/ Invitation(r) \/ Fail(r))
    BY <1>1, <2>1, FreshMoves
  <2>3. req'[r].pc = req[r].pc
    BY <1>1, <2>2, Steps, ResendMoves DEF Moves, Alone
  <2> QED
    BY <1>1, <2>1, <2>3
<1> QED
  BY <1>2, <1>3, FreshSteps

-----------------------------------------------------------------------------
(* The invariant. *)

LEMMA InitInv ==
    Init => MembershipInv
<1> SUFFICES ASSUME Init
             PROVE  MembershipInv
  OBVIOUS
<1>1. req = [r \in Requests |-> Idle] /\ fresh = {} /\ owner = Creator /\ Creator \in Users
  BY MembershipAssumption DEF Init
<1>2. invite \in [Invites -> InviteType]
  BY MembershipAssumption DEF Init, NoInvite, InviteType
<1>3. role \in [Users -> Roles \cup {"none"}]
  BY MembershipAssumption DEF Init, Roles
<1>4. /\ account \subseteq Users /\ Creator \in account
      /\ \A u \in Users : role[u] # "none" => u \in account
  BY DEF Init
<1>5. TypeOK
  BY <1>1, <1>2, <1>3, <1>4, IdleType DEF TypeOK
<1>6. RelyInv
  BY <1>1, IdleType DEF RelyInv
<1>7. AccountInv /\ LockInv /\ FreshInv
  BY <1>1 DEF AccountInv, LockInv, FreshInv, Apart, Idle
<1> QED
  BY <1>5, <1>6, <1>7 DEF MembershipInv

LEMMA NextInv ==
    MembershipInv /\ [Next]_vars => MembershipInv'
<1> SUFFICES ASSUME MembershipInv, [Next]_vars
             PROVE  MembershipInv'
  OBVIOUS
<1>1. TypeOK /\ RelyInv /\ AccountInv /\ LockInv /\ FreshInv
  BY DEF MembershipInv
<1>2. TypeOK'
  <2>1. role' \in [Users -> Roles \cup {"none"}] /\ invite' \in [Invites -> InviteType]
    BY <1>1, Rows, Invitations
  <2>2. account' \subseteq Users /\ fresh' \subseteq Requests
    BY <1>1, AccountSteps, FreshSteps
  <2>3. req' \in [Requests -> RequestType]
    BY <1>1, RequestStep
  <2>4. /\ {owner'} \cup {u \in Users : role'[u] # "none"} \subseteq account'
        /\ owner' \in Users
    BY <1>1, MembersStep
  <2> QED
    BY <2>1, <2>2, <2>3, <2>4 DEF TypeOK
<1> QED
  BY <1>1, <1>2, RelyStep, AccountSteps, LockInvStep, FreshStep DEF MembershipInv

LEMMA Invariant == Spec => []MembershipInv
BY InitInv, NextInv, PTL DEF Spec

-----------------------------------------------------------------------------
(* The theorems. *)

\* No role or status the schema's CHECKs reject is ever stored, and members and the owner
\* have accounts: owner_id and user_id never point to nobody.
THEOREM TypeCorrect == Spec => []TypeOK
<1>1. MembershipInv => TypeOK
  BY DEF MembershipInv
<1> QED
  BY <1>1, Invariant, PTL

\* The request that commits is the one that moves.
LEMMA Mover ==
    ASSUME TypeOK, RelyInv, [Next]_vars, NEW r \in Requests, NEW pc \in {"write", "join"},
           Commits(r, pc)
    PROVE  IF pc = "write" THEN CommitMember(r) ELSE CommitAccept(r)
<1>1. req[r].pc = pc /\ req'[r].pc = "idle" /\ role' # role
  BY DEF Commits
<1>2. Member(r) \/ Invitation(r) \/ Fail(r)
  BY <1>1, Steps, ResendMoves DEF Moves, Alone
<1>3. ~Fail(r)
  BY <1>1 DEF Fail
<1>4. CASE pc = "write"
  BY <1>1, <1>2, <1>3, <1>4, FreshMoves
<1>5. CASE pc = "join"
  BY <1>1, <1>2, <1>3, <1>5
  DEF Member, Invitation, PatchMember, DeleteMember, PostTransfer, LockTarget, CountOwners,
      CommitMember, DemoteOwner, CommitTransfer, PostInvitation, Supersede, InsertInvitation,
      AcceptInvitation, PostSignUp, RegisterAccount, AcceptSignUp
<1> QED
  BY <1>4, <1>5

\* UpdateMemberRole and RemoveMember leave an owner whenever the owners are still those
\* they counted: the count is sound, and only its staleness can lose the last owner.
THEOREM CountedRemovalKeepsOwner == Spec => RemovalKeepsOwner
<1>1. ASSUME MembershipInv, [Next]_vars
      PROVE  \A r \in fresh : Commits(r, "write") => Owners' # {}
  <2> SUFFICES ASSUME NEW r \in fresh, Commits(r, "write")
               PROVE  Owners' # {}
    OBVIOUS
  <2>1. TypeOK /\ RelyInv /\ r \in Requests /\ Cardinality(Owners) > 1
    BY <1>1 DEF MembershipInv, TypeOK, FreshInv
  <2>2. CommitMember(r)
    BY <1>1, <2>1, Mover
  <2>3. PICK u \in Owners : u # req[r].user
    BY <2>1, OwnersFinite, Another
  <2>4. role'[u] = role[u]
    BY <2>1, <2>2, <2>3 DEF CommitMember, Owners, TypeOK
  <2> QED
    BY <2>3, <2>4 DEF Owners
<1>2. MembershipInv /\ [Next]_vars
        => [\A r \in fresh : Commits(r, "write") => Owners' # {}]_vars
  BY <1>1
<1> QED
  BY <1>2, Invariant, PTL DEF Spec, RemovalKeepsOwner

\* A transfer hands the workspace to a member, who is an owner from the same commit on,
\* however it interleaves with removals, role changes and other transfers.
THEOREM NewOwnerIsOwner == Spec => TransferToOwner
<1>1. ASSUME MembershipInv, [Next]_vars, owner' # owner
      PROVE  role'[owner'] = "owner"
  <2>1. TypeOK /\ RelyInv
    BY <1>1 DEF MembershipInv
  <2>2. PICK r \in Requests : CommitTransfer(r)
    BY <1>1, Writers
  <2>3. req[r].user \in Users /\ role[req[r].user] # "none"
    BY <2>1, <2>2 DEF TypeOK, RequestType, RelyInv, RelyOK, CommitTransfer
  <2> QED
    BY <2>2, <2>3 DEF CommitTransfer
<1>2. MembershipInv /\ [Next]_vars => [owner' # owner => role'[owner'] = "owner"]_vars
  BY <1>1
<1> QED
  BY <1>2, Invariant, PTL DEF Spec, TransferToOwner

\* AcceptInvitation gives the role of an invitation that is pending when it commits and is
\* used up by that commit, also when an account had to be made in between.
THEOREM AcceptanceUsesInvitation == Spec => InvitationUsedOnce
<1>1. ASSUME MembershipInv, [Next]_vars, NEW r \in Requests, Commits(r, "join")
      PROVE  \E i \in Invites : /\ invite[i].status = "pending"
                                /\ invite'[i].status = "accepted"
                                /\ role'[invite[i].user] = invite[i].role
  <2>1. TypeOK /\ RelyInv
    BY <1>1 DEF MembershipInv
  <2>2. CommitAccept(r)
    BY <1>1, <2>1, Mover
  <2>3. PICK i \in Invites : /\ req[r].inv = {i} /\ invite[i].status = "pending"
                             /\ invite[i].user = req[r].user /\ invite[i].role = req[r].new
    BY <2>1, <2>2 DEF RelyInv, RelyOK, CommitAccept
  <2>4. invite'[i] = [invite[i] EXCEPT !.status = "accepted"]
    BY <2>2, <2>3 DEF CommitAccept
  <2>5. invite[i] \in InviteType
    BY <2>1 DEF TypeOK
  <2>6. invite'[i].status = "accepted"
    BY <2>4, <2>5 DEF InviteType
  <2>7. role'[req[r].user] = req[r].new
    BY <2>1, <2>2 DEF CommitAccept, TypeOK, RequestType
  <2> QED
    BY <2>3, <2>6, <2>7
<1>2. MembershipInv /\ [Next]_vars
        => [\A r \in Requests : Commits(r, "join") =>
              \E i \in Invites : /\ invite[i].status = "pending"
                                 /\ invite'[i].status = "accepted"
                                 /\ role'[invite[i].user] = invite[i].role]_vars
  BY <1>1
<1> QED
  BY <1>2, Invariant, PTL DEF Spec, InvitationUsedOnce

\* No handler and no sweep changes an invitation that was accepted or revoked.
THEOREM ResolvedStays == Spec => ResolvedIsFinal
<1>1. ASSUME MembershipInv, [Next]_vars, NEW i \in Invites,
             invite[i].status \in {"accepted", "revoked"}
      PROVE  invite'[i].status = invite[i].status
  BY <1>1, Invitations DEF MembershipInv, InviteStep
<1>2. MembershipInv /\ [Next]_vars
        => [\A i \in Invites : invite[i].status \in {"accepted", "revoked"}
                                  => invite'[i].status = invite[i].status]_vars
  BY <1>1
<1> QED
  BY <1>2, Invariant, PTL DEF Spec, ResolvedIsFinal

\* The row of its user is all that a request has locked when it waits for another, except
\* for an acceptance, which has its invitation and which only requests without a lock wait
\* for. So only transfers wait for each other in a circle, by the row each will demote.
THEOREM DeadlockedByTransfers == Spec => []DeadlocksAreTransfers
<1>1. ASSUME RelyInv, NEW D \in SUBSET Requests, Deadlock(D), NEW r \in D
      PROVE  req[r].pc = "demote" /\ \E s \in D \ {r} : req[s].user = req[r].from
  <2>1. \A q \in D : RelyOK(req[q])
    BY <1>1 DEF RelyInv
  <2>2. ASSUME NEW q \in D
        PROVE  req[q].pc = "demote"
    <3>1. WaitsFor(q) # {} /\ \E s \in D : q \in WaitsFor(s)
      BY <1>1 DEF Deadlock
    <3>2. req[q].pc \in {"lock", "join", "demote", "supersede", "accept"}
      BY <3>1 DEF WaitsFor, Needs, NeedsInvites
    <3>3. PICK s \in D : q \in WaitsFor(s)
      BY <3>1
    <3>4. CASE req[q].locks # {}
      BY <2>1, <3>2, <3>4 DEF RelyOK
    <3>5. CASE req[q].locks = {}
      <4>1. req[q].inv # {} /\ NeedsInvites(s) # {}
        BY <3>3, <3>5 DEF WaitsFor
      <4>2. req[s].pc \in {"supersede", "accept"}
        BY <4>1 DEF NeedsInvites
      <4>3. req[s].locks = {} /\ req[s].inv = {}
        BY <2>1, <4>2 DEF RelyOK
      <4>4. \E t \in D : s \in WaitsFor(t)
        BY <1>1 DEF Deadlock
      <4> QED
        BY <4>3, <4>4 DEF WaitsFor
    <3> QED
      BY <3>4, <3>5
  <2>3. PICK s \in D : s \in WaitsFor(r)
    BY <1>1 DEF Deadlock
  <2>4. req[r].pc = "demote" /\ req[s].pc = "demote"
    BY <2>2
  <2>5. s # r /\ req[r].from \in req[s].locks
    BY <2>3, <2>4 DEF WaitsFor, Needs, NeedsInvites
  <2>6. req[s].locks = {req[s].user}
    BY <2>1, <2>4 DEF RelyOK
  <2> QED
    BY <2>4, <2>5, <2>6
<1>2. MembershipInv => DeadlocksAreTransfers
  BY <1>1 DEF MembershipInv, DeadlocksAreTransfers
<1> QED
  BY <1>2, Invariant, PTL
=============================================================================
