------------------------------ MODULE Membership ------------------------------
(***************************************************************************)
(* One workspace of GoShorten: its members and their roles, its owner_id,  *)
(* and its invitations, changed by concurrent REST requests through        *)
(* AuthStore.                                                              *)
(*                                                                         *)
(* The transactions run at Postgres's default level, READ COMMITTED: each  *)
(* statement sees what is committed when it starts, the rows a statement   *)
(* locks stay locked until the transaction ends, and a statement that      *)
(* meets a locked row waits and then looks at the row again. A statement   *)
(* is a step; the last write of a transaction and its commit are one step, *)
(* which is when others see its writes.                                    *)
(***************************************************************************)
EXTENDS Naturals, FiniteSets

CONSTANTS
    Users,     \* accounts; a membership row is named by its user
    Creator,   \* who created the workspace
    Origins,   \* how: "signup" (CreateUser) or "create" (CreateWorkspace)
    Operators, \* the users that are platform admins
    Granted,   \* roles that invitations and role changes give
    Invites,   \* bound: the invitations that may be created
    Requests,  \* concurrent requests
    Faults     \* {"db"} when statements may fail, else {}

Roles == {"viewer", "member", "admin", "owner"}

ASSUME MembershipAssumption ==
    /\ IsFiniteSet(Users)
    /\ Creator \in Users
    /\ Operators \subseteq Users
    /\ Origins \subseteq {"signup", "create"}
    /\ Granted \subseteq Roles \ {"owner"}

VARIABLES
    account,\* users: who has an account
    role,   \* memberships: the role of each user, "none" without a row
    owner,  \* workspaces.owner_id
    invite, \* invitations
    req,    \* progress and locals of each request
    fresh   \* history: requests whose count of the owners still is right

vars == <<account, role, owner, invite, req, fresh>>

-----------------------------------------------------------------------------
NoInvite == [user |-> Creator, role |-> "none", status |-> "none", past |-> FALSE]
Idle == [pc |-> "idle", op |-> "none", user |-> Creator, new |-> "none",
         from |-> Creator, locks |-> {}, inv |-> {},
         token |-> {}]  \* the invitation a sign-up has read, while its token is the same

Owners == {u \in Users : role[u] = "owner"}
Pending(u) == {i \in Invites : invite[i].user = u /\ invite[i].status = "pending"}

InviteFree(i) == \A q \in Requests : i \notin req[q].inv

\* Mutant: countOwners reads the owners FOR UPDATE.
NeedsOwners(r) ==
    CASE req[r].pc \in {"lock", "join"} -> {req[r].user}
      [] req[r].pc = "demote" -> {req[r].from} \cap Owners
      [] req[r].pc = "count" -> Owners
      [] OTHER -> {}

\* The memberships and the invitations that the present statement of r locks. The UPDATE
\* that demotes asks for an owner's row; those of the same transaction find theirs locked.
Needs(r) ==
    CASE req[r].pc \in {"lock", "join"} -> {req[r].user}
      [] req[r].pc = "demote" -> {req[r].from} \cap Owners
      [] OTHER -> {}
NeedsInvites(r) ==
    CASE req[r].pc = "supersede" -> Pending(req[r].user)
      [] req[r].pc = "accept" -> req[r].token
      [] OTHER -> {}

\* Who has them.
WaitsFor(r) == {s \in Requests \ {r} : \/ Needs(r) \cap req[s].locks # {}
                                       \/ NeedsInvites(r) \cap req[s].inv # {}}
MayRun(r) == WaitsFor(r) = {}

Goto(r, pc) == req' = [req EXCEPT ![r].pc = pc]
\* The request ends; its transaction commits or rolls back and frees its locks.
End(r) == req' = [req EXCEPT ![r] = Idle]

\* A commit of r: counts of the owners are right only while the owners stay.
Recount(r) == fresh' = IF Owners' = Owners THEN fresh \ {r} ELSE {}

\* WorkspaceRole: the membership's role, or the owner without a membership.
WorkspaceRole(u) == IF role[u] = "none" /\ owner = u THEN "owner" ELSE role[u]

\* requireWorkspaceManager: an operator is an admin where it has no role.
MayManage(u) == \/ WorkspaceRole(u) \in {"admin", "owner"}
                \/ u \in Operators /\ WorkspaceRole(u) = "none"

Init ==
    /\ \E origin \in Origins, f \in [Users \ {Creator} -> Granted \cup {"none"}] :
         \/ /\ origin = "signup"
            /\ role = [u \in Users |-> IF u = Creator THEN "owner" ELSE f[u]]
         \/ /\ origin = "create"
            /\ role = [u \in Users |-> "none"]
    /\ account \in {S \in SUBSET Users :
                       /\ {Creator} \cup Operators \subseteq S
                       /\ \A u \in Users : role[u] # "none" => u \in S}
    /\ owner = Creator
    /\ invite = [i \in Invites |-> NoInvite]
    /\ req = [r \in Requests |-> Idle]
    /\ fresh = {}

-----------------------------------------------------------------------------
(* Requests that change members. The handlers check the caller first. *)

\* Mutant: the handler lets the role owner through.
PatchMemberAnyRole(r) ==
    /\ req[r].pc = "idle"
    /\ \E by \in Users : MayManage(by)
    /\ \E u \in Users, new \in Granted \cup {"owner"} :
         req' = [req EXCEPT ![r] = [Idle EXCEPT !.pc = "lock", !.op = "update", !.user = u,
                                                !.new = new]]
    /\ UNCHANGED <<account, role, owner, invite, fresh>>

\* PATCH .../members/{userId}: the handler rejects the role owner.
PatchMember(r) ==
    /\ req[r].pc = "idle"
    /\ \E by \in Users : MayManage(by)
    /\ \E u \in Users, new \in Granted :
         req' = [req EXCEPT ![r] = [Idle EXCEPT !.pc = "lock", !.op = "update", !.user = u,
                                                !.new = new]]
    /\ UNCHANGED <<account, role, owner, invite, fresh>>

\* DELETE .../members/{userId}: a manager, or the member itself.
DeleteMember(r) ==
    /\ req[r].pc = "idle"
    /\ \E u \in Users :
         req' = [req EXCEPT ![r] = [Idle EXCEPT !.pc = "lock", !.op = "remove", !.user = u]]
    /\ UNCHANGED <<account, role, owner, invite, fresh>>

\* POST .../transfer-ownership: owner_id is read here, before the transaction.
PostTransfer(r) ==
    /\ req[r].pc = "idle"
    /\ \E by \in Users : by \in Operators \/ WorkspaceRole(by) = "owner"
    /\ \E u \in Users \ {owner} :
         req' = [req EXCEPT ![r] = [Idle EXCEPT !.pc = "lock", !.op = "transfer", !.user = u,
                                                !.from = owner]]
    /\ UNCHANGED <<account, role, owner, invite, fresh>>

\* Mutant: the row is read without FOR UPDATE.
LockTargetNot(r) ==
    /\ req[r].pc = "lock"
    /\ LET u == req[r].user
           lock(pc) == req' = [req EXCEPT ![r].pc = pc] IN
       \/ role[u] = "none" /\ End(r)
       \/ req[r].op = "update" /\ role[u] = req[r].new /\ End(r)
       \/ req[r].op = "update" /\ role[u] \notin {"none", "owner", req[r].new} /\ lock("write")
       \/ req[r].op = "remove" /\ role[u] \notin {"none", "owner"} /\ lock("write")
       \/ req[r].op \in {"update", "remove"} /\ role[u] = "owner" /\ lock("count")
       \/ req[r].op = "transfer" /\ role[u] # "none" /\ lock("demote")
    /\ UNCHANGED <<account, role, owner, invite, fresh>>

\* SELECT role ... FOR UPDATE, the first statement of the three transactions.
LockTarget(r) ==
    /\ req[r].pc = "lock"
    /\ MayRun(r)
    /\ LET u == req[r].user
           lock(pc) == req' = [req EXCEPT ![r].pc = pc, ![r].locks = {u}] IN
       \/ role[u] = "none" /\ End(r)
       \/ req[r].op = "update" /\ role[u] = req[r].new /\ End(r)
       \/ req[r].op = "update" /\ role[u] \notin {"none", "owner", req[r].new} /\ lock("write")
       \/ req[r].op = "remove" /\ role[u] \notin {"none", "owner"} /\ lock("write")
       \/ req[r].op \in {"update", "remove"} /\ role[u] = "owner" /\ lock("count")
       \/ req[r].op = "transfer" /\ role[u] # "none" /\ lock("demote")
    /\ UNCHANGED <<account, role, owner, invite, fresh>>

\* Mutant: the owner that is about to go is taken for one that remains.
CountOwnersOffByOne(r) ==
    /\ req[r].pc = "count"
    /\ \/ Cardinality(Owners) < 1 /\ End(r) /\ UNCHANGED fresh
       \/ Cardinality(Owners) >= 1 /\ Goto(r, "write") /\ fresh' = fresh \cup {r}
    /\ UNCHANGED <<account, role, owner, invite>>

\* countOwners: it locks nothing. With one owner the request is refused.
CountOwners(r) ==
    /\ req[r].pc = "count"
    /\ \/ Cardinality(Owners) <= 1 /\ End(r) /\ UNCHANGED fresh
       \/ Cardinality(Owners) > 1 /\ Goto(r, "write") /\ fresh' = fresh \cup {r}
    /\ UNCHANGED <<account, role, owner, invite>>

\* The UPDATE or the DELETE, and the commit. A role change to owner, which would
\* touch owner_id, is not requested by any handler.
CommitMember(r) ==
    /\ req[r].pc = "write"
    /\ role' = [role EXCEPT ![req[r].user] =
                   IF req[r].op = "update" /\ @ # "none" THEN req[r].new ELSE "none"]
    /\ End(r)
    /\ Recount(r)
    /\ UNCHANGED <<account, owner, invite>>

\* The transfer's second UPDATE: the row of the owner that was read, if that one
\* still is an owner, is to be demoted, and is locked.
DemoteOwner(r) ==
    /\ req[r].pc = "demote"
    /\ MayRun(r)
    /\ \/ role[req[r].from] # "owner" /\ Goto(r, "hand over")
       \/ /\ role[req[r].from] = "owner"
          /\ req' = [req EXCEPT ![r].pc = "hand over", ![r].locks = @ \cup {req[r].from}]
    /\ UNCHANGED <<account, role, owner, invite, fresh>>

\* The UPDATE of owner_id, and the commit of the three writes.
CommitTransfer(r) ==
    /\ req[r].pc = "hand over"
    /\ role' = [u \in Users |->
                   IF u = req[r].user /\ role[u] # "none" THEN "owner"
                   ELSE IF u = req[r].from /\ u \in req[r].locks THEN "admin" ELSE role[u]]
    /\ owner' = req[r].user
    /\ End(r)
    /\ Recount(r)
    /\ UNCHANGED <<account, invite>>

-----------------------------------------------------------------------------
(* Invitations. *)

\* The bound: there is an unused invitation for this request too.
Unused == {i \in Invites : invite[i].status = "none"}
MoreInvites ==
    Cardinality(Unused) > Cardinality({r \in Requests : req[r].op = "invite"})

\* POST .../invitations, up to CreateInvitation's check of the members.
PostInvitation(r) ==
    /\ req[r].pc = "idle"
    /\ MoreInvites
    /\ \E by \in Users : MayManage(by)
    /\ \E u \in Users, new \in Granted :
         /\ role[u] = "none"
         /\ req' = [req EXCEPT ![r] = [Idle EXCEPT !.pc = "supersede", !.op = "invite",
                                                   !.user = u, !.new = new]]
    /\ UNCHANGED <<account, role, owner, invite, fresh>>

\* CreateInvitation revokes the user's pending invitation.
Supersede(r) ==
    /\ req[r].pc = "supersede"
    /\ MayRun(r)
    /\ invite' = [i \in Invites |-> IF i \in Pending(req[r].user)
                                    THEN [invite[i] EXCEPT !.status = "revoked"]
                                    ELSE invite[i]]
    /\ Goto(r, "insert")
    /\ UNCHANGED <<account, role, owner, fresh>>

\* CreateInvitation inserts the new one, unless the unique index finds another
\* pending one by now.
InsertInvitation(r) ==
    /\ req[r].pc = "insert"
    /\ \/ Pending(req[r].user) # {} /\ UNCHANGED invite
       \/ /\ Pending(req[r].user) = {}
          /\ \E i \in Unused :
               invite' = [invite EXCEPT ![i] = [user |-> req[r].user, role |-> req[r].new,
                                                status |-> "pending", past |-> FALSE]]
    /\ End(r)
    /\ UNCHANGED <<account, role, owner, fresh>>

\* Mutant: the status is not asked for.
ResendAny(i) ==
    /\ invite[i].status # "none"
    /\ InviteFree(i)
    /\ Pending(invite[i].user) \subseteq {i}
    /\ invite' = [invite EXCEPT ![i].status = "pending", ![i].past = FALSE]
    /\ UNCHANGED <<account, role, owner, req, fresh>>

\* ResendInvitation gives a new token, and revives an expired invitation, if the unique
\* index lets it.
ResendInvitation(i) ==
    /\ \E by \in Users : MayManage(by)
    /\ invite[i].status \in {"pending", "expired"}
    /\ InviteFree(i)
    /\ Pending(invite[i].user) \subseteq {i}
    /\ invite' = [invite EXCEPT ![i].status = "pending", ![i].past = FALSE]
    /\ req' = [r \in Requests |-> [req[r] EXCEPT !.token = @ \ {i}]]
    /\ UNCHANGED <<account, role, owner, fresh>>

RevokeInvitation(i) ==
    /\ \E by \in Users : MayManage(by)
    /\ invite[i].status = "pending"
    /\ InviteFree(i)
    /\ invite' = [invite EXCEPT ![i].status = "revoked"]
    /\ UNCHANGED <<account, role, owner, req, fresh>>

\* expires_at passes.
ExpireInvitation(i) ==
    /\ invite[i].status = "pending" /\ ~invite[i].past
    /\ invite' = [invite EXCEPT ![i].past = TRUE]
    /\ UNCHANGED <<account, role, owner, req, fresh>>

\* The hourly sweep.
SweepExpiredInvitations ==
    LET due == {i \in Invites : invite[i].status = "pending" /\ invite[i].past} IN
    /\ due # {}
    /\ \A i \in due : InviteFree(i)
    /\ invite' = [i \in Invites |-> IF i \in due THEN [invite[i] EXCEPT !.status = "expired"]
                                    ELSE invite[i]]
    /\ UNCHANGED <<account, role, owner, req, fresh>>

\* AcceptInvitation of a user who is signed in: SELECT ... FOR UPDATE by the token, and
\* the checks.
AcceptInvitation(r) ==
    /\ req[r].pc = "idle"
    /\ \E i \in Invites :
         /\ invite[i].user \in account
         /\ invite[i].status = "pending" /\ ~invite[i].past
         /\ InviteFree(i)
         /\ req' = [req EXCEPT ![r] = [Idle EXCEPT !.pc = "join", !.op = "accept",
                       !.user = invite[i].user, !.new = invite[i].role, !.inv = {i}]]
    /\ UNCHANGED <<account, role, owner, invite, fresh>>

\* The upsert of the membership, which overwrites the role of a member; the
\* invitation is marked, and the transaction commits.
CommitAccept(r) ==
    /\ req[r].pc = "join"
    /\ MayRun(r)
    /\ role' = [role EXCEPT ![req[r].user] = req[r].new]
    /\ invite' = [i \in Invites |-> IF i \in req[r].inv
                                    THEN [invite[i] EXCEPT !.status = "accepted"]
                                    ELSE invite[i]]
    /\ End(r)
    /\ Recount(r)
    /\ UNCHANGED <<account, owner>>

\* POST /invitations/{token}/accept without a sign-in: the invitation is good and its
\* address has no account.
PostSignUp(r) ==
    /\ req[r].pc = "idle"
    /\ \E i \in Invites :
         /\ invite[i].status = "pending" /\ ~invite[i].past
         /\ invite[i].user \notin account
         /\ req' = [req EXCEPT ![r] = [Idle EXCEPT !.pc = "register", !.op = "accept",
                                                   !.user = invite[i].user, !.token = {i}]]
    /\ UNCHANGED <<account, role, owner, invite, fresh>>

\* CreateUser: the address is unique.
RegisterAccount(r) ==
    /\ req[r].pc = "register"
    /\ \/ req[r].user \in account /\ End(r) /\ UNCHANGED account
       \/ /\ req[r].user \notin account
          /\ account' = account \cup {req[r].user}
          /\ Goto(r, "accept")
    /\ UNCHANGED <<role, owner, invite, fresh>>

\* Mutant: the invitation is taken to be as it was read before the account was made.
AcceptSignUpUnchecked(r) ==
    /\ req[r].pc = "accept"
    /\ \/ req[r].token = {} /\ End(r)
       \/ \E i \in req[r].token :
            /\ InviteFree(i)
            /\ req' = [req EXCEPT ![r].pc = "join", ![r].new = invite[i].role, ![r].inv = {i}]
    /\ UNCHANGED <<account, role, owner, invite, fresh>>

\* AcceptInvitation for the new account, by the token that was read before it was made.
\* When it fails the account stays.
AcceptSignUp(r) ==
    /\ req[r].pc = "accept"
    /\ MayRun(r)
    /\ \/ req[r].token = {} /\ End(r)
       \/ \E i \in req[r].token :
            IF invite[i].status = "pending" /\ ~invite[i].past
            THEN req' = [req EXCEPT ![r].pc = "join", ![r].new = invite[i].role, ![r].inv = {i}]
            ELSE End(r)
    /\ UNCHANGED <<account, role, owner, invite, fresh>>

\* Accounts are also made by admins and by sign-ins at a provider.
CreateUser(u) ==
    /\ u \notin account
    /\ account' = account \cup {u}
    /\ UNCHANGED <<role, owner, invite, req, fresh>>

\* A statement fails, or the request is chosen to break a deadlock: rollback.
Fail(r) ==
    /\ "db" \in Faults
    /\ req[r].pc # "idle"
    /\ End(r)
    /\ fresh' = fresh \ {r}
    /\ UNCHANGED <<account, role, owner, invite>>

Member(r) == \/ PatchMember(r) \/ DeleteMember(r) \/ PostTransfer(r) \/ LockTarget(r)
             \/ CountOwners(r) \/ CommitMember(r) \/ DemoteOwner(r) \/ CommitTransfer(r)
Invitation(r) == \/ PostInvitation(r) \/ Supersede(r) \/ InsertInvitation(r)
                 \/ AcceptInvitation(r) \/ CommitAccept(r)
                 \/ PostSignUp(r) \/ RegisterAccount(r) \/ AcceptSignUp(r)

Next == \/ \E r \in Requests : Member(r) \/ Invitation(r) \/ Fail(r)
        \/ \E i \in Invites : \/ ResendInvitation(i) \/ RevokeInvitation(i)
                              \/ ExpireInvitation(i)
        \/ SweepExpiredInvitations
        \/ \E u \in Users : CreateUser(u)

Spec == Init /\ [][Next]_vars

-----------------------------------------------------------------------------
(* Properties. *)

InviteType == [user : Users, role : Granted \cup {"none"},
               status : {"none", "pending", "accepted", "revoked", "expired"},
               past : BOOLEAN]
RequestType == [pc : {"idle", "lock", "count", "write", "demote", "hand over",
                      "supersede", "insert", "register", "accept", "join"},
                op : {"none", "update", "remove", "transfer", "invite", "accept"},
                user : Users, new : Granted \cup {"none"}, from : Users,
                locks : SUBSET Users, inv : SUBSET Invites, token : SUBSET Invites]

\* Every variable keeps its type: no role or status the schema's CHECKs reject, no
\* member or owner without an account.
TypeOK ==
    /\ role \in [Users -> Roles \cup {"none"}]
    /\ {owner} \cup {u \in Users : role[u] # "none"} \subseteq account
    /\ account \subseteq Users
    /\ owner \in Users
    /\ invite \in [Invites -> InviteType]
    /\ req \in [Requests -> RequestType]
    /\ fresh \subseteq Requests

\* The commit of r's transaction.
Commits(r, pc) == req[r].pc = pc /\ req'[r].pc = "idle" /\ role' # role

\* Removing or demoting a member never takes away the last owner, if the owners
\* are still those that were counted: the guard of UpdateMemberRole and
\* RemoveMember fails only when owners change between the count and the commit.
RemovalKeepsOwner == [][\A r \in fresh : Commits(r, "write") => Owners' # {}]_vars

\* A transfer hands owner_id to a user who is an owner from then on, also when the
\* user leaves or is removed while the transfer is in progress.
TransferToOwner == [][owner' # owner => role'[owner'] = "owner"]_vars

\* An acceptance gives the role of an invitation that is pending when it commits and
\* used up by it, however it races with other acceptances, revocations, resends and the
\* sweep, also when an account had to be made between the handler's look at the
\* invitation and the acceptance.
InvitationUsedOnce ==
    [][\A r \in Requests : Commits(r, "join") =>
        \E i \in Invites : /\ invite[i].status = "pending"
                           /\ invite'[i].status = "accepted"
                           /\ role'[invite[i].user] = invite[i].role]_vars

\* An invitation that was accepted or revoked stays so.
ResolvedIsFinal ==
    [][\A i \in Invites : invite[i].status \in {"accepted", "revoked"}
                              => invite'[i].status = invite[i].status]_vars

\* A deadlock: everyone in D waits for one of D and is waited for by one of D.
Deadlock(D) == \A r \in D : WaitsFor(r) \cap D # {} /\ \E s \in D : r \in WaitsFor(s)

\* Removals, role changes, invitations and acceptances wait for each other's rows but
\* never in a circle: a deadlock consists of transfers, each about to demote the very
\* user another one of them promotes (membership.go locks the new owner's row first).
DeadlocksAreTransfers ==
    \A D \in SUBSET Requests : Deadlock(D) =>
        \A r \in D : /\ req[r].pc = "demote"
                     /\ \E s \in D \ {r} : req[s].user = req[r].from

(* Claims of the repository that the code does not keep. *)

\* A workspace has at least one owner.
AtLeastOneOwner == Owners # {}
=============================================================================
