-------------------------------- MODULE Access --------------------------------
(***************************************************************************)
(* Who may do what in GoShorten: accounts with their personal workspaces,  *)
(* sessions, API keys, and the gRPC calls that the interceptor authorizes  *)
(* with several statements, one after the other, while other requests      *)
(* change what it reads.                                                   *)
(*                                                                         *)
(* Ids are BIGSERIAL: a deleted row's id is not used again, and 0 is no    *)
(* row. Members change by the transactions of module Membership, which are *)
(* single steps here. A role other than viewer lets its holder write and   *)
(* is "editor". The platform role of an account is left out.               *)
(***************************************************************************)
EXTENDS Naturals, FiniteSets

CONSTANTS
    MaxUser, MaxWs, MaxSession, MaxKey,  \* bounds: the rows ever inserted
    Calls,                               \* concurrent requests
    Requests,                            \* bound: the kinds of request they make
    Faults                               \* {"db"} when statements may fail, else {}

ASSUME AccessAssumption ==
    /\ MaxUser \in Nat
    /\ MaxWs \in Nat
    /\ MaxSession \in Nat
    /\ MaxKey \in Nat

VARIABLES
    users,    \* users: status and default_workspace_id
    owner,    \* workspaces: owner_id, 0 without a row
    member,   \* memberships: the role of a user in a workspace
    session,  \* sessions: state and active_workspace_id
    token,    \* the user a session's JWT names; 0 before and after its life
    key,      \* api_keys
    next,     \* the next id of each table
    call,     \* progress and locals of each request
    had       \* history: the rights of each gRPC call's user since it began

vars == <<users, owner, member, session, token, key, next, call, had>>
tables == <<users, owner, member, session, token, key, next>>

UserIds == 1..MaxUser
WsIds == 1..MaxWs
SessionIds == 1..MaxSession
KeyIds == 1..MaxKey

-----------------------------------------------------------------------------
NoAccount == [status |-> "none", home |-> 0]
NoSession == [live |-> FALSE, user |-> 0, ws |-> 0]
NoKey == [state |-> "none", user |-> 0, ws |-> 0, parent |-> 0]
Idle == [pc |-> "idle", op |-> "none", user |-> 0, session |-> 0, key |-> 0,
         target |-> 0, ws |-> 0]
NoRights == [credential |-> FALSE, active |-> FALSE, access |-> FALSE, edit |-> FALSE]

Exists(u) == users[u].status # "none"

\* UserCanAccessWorkspace.
CanAccess(u, w) == w # 0 /\ \/ member[u][w] # "none"
                            \/ owner[w] = u
                            \/ users[u].home = w

\* The rights of a gRPC call as they are now: its session or key is good, its user
\* is active, may enter the call's workspace, and is no viewer of it.
Rights(c) ==
    LET u == call[c].user
        w == call[c].ws IN
    [credential |-> IF call[c].session # 0 THEN session[call[c].session].live
                    ELSE key[call[c].key].state = "live",
     active |-> users[u].status = "active",
     access |-> CanAccess(u, w),
     edit |-> w # 0 /\ member[u][w] # "viewer"]

\* What every step does to the history: a gRPC call has the rights it had and those
\* it has now; those in a workspace are counted since the workspace was chosen.
Observe == had' = [c \in Calls |->
    IF call'[c].op \notin {"read", "write"} THEN NoRights
    ELSE LET same == call'[c].ws = call[c].ws IN
         [credential |-> had[c].credential \/ Rights(c)'.credential,
          active |-> had[c].active \/ Rights(c)'.active,
          access |-> (same /\ had[c].access) \/ Rights(c)'.access,
          edit |-> (same /\ had[c].edit) \/ Rights(c)'.edit]]

Goto(c, pc) == call' = [call EXCEPT ![c].pc = pc]
InWorkspace(c, w, pc) == call' = [call EXCEPT ![c].ws = w, ![c].pc = pc]
End(c) == call' = [call EXCEPT ![c] = Idle]
Begin(c, r) == call[c].pc = "idle" /\ r.op \in Requests /\ call' = [call EXCEPT ![c] = r]

Init ==
    /\ users = [u \in UserIds |-> NoAccount]
    /\ owner = [w \in WsIds |-> 0]
    /\ member = [u \in UserIds |-> [w \in WsIds |-> "none"]]
    /\ session = [s \in SessionIds |-> NoSession]
    /\ token = [s \in SessionIds |-> 0]
    /\ key = [k \in KeyIds |-> NoKey]
    /\ next = [user |-> 1, ws |-> 1, session |-> 1, key |-> 1]
    /\ call = [c \in Calls |-> Idle]
    /\ had = [c \in Calls |-> NoRights]

-----------------------------------------------------------------------------
(* Accounts and workspaces. *)

\* Mutant: the workspace is given the id after its own.
CreateUserNextWs ==
    /\ next.user <= MaxUser /\ next.ws <= MaxWs
    /\ users' = [users EXCEPT ![next.user] = [status |-> "active", home |-> next.ws + 1]]
    /\ owner' = [owner EXCEPT ![next.ws] = next.user]
    /\ member' = [member EXCEPT ![next.user][next.ws] = "editor"]
    /\ next' = [next EXCEPT !.user = @ + 1, !.ws = @ + 1]
    /\ UNCHANGED <<session, token, key, call>>
    /\ Observe

\* CreateUser: the account and its personal workspace in one transaction.
CreateUser ==
    /\ next.user <= MaxUser /\ next.ws <= MaxWs
    /\ users' = [users EXCEPT ![next.user] = [status |-> "active", home |-> next.ws]]
    /\ owner' = [owner EXCEPT ![next.ws] = next.user]
    /\ member' = [member EXCEPT ![next.user][next.ws] = "editor"]
    /\ next' = [next EXCEPT !.user = @ + 1, !.ws = @ + 1]
    /\ UNCHANGED <<session, token, key, call>>
    /\ Observe

\* UpdateUser with is_active.
SetActive(u) ==
    /\ Exists(u)
    /\ users' = [users EXCEPT ![u].status = IF @ = "active" THEN "inactive" ELSE "active"]
    /\ UNCHANGED <<owner, member, session, token, key, next, call>>
    /\ Observe

\* What the foreign keys do when the users U and the workspaces W go: rows that
\* belong to them go, references to a workspace become NULL.
Cascade(U, W) ==
    /\ users' = [u \in UserIds |->
          IF u \in U THEN NoAccount
          ELSE [users[u] EXCEPT !.home = IF @ \in W THEN 0 ELSE @]]
    /\ owner' = [w \in WsIds |-> IF w \in W THEN 0 ELSE owner[w]]
    /\ member' = [u \in UserIds |-> [w \in WsIds |->
          IF u \in U \/ w \in W THEN "none" ELSE member[u][w]]]
    /\ session' = [s \in SessionIds |->
          IF session[s].user \in U THEN NoSession
          ELSE [session[s] EXCEPT !.ws = IF @ \in W THEN 0 ELSE @]]
    /\ key' = [k \in KeyIds |->
          IF key[k].user \in U \/ key[k].ws \in W THEN NoKey ELSE key[k]]
    /\ UNCHANGED <<token, next>>

\* DeleteUser: workspaces the user owns go too.
DeleteUser(u) ==
    /\ Exists(u)
    /\ Cascade({u}, {w \in WsIds : owner[w] = u})
    /\ UNCHANGED call
    /\ Observe

\* CreateWorkspace makes no membership.
CreateWorkspace(s) ==
    /\ token[s] # 0 /\ Exists(token[s])
    /\ next.ws <= MaxWs
    /\ owner' = [owner EXCEPT ![next.ws] = token[s]]
    /\ next' = [next EXCEPT !.ws = @ + 1]
    /\ UNCHANGED <<users, member, session, token, key, call>>
    /\ Observe

\* A membership is inserted, changed or removed.
SetMember(u, w) ==
    /\ Exists(u) /\ owner[w] # 0
    /\ \E role \in {"none", "viewer", "editor"} \ {member[u][w]} :
         member' = [member EXCEPT ![u][w] = role]
    /\ UNCHANGED <<users, owner, session, token, key, next, call>>
    /\ Observe

\* TransferOwnership, to a member.
TransferOwnership(u, w) ==
    /\ member[u][w] # "none" /\ owner[w] # u
    /\ owner' = [owner EXCEPT ![w] = u]
    /\ member' = [member EXCEPT ![u][w] = "editor"]
    /\ UNCHANGED <<users, session, token, key, next, call>>
    /\ Observe

\* DeleteWorkspace reads the caller's default workspace first. It has the user of
\* a token, whose session the REST handlers do not ask for.
DeleteWorkspace(c) ==
    /\ \E s \in SessionIds, w \in WsIds :
         /\ token[s] # 0
         /\ Exists(token[s]) /\ users[token[s]].home # w
         /\ Begin(c, [Idle EXCEPT !.pc = "delete", !.op = "delete", !.user = token[s],
                                  !.ws = w])
    /\ UNCHANGED tables
    /\ Observe

\* Mutant: the owner is not asked for in the DELETE.
CommitDeleteOfAny(c) ==
    /\ call[c].pc = "delete"
    /\ owner[call[c].ws] # 0
    /\ Cascade({}, {call[c].ws})
    /\ End(c)
    /\ Observe

CommitDelete(c) ==
    /\ call[c].pc = "delete"
    /\ \/ owner[call[c].ws] = call[c].user /\ Cascade({}, {call[c].ws})
       \/ owner[call[c].ws] # call[c].user /\ UNCHANGED tables
    /\ End(c)
    /\ Observe

-----------------------------------------------------------------------------
(* Sessions. *)

\* Login and OIDCCallback read an active account.
Login(c) ==
    /\ next.session + Cardinality({d \in Calls : call[d].pc = "login"}) <= MaxSession
    /\ \E u \in UserIds :
         /\ users[u].status = "active"
         /\ Begin(c, [Idle EXCEPT !.pc = "login", !.op = "login", !.user = u])
    /\ UNCHANGED tables
    /\ Observe

\* The token is handed out also when CreateSession fails.
CreateSession(c) ==
    /\ call[c].pc = "login"
    /\ \/ /\ Exists(call[c].user)
          /\ session' = [session EXCEPT ![next.session] =
                            [live |-> TRUE, user |-> call[c].user, ws |-> 0]]
       \/ /\ ~Exists(call[c].user) \/ "db" \in Faults
          /\ UNCHANGED session
    /\ token' = [token EXCEPT ![next.session] = call[c].user]
    /\ next' = [next EXCEPT !.session = @ + 1]
    /\ End(c)
    /\ UNCHANGED <<users, owner, member, key>>
    /\ Observe

\* RevokeSession: one of the caller's sessions, with the token of any of them.
RevokeSession(s, by) ==
    /\ token[by] # 0
    /\ session[s].live /\ session[s].user = token[by]
    /\ session' = [session EXCEPT ![s].live = FALSE]
    /\ UNCHANGED <<users, owner, member, token, key, next, call>>
    /\ Observe

RevokeOtherSessions(by) ==
    /\ token[by] # 0
    /\ session' = [s \in SessionIds |-> [session[s] EXCEPT
                      !.live = @ /\ (session[s].user # token[by] \/ s = by)]]
    /\ session' # session
    /\ UNCHANGED <<users, owner, member, token, key, next, call>>
    /\ Observe

\* The token's exp and the session's expires_at, which are the same but for the
\* time Login takes.
Expire(s) ==
    /\ token[s] # 0
    /\ token' = [token EXCEPT ![s] = 0]
    /\ session' = [session EXCEPT ![s].live = FALSE]
    /\ UNCHANGED <<users, owner, member, key, next, call>>
    /\ Observe

\* POST .../workspaces/switch: the check, then SetActiveWorkspace.
SwitchWorkspace(c) ==
    /\ \E s \in SessionIds, w \in WsIds :
         /\ token[s] # 0 /\ CanAccess(token[s], w)
         /\ Begin(c, [Idle EXCEPT !.pc = "switch", !.op = "switch", !.session = s, !.ws = w])
    /\ UNCHANGED tables
    /\ Observe

\* No row of the session is no error; no row of the workspace is.
SetActiveWorkspace(c) ==
    /\ call[c].pc = "switch"
    /\ \/ /\ session[call[c].session].user # 0 /\ owner[call[c].ws] # 0
          /\ session' = [session EXCEPT ![call[c].session].ws = call[c].ws]
       \/ /\ session[call[c].session].user = 0 \/ owner[call[c].ws] = 0
          /\ UNCHANGED session
    /\ End(c)
    /\ UNCHANGED <<users, owner, member, token, key, next>>
    /\ Observe

-----------------------------------------------------------------------------
(* The interceptor. *)

\* authorize with a JWT that verifies, for a method that writes or does not.
Authorize(c) ==
    /\ \E s \in SessionIds, op \in {"read", "write"} :
         /\ token[s] # 0
         /\ Begin(c, [Idle EXCEPT !.pc = "session", !.op = op, !.user = token[s],
                                  !.session = s])
    /\ UNCHANGED tables
    /\ Observe

ValidateSession(c) ==
    /\ call[c].pc = "session"
    /\ \/ session[call[c].session].live /\ Goto(c, "header")
       \/ ~session[call[c].session].live /\ End(c)
    /\ UNCHANGED tables
    /\ Observe

\* ResolveActiveWorkspace: X-Workspace-Id, any number, if the user may enter it.
ResolveHeader(c) ==
    /\ call[c].pc = "header"
    /\ \/ \E w \in WsIds : CanAccess(call[c].user, w) /\ InWorkspace(c, w, "role")
       \/ Goto(c, "stored")
    /\ UNCHANGED tables
    /\ Observe

\* The workspace the session was switched to. An error here is passed over.
ReadSessionWorkspace(c) ==
    /\ call[c].pc = "stored"
    /\ LET w == session[call[c].session].ws IN
       \/ w # 0 /\ InWorkspace(c, w, "check")
       \/ /\ w = 0 \/ "db" \in Faults
          /\ Goto(c, "default")
    /\ UNCHANGED tables
    /\ Observe

\* Mutant: what the switch checked is not checked again.
CheckSessionWorkspaceNot(c) ==
    /\ call[c].pc = "check"
    /\ Goto(c, "role")
    /\ UNCHANGED tables
    /\ Observe

CheckSessionWorkspace(c) ==
    /\ call[c].pc = "check"
    /\ Goto(c, IF CanAccess(call[c].user, call[c].ws) THEN "role" ELSE "default")
    /\ UNCHANGED tables
    /\ Observe

\* The user's default workspace; an account that is gone is an error.
ReadDefaultWorkspace(c) ==
    /\ call[c].pc = "default"
    /\ \/ Exists(call[c].user) /\ InWorkspace(c, users[call[c].user].home, "role")
       \/ ~Exists(call[c].user) /\ End(c)
    /\ UNCHANGED tables
    /\ Observe

\* ValidateAPIKey reads the key, then its user.
AuthorizeKey(c) ==
    /\ \E k \in KeyIds, op \in {"read", "write"} :
         /\ key[k].state = "live"
         /\ Begin(c, [Idle EXCEPT !.pc = "key user", !.op = op, !.user = key[k].user,
                                  !.key = k, !.ws = key[k].ws])
    /\ UNCHANGED tables
    /\ Observe

\* Mutant: the key's user need only exist.
ReadKeyUserAny(c) ==
    /\ call[c].pc = "key user"
    /\ IF Exists(call[c].user) THEN Goto(c, "role") ELSE End(c)
    /\ UNCHANGED tables
    /\ Observe

ReadKeyUser(c) ==
    /\ call[c].pc = "key user"
    /\ \/ users[call[c].user].status = "active" /\ Goto(c, "role")
       \/ users[call[c].user].status # "active" /\ End(c)
    /\ UNCHANGED tables
    /\ Observe

\* Mutant: the role is that in the default workspace.
WorkspaceRoleAtHome(c) ==
    LET w == users[call[c].user].home IN
    /\ call[c].pc = "role"
    /\ IF call[c].op = "write" /\ w # 0 /\ member[call[c].user][w] = "viewer"
       THEN End(c)
       ELSE Goto(c, "handler")
    /\ UNCHANGED tables
    /\ Observe

\* WorkspaceRole, and the stop for viewers. The second statement, which stands in
\* for a missing membership, never says viewer, so it decides nothing here.
WorkspaceRole(c) ==
    LET u == call[c].user
        w == call[c].ws IN
    /\ call[c].pc = "role"
    /\ \/ call[c].op = "read" /\ Goto(c, "handler")
       \/ call[c].op = "write" /\ w = 0 /\ Goto(c, "handler")
       \/ call[c].op = "write" /\ w # 0 /\ member[u][w] # "viewer" /\ Goto(c, "handler")
       \/ call[c].op = "write" /\ w # 0 /\ member[u][w] = "viewer" /\ End(c)
    /\ UNCHANGED tables
    /\ Observe

-----------------------------------------------------------------------------
(* The handlers. *)

\* Reads, and writes of URLs and tags: nothing here changes.
UseWorkspace(c) ==
    /\ call[c].pc = "handler"
    /\ End(c)
    /\ UNCHANGED tables
    /\ Observe

Writes(c) == call[c].pc = "handler" /\ call[c].op = "write"

\* The bound: an id is left for the key that c and each other roll insert.
MoreKeys == next.key + Cardinality({d \in Calls : call[d].target # 0}) <= MaxKey

\* INSERT INTO api_keys; the foreign keys want the user and the workspace.
BothExist(u, w) == Exists(u) /\ w # 0 /\ owner[w] # 0
InsertKey(u, w, parent) ==
    \/ /\ BothExist(u, w)
       /\ key' = [key EXCEPT ![next.key] = [state |-> "live", user |-> u, ws |-> w,
                                            parent |-> parent]]
       /\ next' = [next EXCEPT !.key = @ + 1]
    \/ /\ ~BothExist(u, w) \/ "db" \in Faults
       /\ UNCHANGED <<key, next>>

CreateAPIKey(c) ==
    /\ Writes(c) /\ MoreKeys
    /\ InsertKey(call[c].user, call[c].ws, 0)
    /\ End(c)
    /\ UNCHANGED <<users, owner, member, session, token>>
    /\ Observe

\* RevokeAPIKey, of a key of the caller's.
RevokeAPIKey(c) ==
    /\ Writes(c)
    /\ \E k \in KeyIds : /\ key[k].user = call[c].user
                         /\ key' = [key EXCEPT ![k].state = "revoked"]
    /\ End(c)
    /\ UNCHANGED <<users, owner, member, session, token, next>>
    /\ Observe

\* RollAPIKey: three statements of their own. The SELECT keeps the key's workspace.
RollAPIKey(c) ==
    /\ Writes(c) /\ MoreKeys
    /\ \E k \in KeyIds :
         /\ key[k].state = "live" /\ key[k].user = call[c].user
         /\ call' = [call EXCEPT ![c].pc = "roll", ![c].target = k, ![c].ws = key[k].ws]
    /\ UNCHANGED tables
    /\ Observe

\* Mutant: the UPDATE's error is not looked at.
RollRevokeUnchecked(c) ==
    /\ call[c].pc = "roll"
    /\ key' \in {key, [key EXCEPT ![call[c].target].state = IF @ = "none" THEN @ ELSE "revoked"]}
    /\ Goto(c, "replace")
    /\ UNCHANGED <<users, owner, member, session, token, next>>
    /\ Observe

RollRevoke(c) ==
    /\ call[c].pc = "roll"
    /\ key' = [key EXCEPT ![call[c].target].state = IF @ = "none" THEN @ ELSE "revoked"]
    /\ Goto(c, "replace")
    /\ UNCHANGED <<users, owner, member, session, token, next>>
    /\ Observe

RollReplace(c) ==
    /\ call[c].pc = "replace"
    /\ InsertKey(call[c].user, call[c].ws, call[c].target)
    /\ End(c)
    /\ UNCHANGED <<users, owner, member, session, token>>
    /\ Observe

\* A statement of a request fails, and the request with it.
Fail(c) ==
    /\ "db" \in Faults
    /\ call[c].pc \notin {"idle", "login"}
    /\ End(c)
    /\ UNCHANGED tables
    /\ Observe

Interceptor(c) == \/ Authorize(c) \/ ValidateSession(c) \/ ResolveHeader(c)
                  \/ ReadSessionWorkspace(c) \/ CheckSessionWorkspace(c)
                  \/ ReadDefaultWorkspace(c) \/ AuthorizeKey(c) \/ ReadKeyUser(c)
                  \/ WorkspaceRole(c)
Handler(c) == \/ UseWorkspace(c) \/ CreateAPIKey(c) \/ RevokeAPIKey(c)
              \/ RollAPIKey(c) \/ RollRevoke(c) \/ RollReplace(c) \/ Fail(c)
Rest(c) == \/ Login(c) \/ CreateSession(c) \/ SwitchWorkspace(c) \/ SetActiveWorkspace(c)
           \/ DeleteWorkspace(c) \/ CommitDelete(c)

Next == \/ CreateUser
        \/ \E u \in UserIds : SetActive(u) \/ DeleteUser(u)
        \/ \E u \in UserIds, w \in WsIds : SetMember(u, w) \/ TransferOwnership(u, w)
        \/ \E s \in SessionIds : CreateWorkspace(s) \/ RevokeOtherSessions(s) \/ Expire(s)
        \/ \E s, by \in SessionIds : RevokeSession(s, by)
        \/ \E c \in Calls : Interceptor(c) \/ Handler(c) \/ Rest(c)

Spec == Init /\ [][Next]_vars

-----------------------------------------------------------------------------
(* Properties. *)

CallType == [pc : {"idle", "login", "switch", "delete", "session", "header", "stored",
                   "check", "default", "key user", "role", "handler", "roll", "replace"},
             op : {"none", "read", "write", "login", "switch", "delete"},
             user : 0..MaxUser, session : 0..MaxSession, key : 0..MaxKey,
             target : 0..MaxKey, ws : 0..MaxWs]

\* Every variable keeps its type.
TypeOK ==
    /\ users \in [UserIds -> [status : {"none", "active", "inactive"}, home : 0..MaxWs]]
    /\ owner \in [WsIds -> 0..MaxUser]
    /\ member \in [UserIds -> [WsIds -> {"none", "viewer", "editor"}]]
    /\ session \in [SessionIds -> [live : BOOLEAN, user : 0..MaxUser, ws : 0..MaxWs]]
    /\ token \in [SessionIds -> 0..MaxUser]
    /\ key \in [KeyIds -> [state : {"none", "live", "revoked"}, user : 0..MaxUser,
                           ws : 0..MaxWs, parent : 0..MaxKey]]
    /\ next \in [user : 1..MaxUser + 1, ws : 1..MaxWs + 1, session : 1..MaxSession + 1,
                 key : 1..MaxKey + 1]
    /\ call \in [Calls -> CallType]
    /\ had \in [Calls -> [credential : BOOLEAN, active : BOOLEAN, access : BOOLEAN,
                          edit : BOOLEAN]]

\* A call reaches its handler with a workspace only if, during the call, its
\* session was live and the user could enter that workspace, wherever the
\* interceptor got it from; with a key, only if the key was live and its user
\* active. These are moments of the call, and need not be the same moment.
RightsHeld ==
    \A c \in Calls : call[c].pc = "handler" =>
        /\ had[c].credential
        /\ call[c].key # 0 => had[c].active
        /\ call[c].key = 0 /\ call[c].ws # 0 => had[c].access

\* A viewer does not write: a writing call reaches its handler only if its user
\* was not a viewer of the call's workspace at some moment during it.
ViewerNeverWrites ==
    \A c \in Calls : Writes(c) /\ call[c].ws # 0 => had[c].edit

\* A rolled key does not work beside its replacement, nor ever again, also when
\* the key is rolled by two calls at once or a statement of the roll fails.
RolledKeyIsDead ==
    \A k \in KeyIds : key[k].parent # 0 => key[key[k].parent].state # "live"

\* Nobody deletes their own personal workspace, also when its ownership goes
\* forth and back during the request. Only with the account it goes.
PersonalWorkspaceKept ==
    [][\A w \in WsIds : owner[w] # 0 /\ owner'[w] = 0 /\ users'[owner[w]].status # "none"
        => users[owner[w]].home # w]_vars

(* Claims of the repository that the code does not keep. *)

\* No account is ever without a workspace.
AccountHasWorkspace == \A u \in UserIds : Exists(u) => users[u].home # 0
=============================================================================
