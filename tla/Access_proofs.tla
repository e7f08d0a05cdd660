---------------------------- MODULE Access_proofs ----------------------------
(***************************************************************************)
(* Proofs about Access, for any number of accounts, workspaces, sessions,  *)
(* keys and concurrent requests, and with or without faults.               *)
(***************************************************************************)
EXTENDS Access, FiniteSetTheorems, TLAPS

GrpcPcs == {"session", "header", "stored", "check", "default", "key user", "role", "handler",
            "roll", "replace"}
SessionPcs == {"session", "header", "stored", "check", "default"}
Logins == {c \in Calls : call[c].pc = "login"}
Rolls == {c \in Calls : call[c].target # 0}

-----------------------------------------------------------------------------
(* The invariants. *)

\* What the locals of a request hold, by where it is.
CallOK(r) ==
    /\ r.op \in {"read", "write"} <=> r.pc \in GrpcPcs
    /\ r.pc \in GrpcPcs => r.user # 0 /\ (r.session # 0 <=> r.key = 0)
    /\ r.pc \in SessionPcs \cup {"switch"} => r.session # 0
    /\ r.pc = "key user" => r.key # 0
    /\ r.pc \in {"login", "delete"} => r.user # 0
    /\ r.pc \in {"switch", "check", "delete"} => r.ws # 0
    /\ r.target # 0 <=> r.pc \in {"roll", "replace"}
CallInv == \A c \in Calls : CallOK(call[c])

\* An id is left for each row that a request is about to insert.
BoundInv ==
    /\ IsFiniteSet(Logins) /\ next.session + Cardinality(Logins) <= MaxSession + 1
    /\ IsFiniteSet(Rolls) /\ next.key + Cardinality(Rolls) <= MaxKey + 1

\* A key's parent was inserted before it and is not live, nor is one that a roll has
\* revoked and not yet replaced.
KeyInv ==
    /\ \A k \in KeyIds :
         /\ k >= next.key => key[k] = NoKey
         /\ key[k].state = "live" => key[k].user # 0
         /\ key[k].parent < next.key
         /\ key[k].parent # 0 => key[key[k].parent].state # "live"
    /\ \A c \in Calls :
         /\ call[c].target < next.key
         /\ call[c].pc = "replace" => key[call[c].target].state # "live"

\* The rights a gRPC call had, by how far the interceptor has come with it.
HistOK(r, h) ==
    /\ r.pc \in {"header", "stored", "check", "default", "key user", "role", "handler"}
           => h.credential
    /\ r.pc \in {"role", "handler"} /\ r.key # 0 => h.active
    /\ r.pc \in {"role", "handler"} /\ r.key = 0 /\ r.ws # 0 => h.access
    /\ r.pc = "handler" /\ r.op = "write" /\ r.ws # 0 => h.edit
HistInv == \A c \in Calls : HistOK(call[c], had[c])

\* The workspace a request is about to delete is not its user's own: a home is only
\* given to a new account.
HomeInv ==
    /\ \A u \in UserIds : u >= next.user => users[u] = NoAccount
    /\ \A c \in Calls : call[c].pc = "delete" => /\ call[c].user < next.user
                                                 /\ users[call[c].user].home # call[c].ws

AccessInv == TypeOK /\ CallInv /\ BoundInv /\ KeyInv /\ HistInv /\ HomeInv

-----------------------------------------------------------------------------
(* Type correctness. *)

Pcs == {"idle", "login", "switch", "delete", "session", "header", "stored", "check",
        "default", "key user", "role", "handler", "roll", "replace"}

UserType == [status : {"none", "active", "inactive"}, home : 0..MaxWs]
SessionType == [live : BOOLEAN, user : 0..MaxUser, ws : 0..MaxWs]
KeyType == [state : {"none", "live", "revoked"}, user : 0..MaxUser, ws : 0..MaxWs,
            parent : 0..MaxKey]

LEMMA RecordTypes ==
    /\ NoAccount \in UserType /\ NoSession \in SessionType /\ NoKey \in KeyType
    /\ Idle \in CallType /\ CallOK(Idle)
    /\ MaxUser \in Nat /\ MaxWs \in Nat /\ MaxSession \in Nat /\ MaxKey \in Nat
BY AccessAssumption
DEF NoAccount, NoSession, NoKey, Idle, UserType, SessionType, KeyType, CallType, CallOK, GrpcPcs,
    SessionPcs

LEMMA Ranges ==
    /\ 0 \in 0..MaxUser /\ 0 \in 0..MaxWs /\ 0 \in 0..MaxSession /\ 0 \in 0..MaxKey
    /\ UserIds = 0..MaxUser \ {0} /\ WsIds = 0..MaxWs \ {0}
    /\ SessionIds = 0..MaxSession \ {0} /\ KeyIds = 0..MaxKey \ {0}
    /\ KeyIds \subseteq Nat /\ UserIds \subseteq Nat
BY RecordTypes DEF UserIds, WsIds, SessionIds, KeyIds

\* A request goes on alone, keeping its type and what its locals hold.
OneCall(c, r) == call' = [call EXCEPT ![c] = r]

LEMMA OneCallStep ==
    ASSUME call \in [Calls -> CallType], CallInv, NEW c \in Calls,
           NEW r \in CallType, OneCall(c, r), CallOK(r)
    PROVE  call' \in [Calls -> CallType] /\ CallInv'
BY DEF OneCall, CallInv

\* Where a request begins, and where it moves.
LEMMA Starts ==
    ASSUME TypeOK, NEW c \in Calls
    PROVE  /\ Login(c) => call'[c].pc = "login"
           /\ SwitchWorkspace(c) => call'[c].pc = "switch"
           /\ DeleteWorkspace(c) => call'[c].pc = "delete"
           /\ Authorize(c) => call'[c].pc = "session"
           /\ AuthorizeKey(c) => call'[c].pc = "key user"
           /\ RollAPIKey(c) => call'[c].pc = "roll"
           /\ End(c) => call'[c] = Idle
           /\ \A pc : Goto(c, pc) => call'[c] = [call[c] EXCEPT !.pc = pc]
<1>1. call \in [Calls -> CallType] /\ call[c] \in CallType
  BY DEF TypeOK
<1>2. ASSUME NEW r, Begin(c, r)
      PROVE  call'[c] = r
  BY <1>1, <1>2 DEF Begin
<1>3. Login(c) => call'[c].pc = "login"
  BY <1>2 DEF Login, Idle
<1>4. SwitchWorkspace(c) => call'[c].pc = "switch"
  BY <1>2 DEF SwitchWorkspace, Idle
<1>5. DeleteWorkspace(c) => call'[c].pc = "delete"
  BY <1>2 DEF DeleteWorkspace, Idle
<1>6. Authorize(c) => call'[c].pc = "session"
  BY <1>2 DEF Authorize, Idle
<1>7. AuthorizeKey(c) => call'[c].pc = "key user"
  BY <1>2 DEF AuthorizeKey, Idle
<1>8. ASSUME RollAPIKey(c)
      PROVE  call'[c].pc = "roll"
  <2>1. PICK k \in KeyIds :
          call' = [call EXCEPT ![c].pc = "roll", ![c].target = k, ![c].ws = key[k].ws]
    BY <1>8 DEF RollAPIKey
  <2>2. call'[c] = [call[c] EXCEPT !.pc = "roll", !.target = k, !.ws = key[k].ws]
    BY <1>1, <2>1
  <2> QED
    BY <1>1, <2>2 DEF CallType
<1>9. End(c) => call'[c] = Idle
  BY <1>1 DEF End
<1>10. \A pc : Goto(c, pc) => call'[c] = [call[c] EXCEPT !.pc = pc]
  BY <1>1 DEF Goto
<1> QED
  BY <1>3, <1>4, <1>5, <1>6, <1>7, <1>8, <1>9, <1>10

\* A request that begins.
LEMMA BeginStep ==
    ASSUME TypeOK, CallInv, KeyInv, NEW c \in Calls,
           \/ DeleteWorkspace(c) \/ Login(c) \/ SwitchWorkspace(c) \/ Authorize(c)
           \/ AuthorizeKey(c)
    PROVE  call' \in [Calls -> CallType] /\ CallInv'
<1>1. call \in [Calls -> CallType] /\ token \in [SessionIds -> 0..MaxUser]
      /\ key \in [KeyIds -> KeyType] /\ CallOK(Idle)
  BY RecordTypes DEF TypeOK, KeyType
<1>0. /\ Idle \in CallType /\ CallOK(Idle)
      /\ UserIds \subseteq 0..MaxUser \ {0} /\ WsIds \subseteq 0..MaxWs \ {0}
      /\ SessionIds \subseteq 0..MaxSession \ {0} /\ KeyIds \subseteq 0..MaxKey \ {0}
  BY RecordTypes DEF UserIds, WsIds, SessionIds, KeyIds
<1>2. CASE DeleteWorkspace(c)
  <2>1. PICK s \in SessionIds, w \in WsIds :
          /\ token[s] # 0
          /\ OneCall(c, [Idle EXCEPT !.pc = "delete", !.op = "delete", !.user = token[s],
                                     !.ws = w])
    BY <1>2 DEF DeleteWorkspace, Begin, OneCall
  <2> DEFINE r == [Idle EXCEPT !.pc = "delete", !.op = "delete", !.user = token[s], !.ws = w]
  <2>2. r \in CallType
    BY <1>0, <1>1, <2>1 DEF CallType
  <2>3. CallOK(r)
    BY <1>0, <1>1, <2>1 DEF Idle, CallOK, GrpcPcs, SessionPcs
  <2> QED
    BY <1>1, <2>1, <2>2, <2>3, OneCallStep
<1>3. CASE Login(c)
  <2>1. PICK u \in UserIds :
          OneCall(c, [Idle EXCEPT !.pc = "login", !.op = "login", !.user = u])
    BY <1>3 DEF Login, Begin, OneCall
  <2> DEFINE r == [Idle EXCEPT !.pc = "login", !.op = "login", !.user = u]
  <2>2. r \in CallType
    BY <1>0 DEF CallType
  <2>3. CallOK(r)
    BY <1>0 DEF Idle, CallOK, GrpcPcs, SessionPcs
  <2> QED
    BY <1>1, <2>1, <2>2, <2>3, OneCallStep
<1>4. CASE SwitchWorkspace(c)
  <2>1. PICK s \in SessionIds, w \in WsIds :
          OneCall(c, [Idle EXCEPT !.pc = "switch", !.op = "switch", !.session = s, !.ws = w])
    BY <1>4 DEF SwitchWorkspace, Begin, OneCall
  <2> DEFINE r == [Idle EXCEPT !.pc = "switch", !.op = "switch", !.session = s, !.ws = w]
  <2>2. r \in CallType
    BY <1>0 DEF CallType
  <2>3. CallOK(r)
    BY <1>0 DEF Idle, CallOK, GrpcPcs, SessionPcs
  <2> QED
    BY <1>1, <2>1, <2>2, <2>3, OneCallStep
<1>5. CASE Authorize(c)
  <2>1. PICK s \in SessionIds, op \in {"read", "write"} :
          /\ token[s] # 0
          /\ OneCall(c, [Idle EXCEPT !.pc = "session", !.op = op, !.user = token[s],
                                     !.session = s])
    BY <1>5 DEF Authorize, Begin, OneCall
  <2> DEFINE r == [Idle EXCEPT !.pc = "session", !.op = op, !.user = token[s], !.session = s]
  <2>2. r \in CallType
    BY <1>0, <1>1, <2>1 DEF CallType
  <2>3. CallOK(r)
    BY <1>0, <1>1, <2>1 DEF Idle, CallOK, GrpcPcs, SessionPcs
  <2> QED
    BY <1>1, <2>1, <2>2, <2>3, OneCallStep
<1>6. CASE AuthorizeKey(c)
  <2>1. PICK k \in KeyIds, op \in {"read", "write"} :
          /\ key[k].state = "live"
          /\ OneCall(c, [Idle EXCEPT !.pc = "key user", !.op = op, !.user = key[k].user,
                                     !.key = k, !.ws = key[k].ws])
    BY <1>6 DEF AuthorizeKey, Begin, OneCall
  <2> DEFINE r == [Idle EXCEPT !.pc = "key user", !.op = op, !.user = key[k].user,
                               !.key = k, !.ws = key[k].ws]
  <2>2. key[k].user \in 0..MaxUser /\ key[k].user # 0 /\ key[k].ws \in 0..MaxWs
    BY <1>0, <1>1, <2>1 DEF KeyInv, KeyType
  <2>3. r \in CallType
    BY <1>0, <2>2 DEF CallType
  <2>4. CallOK(r)
    BY <1>0, <2>2 DEF Idle, CallOK, GrpcPcs, SessionPcs
  <2> QED
    BY <1>1, <2>1, <2>3, <2>4, OneCallStep
<1> QED
  BY <1>2, <1>3, <1>4, <1>5, <1>6

\* A request that ends, or goes on.
LEMMA GoOnStep ==
    ASSUME TypeOK, CallInv, NEW c \in Calls,
           \/ \E pc \in Pcs : /\ Goto(c, pc)
                              /\ call[c].pc \in GrpcPcs \ {"replace"}
                              /\ pc \in {"header", "stored", "default", "role", "handler", "replace"}
                              /\ pc \in {"header", "stored", "default"} => call[c].pc \in SessionPcs
                              /\ pc = "replace" <=> call[c].pc = "roll"
           \/ \E w \in 0..MaxWs, pc \in {"check", "role"} :
                              /\ InWorkspace(c, w, pc)
                              /\ call[c].pc \in SessionPcs
                              /\ pc = "check" => w # 0
           \/ End(c)
    PROVE  call' \in [Calls -> CallType] /\ CallInv'
<1>1. call \in [Calls -> CallType] /\ call[c] \in CallType /\ CallOK(call[c])
  BY DEF TypeOK, CallInv
<1>2. CASE End(c)
  BY <1>1, <1>2, OneCallStep, RecordTypes DEF End, OneCall
<1>3. ASSUME NEW pc \in Pcs, Goto(c, pc),
             call[c].pc \in GrpcPcs \ {"replace"},
             pc \in {"header", "stored", "default", "role", "handler", "replace"},
             pc \in {"header", "stored", "default"} => call[c].pc \in SessionPcs,
             pc = "replace" <=> call[c].pc = "roll"
      PROVE  call' \in [Calls -> CallType] /\ CallInv'
  <2> DEFINE r == [call[c] EXCEPT !.pc = pc]
  <2>1. r \in CallType
    BY <1>1, <1>3 DEF CallType
  <2>2. CallOK(r)
    BY <1>1, <1>3 DEF CallType, CallOK, GrpcPcs, SessionPcs
  <2> QED
    BY <1>1, <1>3, <2>1, <2>2, OneCallStep DEF Goto, OneCall
<1>4. ASSUME NEW w \in 0..MaxWs, NEW pc \in {"check", "role"}, InWorkspace(c, w, pc),
             call[c].pc \in SessionPcs, pc = "check" => w # 0
      PROVE  call' \in [Calls -> CallType] /\ CallInv'
  <2> DEFINE r == [call[c] EXCEPT !.ws = w, !.pc = pc]
  <2>1. r \in CallType
    BY <1>1, <1>4 DEF CallType
  <2>2. CallOK(r)
    BY <1>1, <1>4 DEF CallType, CallOK, GrpcPcs, SessionPcs
  <2> QED
    BY <1>1, <1>4, <2>1, <2>2, OneCallStep DEF InWorkspace, OneCall
<1> QED
  BY <1>2, <1>3, <1>4

\* The rows a request points to.
LEMMA Pointers ==
    ASSUME TypeOK, CallInv, NEW c \in Calls
    PROVE  /\ call[c].pc \in GrpcPcs \cup {"login", "delete"} => call[c].user \in UserIds
           /\ call[c].pc \in SessionPcs \cup {"switch"} => call[c].session \in SessionIds
           /\ call[c].pc \in {"switch", "check", "delete"} => call[c].ws \in WsIds
           /\ call[c].pc \in {"roll", "replace"} => call[c].target \in KeyIds
           /\ call[c].ws \in 0..MaxWs
<1>1. call[c] \in CallType /\ CallOK(call[c])
  BY DEF TypeOK, CallInv
<1>2. /\ 0..MaxUser \subseteq UserIds \cup {0} /\ 0..MaxWs \subseteq WsIds \cup {0}
      /\ 0..MaxSession \subseteq SessionIds \cup {0} /\ 0..MaxKey \subseteq KeyIds \cup {0}
  BY RecordTypes DEF UserIds, WsIds, SessionIds, KeyIds
<1> QED
  BY <1>1, <1>2 DEF CallType, CallOK

LEMMA RollType ==
    ASSUME TypeOK, CallInv, NEW c \in Calls, RollAPIKey(c)
    PROVE  call' \in [Calls -> CallType] /\ CallInv'
<1>1. PICK k \in KeyIds :
        call' = [call EXCEPT ![c].pc = "roll", ![c].target = k, ![c].ws = key[k].ws]
  BY DEF RollAPIKey
<1>2. call \in [Calls -> CallType] /\ call[c] \in CallType /\ CallOK(call[c])
  BY DEF TypeOK, CallInv
<1>6. call[c].pc = "handler"
  BY DEF RollAPIKey, Writes
<1>7. k \in 0..MaxKey /\ k # 0
  BY Ranges
<1>8. key[k] \in KeyType
  BY DEF TypeOK, KeyType
<1>9. key[k].ws \in 0..MaxWs
  BY <1>8 DEF KeyType
<1> DEFINE r == [call[c] EXCEPT !.pc = "roll", !.target = k, !.ws = key[k].ws]
<1>3. r \in CallType
  BY <1>2, <1>7, <1>9 DEF CallType
<1>4. CallOK(r)
  BY <1>2, <1>6, <1>7 DEF CallType, CallOK, GrpcPcs, SessionPcs
<1>5. OneCall(c, r)
  BY <1>1, <1>2 DEF OneCall
<1> QED
  BY <1>2, <1>3, <1>4, <1>5, OneCallStep

\* Every step leaves the requests of their type.
LEMMA CallStep ==
    ASSUME TypeOK, CallInv, KeyInv, [Next]_vars
    PROVE  call' \in [Calls -> CallType] /\ CallInv'
<1>1. CASE UNCHANGED call
  BY <1>1 DEF TypeOK, CallInv
<1>2. ASSUME NEW c \in Calls, Interceptor(c)
      PROVE  call' \in [Calls -> CallType] /\ CallInv'
  <2>1. CASE Authorize(c) \/ AuthorizeKey(c)
    BY <2>1, BeginStep
  <2>2. CASE ValidateSession(c)
    BY <2>2, GoOnStep DEF ValidateSession, Pcs, GrpcPcs, SessionPcs
  <2>3. CASE ResolveHeader(c)
    <3>1. ASSUME NEW w \in WsIds, InWorkspace(c, w, "role")
          PROVE  call' \in [Calls -> CallType] /\ CallInv'
      <4>1. w \in 0..MaxWs
        BY RecordTypes DEF WsIds
      <4> QED
        BY <2>3, <3>1, <4>1, GoOnStep DEF ResolveHeader, SessionPcs
    <3> QED
      BY <2>3, <3>1, GoOnStep DEF ResolveHeader, Pcs, GrpcPcs, SessionPcs
  <2>4. CASE ReadSessionWorkspace(c)
    <3>1. session[call[c].session].ws \in 0..MaxWs
      BY <2>4, Pointers DEF ReadSessionWorkspace, TypeOK, SessionPcs
    <3> QED
      BY <2>4, <3>1, GoOnStep DEF ReadSessionWorkspace, Pcs, GrpcPcs, SessionPcs
  <2>5. CASE CheckSessionWorkspace(c)
    BY <2>5, GoOnStep DEF CheckSessionWorkspace, Pcs, GrpcPcs, SessionPcs
  <2>6. CASE ReadDefaultWorkspace(c)
    <3>1. users[call[c].user].home \in 0..MaxWs
      BY <2>6, Pointers DEF ReadDefaultWorkspace, TypeOK, GrpcPcs
    <3> QED
      BY <2>6, <3>1, GoOnStep DEF ReadDefaultWorkspace, SessionPcs
  <2>7. CASE ReadKeyUser(c)
    BY <2>7, GoOnStep DEF ReadKeyUser, Pcs, GrpcPcs, SessionPcs
  <2>8. CASE WorkspaceRole(c)
    BY <2>8, GoOnStep DEF WorkspaceRole, Pcs, GrpcPcs, SessionPcs
  <2> QED
    BY <1>2, <2>1, <2>2, <2>3, <2>4, <2>5, <2>6, <2>7, <2>8 DEF Interceptor
<1>3. ASSUME NEW c \in Calls, Handler(c)
      PROVE  call' \in [Calls -> CallType] /\ CallInv'
  <2>1. CASE RollAPIKey(c)
    BY <2>1, RollType
  <2>2. CASE RollRevoke(c)
    BY <2>2, GoOnStep DEF RollRevoke, Pcs, GrpcPcs, SessionPcs
  <2>3. CASE End(c)
    BY <2>3, GoOnStep
  <2> QED
    BY <1>3, <2>1, <2>2, <2>3
    DEF Handler, UseWorkspace, CreateAPIKey, RevokeAPIKey, RollReplace, Fail
<1>4. ASSUME NEW c \in Calls, Rest(c)
      PROVE  call' \in [Calls -> CallType] /\ CallInv'
  <2>1. CASE End(c)
    BY <2>1, GoOnStep
  <2> QED
    BY <1>4, <2>1, BeginStep DEF Rest, CreateSession, SetActiveWorkspace, CommitDelete
<1> QED
  BY <1>1, <1>2, <1>3, <1>4
  DEF Next, CreateUser, SetActive, DeleteUser, SetMember, TransferOwnership, CreateWorkspace,
      RevokeOtherSessions, Expire, RevokeSession, vars

\* What a deletion cascades to leaves the tables of their type.
LEMMA CascadeType ==
    ASSUME TypeOK, NEW U \in SUBSET UserIds, NEW W \in SUBSET WsIds, Cascade(U, W)
    PROVE  /\ users' \in [UserIds -> UserType] /\ owner' \in [WsIds -> 0..MaxUser]
           /\ member' \in [UserIds -> [WsIds -> {"none", "viewer", "editor"}]]
           /\ session' \in [SessionIds -> SessionType] /\ key' \in [KeyIds -> KeyType]
           /\ token' = token /\ next' = next
<1>1. /\ 0 \in 0..MaxUser /\ 0 \in 0..MaxWs /\ NoAccount \in UserType
      /\ NoSession \in SessionType /\ NoKey \in KeyType
  BY RecordTypes
<1>2. users' \in [UserIds -> UserType]
  <2>1. \A u \in UserIds : [users[u] EXCEPT !.home = IF @ \in W THEN 0 ELSE @] \in UserType
    BY <1>1 DEF TypeOK, UserType
  <2> QED
    BY <1>1, <2>1 DEF Cascade
<1>3. session' \in [SessionIds -> SessionType]
  <2>1. \A s \in SessionIds : [session[s] EXCEPT !.ws = IF @ \in W THEN 0 ELSE @] \in SessionType
    BY <1>1 DEF TypeOK, SessionType
  <2> QED
    BY <1>1, <2>1 DEF Cascade
<1>4. key' \in [KeyIds -> KeyType]
  BY <1>1 DEF Cascade, TypeOK, KeyType
<1>5. owner' \in [WsIds -> 0..MaxUser]
  BY <1>1 DEF Cascade, TypeOK
<1>6. member' \in [UserIds -> [WsIds -> {"none", "viewer", "editor"}]]
  BY DEF Cascade, TypeOK
<1> QED
  BY <1>2, <1>3, <1>4, <1>5, <1>6 DEF Cascade

\* A request is about to insert a session when it is in Logins, and a key when it is in
\* Rolls: what a step does to them, and to the next ids.
SessionIdStep ==
    \/ next'.session = next.session /\ Logins' \subseteq Logins
    \/ /\ next'.session = next.session /\ next.session + Cardinality(Logins) <= MaxSession
       /\ \E c \in Calls : Logins' = Logins \cup {c}
    \/ next'.session = next.session + 1 /\ \E c \in Logins : Logins' = Logins \ {c}

KeyIdStep ==
    \/ next'.key = next.key /\ Rolls' \subseteq Rolls
    \/ next'.key = next.key /\ MoreKeys /\ \E c \in Calls : Rolls' = Rolls \cup {c}
    \/ next'.key \in {next.key, next.key + 1} /\ MoreKeys /\ Rolls' \subseteq Rolls
    \/ next'.key \in {next.key, next.key + 1} /\ \E c \in Rolls : Rolls' = Rolls \ {c}

LEMMA IdSteps ==
    ASSUME TypeOK, CallInv, [Next]_vars
    PROVE  SessionIdStep /\ KeyIdStep
<1>1. call \in [Calls -> CallType] /\ \A c \in Calls : CallOK(call[c])
  BY DEF TypeOK, CallInv
<1>2. CASE UNCHANGED call /\ next'.session = next.session /\ next'.key = next.key
  BY <1>2 DEF SessionIdStep, KeyIdStep, Logins, Rolls
<1>3. ASSUME NEW c \in Calls, UNCHANGED next, NEW r, OneCall(c, r),
             r.pc # "login", r.target \in {0, call[c].target}
      PROVE  SessionIdStep /\ KeyIdStep
  <2>1. Logins' \subseteq Logins /\ Rolls' \subseteq Rolls
    BY <1>1, <1>3 DEF OneCall, Logins, Rolls
  <2> QED
    BY <1>3, <2>1 DEF SessionIdStep, KeyIdStep
<1>4. ASSUME NEW c \in Calls, UNCHANGED next, End(c)
      PROVE  SessionIdStep /\ KeyIdStep
  <2>1. OneCall(c, Idle) /\ Idle.pc # "login" /\ Idle.target = 0
    BY <1>4 DEF End, OneCall, Idle
  <2> QED
    BY <1>3, <1>4, <2>1
<1>5. ASSUME NEW c \in Calls, UNCHANGED next, NEW pc \in Pcs \ {"login"}, Goto(c, pc)
      PROVE  SessionIdStep /\ KeyIdStep
  <2>1. OneCall(c, [call[c] EXCEPT !.pc = pc])
    BY <1>1, <1>5 DEF Goto, OneCall
  <2> QED
    BY <1>1, <1>3, <1>5, <2>1 DEF CallType
<1>6. ASSUME NEW c \in Calls, UNCHANGED next, NEW w, NEW pc \in Pcs \ {"login"},
             InWorkspace(c, w, pc)
      PROVE  SessionIdStep /\ KeyIdStep
  <2>1. OneCall(c, [call[c] EXCEPT !.ws = w, !.pc = pc])
    BY <1>1, <1>6 DEF InWorkspace, OneCall
  <2> QED
    BY <1>1, <1>3, <1>6, <2>1 DEF CallType
<1>7. ASSUME NEW c \in Calls,
             DeleteWorkspace(c) \/ SwitchWorkspace(c) \/ Authorize(c) \/ AuthorizeKey(c)
      PROVE  SessionIdStep /\ KeyIdStep
  <2>1. UNCHANGED next
    BY <1>7 DEF DeleteWorkspace, SwitchWorkspace, Authorize, AuthorizeKey, tables
  <2>2. call'[c].pc # "login" /\ call'[c].target = 0 /\ \A d \in Calls \ {c} : call'[d] = call[d]
    <3>1. CASE DeleteWorkspace(c)
      BY <1>1, <3>1 DEF DeleteWorkspace, Begin, Idle
    <3>2. CASE SwitchWorkspace(c)
      BY <1>1, <3>2 DEF SwitchWorkspace, Begin, Idle
    <3>3. CASE Authorize(c)
      BY <1>1, <3>3 DEF Authorize, Begin, Idle
    <3>4. CASE AuthorizeKey(c)
      BY <1>1, <3>4 DEF AuthorizeKey, Begin, Idle
    <3> QED
      BY <1>7, <3>1, <3>2, <3>3, <3>4
  <2>3. Logins' \subseteq Logins /\ Rolls' \subseteq Rolls
    BY <2>2 DEF Logins, Rolls
  <2> QED
    BY <2>1, <2>3 DEF SessionIdStep, KeyIdStep
<1>8. ASSUME NEW c \in Calls, Login(c)
      PROVE  SessionIdStep /\ KeyIdStep
  <2>1. PICK u : call' = [call EXCEPT ![c] = [Idle EXCEPT !.pc = "login", !.op = "login", !.user = u]]
    BY <1>8 DEF Login, Begin
  <2>2. call'[c].pc = "login" /\ call'[c].target = 0 /\ \A d \in Calls \ {c} : call'[d] = call[d]
    BY <1>1, <2>1 DEF Idle
  <2>3. Logins' = Logins \cup {c} /\ Rolls' \subseteq Rolls
    BY <2>2 DEF Logins, Rolls
  <2> QED
    BY <1>8, <2>3 DEF Login, tables, Logins, SessionIdStep, KeyIdStep
<1>9. ASSUME NEW c \in Calls, CreateSession(c)
      PROVE  SessionIdStep /\ KeyIdStep
  <2>1. call'[c].pc = "idle" /\ call'[c].target = 0 /\ \A d \in Calls \ {c} : call'[d] = call[d]
    BY <1>1, <1>9 DEF CreateSession, End, Idle
  <2>2. Logins' = Logins \ {c} /\ c \in Logins /\ Rolls' \subseteq Rolls
    BY <1>9, <2>1 DEF Logins, Rolls, CreateSession
  <2>3. next'.session = next.session + 1 /\ next'.key = next.key
    BY <1>9 DEF CreateSession, TypeOK
  <2> QED
    BY <2>2, <2>3 DEF SessionIdStep, KeyIdStep
<1>10. ASSUME NEW c \in Calls, RollAPIKey(c)
       PROVE  SessionIdStep /\ KeyIdStep
  <2>1. PICK k \in KeyIds :
          call' = [call EXCEPT ![c].pc = "roll", ![c].target = k, ![c].ws = key[k].ws]
    BY <1>10 DEF RollAPIKey
  <2>2. call'[c].pc = "roll" /\ call'[c].target = k /\ \A d \in Calls \ {c} : call'[d] = call[d]
    BY <1>1, <2>1 DEF CallType
  <2>3. Rolls' = Rolls \cup {c} /\ Logins' \subseteq Logins
    BY <2>2, RecordTypes DEF Logins, Rolls, KeyIds
  <2> QED
    BY <1>10, <2>3 DEF RollAPIKey, tables, SessionIdStep, KeyIdStep
<1>11. ASSUME NEW c \in Calls, CreateAPIKey(c) \/ RollReplace(c)
       PROVE  SessionIdStep /\ KeyIdStep
  <2>1. call'[c].pc = "idle" /\ call'[c].target = 0 /\ \A d \in Calls \ {c} : call'[d] = call[d]
    BY <1>1, <1>11 DEF CreateAPIKey, RollReplace, End, Idle
  <2>2. Rolls' = Rolls \ {c} /\ Logins' \subseteq Logins
    BY <2>1 DEF Logins, Rolls
  <2>3. next'.session = next.session /\ next'.key \in {next.key, next.key + 1}
    BY <1>11 DEF CreateAPIKey, RollReplace, InsertKey, TypeOK
  <2>4. CreateAPIKey(c) => MoreKeys
    BY DEF CreateAPIKey
  <2>5. RollReplace(c) => c \in Rolls
    BY <1>1 DEF RollReplace, Rolls, CallOK
  <2> QED
    BY <1>11, <2>2, <2>3, <2>4, <2>5 DEF SessionIdStep, KeyIdStep
<1>12. ASSUME NEW c \in Calls, Interceptor(c)
       PROVE  SessionIdStep /\ KeyIdStep
  <2>1. UNCHANGED next
    BY <1>12
    DEF Interceptor, Authorize, ValidateSession, ResolveHeader, ReadSessionWorkspace,
        CheckSessionWorkspace, ReadDefaultWorkspace, AuthorizeKey, ReadKeyUser, WorkspaceRole, tables
  <2>2. \/ Authorize(c) \/ AuthorizeKey(c) \/ End(c)
        \/ \E pc \in Pcs \ {"login"} : Goto(c, pc)
        \/ \E w \in WsIds \cup {session[call[c].session].ws, users[call[c].user].home} :
             \E pc \in {"role", "check"} : InWorkspace(c, w, pc)
    BY <1>12
    DEF Interceptor, ValidateSession, ResolveHeader, ReadSessionWorkspace,
        CheckSessionWorkspace, ReadDefaultWorkspace, ReadKeyUser, WorkspaceRole, Pcs
  <2> QED
    BY <1>4, <1>5, <1>6, <1>7, <2>1, <2>2 DEF Pcs
<1>13. ASSUME NEW c \in Calls, Handler(c)
       PROVE  SessionIdStep /\ KeyIdStep
  <2>1. CASE CreateAPIKey(c) \/ RollReplace(c) \/ RollAPIKey(c)
    BY <2>1, <1>10, <1>11
  <2>2. CASE UseWorkspace(c) \/ RevokeAPIKey(c) \/ Fail(c)
    BY <2>2, <1>4 DEF UseWorkspace, RevokeAPIKey, Fail, tables
  <2>3. CASE RollRevoke(c)
    BY <2>3, <1>5 DEF RollRevoke, Pcs
  <2> QED
    BY <1>13, <2>1, <2>2, <2>3 DEF Handler
<1>14. ASSUME NEW c \in Calls, Rest(c)
       PROVE  SessionIdStep /\ KeyIdStep
  BY <1>14, <1>4, <1>7, <1>8, <1>9 DEF Rest, SetActiveWorkspace, CommitDelete, Cascade, tables
<1> QED
  BY <1>2, <1>12, <1>13, <1>14
  DEF Next, CreateUser, SetActive, DeleteUser, SetMember, TransferOwnership, CreateWorkspace,
      RevokeOtherSessions, Expire, RevokeSession, Cascade, TypeOK, vars

LEMMA OneMoreOrLess ==
    ASSUME NEW S, IsFiniteSet(S), NEW x
    PROVE  /\ Cardinality(S) \in Nat
           /\ IsFiniteSet(S \cup {x}) /\ Cardinality(S \cup {x}) \in Nat
           /\ Cardinality(S \cup {x}) <= Cardinality(S) + 1
           /\ IsFiniteSet(S \ {x}) /\ Cardinality(S \ {x}) \in Nat
           /\ x \in S => Cardinality(S) = Cardinality(S \ {x}) + 1
<1>1. Cardinality(S) \in Nat /\ IsFiniteSet(S \cup {x}) /\ IsFiniteSet(S \ {x})
  BY FS_CardinalityType, FS_AddElement, FS_RemoveElement
<1>2. Cardinality(S \cup {x}) \in Nat /\ Cardinality(S \ {x}) \in Nat
  BY <1>1, FS_CardinalityType
<1>3. Cardinality(S \cup {x}) = IF x \in S THEN Cardinality(S) ELSE Cardinality(S) + 1
  BY FS_AddElement
<1>4. Cardinality(S \ {x}) = IF x \in S THEN Cardinality(S) - 1 ELSE Cardinality(S)
  BY FS_RemoveElement
<1> QED
  BY <1>1, <1>2, <1>3, <1>4

\* The bounds leave an id for each row about to be inserted.
LEMMA BoundStep ==
    ASSUME TypeOK, CallInv, BoundInv, [Next]_vars
    PROVE  /\ BoundInv'
           /\ next'.session \in 1..MaxSession + 1 /\ next'.key \in 1..MaxKey + 1
<1>1. /\ next.session \in Nat /\ next.session >= 1 /\ next.key \in Nat /\ next.key >= 1
      /\ MaxSession \in Nat /\ MaxKey \in Nat
      /\ IsFiniteSet(Logins) /\ Cardinality(Logins) \in Nat
      /\ IsFiniteSet(Rolls) /\ Cardinality(Rolls) \in Nat
  BY RecordTypes, FS_CardinalityType DEF TypeOK, BoundInv
<1>2. /\ IsFiniteSet(Logins')
      /\ next'.session + Cardinality(Logins') <= MaxSession + 1
      /\ next'.session \in Nat /\ next'.session >= 1
  <2>1. CASE next'.session = next.session /\ Logins' \subseteq Logins
    <3>1. IsFiniteSet(Logins') /\ Cardinality(Logins') <= Cardinality(Logins)
      BY <1>1, <2>1, FS_Subset
    <3> QED
      BY <1>1, <2>1, <3>1, FS_CardinalityType DEF BoundInv
  <2>2. ASSUME NEW c \in Calls, Logins' = Logins \cup {c}, next'.session = next.session,
               next.session + Cardinality(Logins) <= MaxSession
        PROVE  /\ IsFiniteSet(Logins') /\ next'.session + Cardinality(Logins') <= MaxSession + 1
               /\ next'.session \in Nat /\ next'.session >= 1
    <3>1. /\ IsFiniteSet(Logins \cup {c}) /\ Cardinality(Logins \cup {c}) \in Nat
          /\ Cardinality(Logins \cup {c}) <= Cardinality(Logins) + 1
      BY <1>1, OneMoreOrLess
    <3>2. /\ IsFiniteSet(Logins') /\ Cardinality(Logins') = Cardinality(Logins \cup {c})
      BY <2>2, <3>1
    <3> QED
      BY <1>1, <2>2, <3>1, <3>2
  <2>3. ASSUME NEW c \in Logins, Logins' = Logins \ {c}, next'.session = next.session + 1
        PROVE  /\ IsFiniteSet(Logins') /\ next'.session + Cardinality(Logins') <= MaxSession + 1
               /\ next'.session \in Nat /\ next'.session >= 1
    <3>1. /\ IsFiniteSet(Logins \ {c}) /\ Cardinality(Logins \ {c}) \in Nat
          /\ Cardinality(Logins) = Cardinality(Logins \ {c}) + 1
      BY <1>1, OneMoreOrLess
    <3>2. /\ IsFiniteSet(Logins') /\ Cardinality(Logins') = Cardinality(Logins \ {c})
      BY <2>3, <3>1
    <3> QED
      BY <1>1, <2>3, <3>1, <3>2 DEF BoundInv
  <2> QED
    BY <2>1, <2>2, <2>3, IdSteps DEF SessionIdStep
<1>3. /\ IsFiniteSet(Rolls')
      /\ next'.key + Cardinality(Rolls') <= MaxKey + 1
      /\ next'.key \in Nat /\ next'.key >= 1
  <2>1. MoreKeys => next.key + Cardinality(Rolls) <= MaxKey
    BY DEF MoreKeys, Rolls
  <2>2. CASE /\ Rolls' \subseteq Rolls
             /\ next'.key = next.key \/ (next'.key \in {next.key, next.key + 1} /\ MoreKeys)
    <3>1. IsFiniteSet(Rolls') /\ Cardinality(Rolls') <= Cardinality(Rolls)
      BY <1>1, <2>2, FS_Subset
    <3> QED
      <4>1. Cardinality(Rolls') \in Nat
        BY <3>1, FS_CardinalityType
      <4>2. next.key + Cardinality(Rolls) <= MaxKey + 1
        BY DEF BoundInv
      <4> QED
        BY <1>1, <2>1, <2>2, <3>1, <4>1, <4>2
  <2>3. ASSUME NEW c \in Calls, Rolls' = Rolls \cup {c}, next'.key = next.key, MoreKeys
        PROVE  /\ IsFiniteSet(Rolls') /\ next'.key + Cardinality(Rolls') <= MaxKey + 1
               /\ next'.key \in Nat /\ next'.key >= 1
    <3>1. /\ IsFiniteSet(Rolls \cup {c}) /\ Cardinality(Rolls \cup {c}) \in Nat
          /\ Cardinality(Rolls \cup {c}) <= Cardinality(Rolls) + 1
      BY <1>1, OneMoreOrLess
    <3>2. /\ IsFiniteSet(Rolls') /\ Cardinality(Rolls') = Cardinality(Rolls \cup {c})
      BY <2>3, <3>1
    <3> QED
      BY <1>1, <2>1, <2>3, <3>1, <3>2
  <2>4. ASSUME NEW c \in Rolls, Rolls' = Rolls \ {c}, next'.key \in {next.key, next.key + 1}
        PROVE  /\ IsFiniteSet(Rolls') /\ next'.key + Cardinality(Rolls') <= MaxKey + 1
               /\ next'.key \in Nat /\ next'.key >= 1
    <3>1. /\ IsFiniteSet(Rolls \ {c}) /\ Cardinality(Rolls \ {c}) \in Nat
          /\ Cardinality(Rolls) = Cardinality(Rolls \ {c}) + 1
      BY <1>1, OneMoreOrLess
    <3>2. /\ IsFiniteSet(Rolls') /\ Cardinality(Rolls') = Cardinality(Rolls \ {c})
      BY <2>4, <3>1
    <3> QED
      BY <1>1, <2>4, <3>1, <3>2 DEF BoundInv
  <2> QED
    BY <2>2, <2>3, <2>4, IdSteps DEF KeyIdStep
<1>4. Cardinality(Logins') \in Nat /\ Cardinality(Rolls') \in Nat
  BY <1>2, <1>3, FS_CardinalityType
<1> QED
  BY <1>1, <1>2, <1>3, <1>4 DEF BoundInv

-----------------------------------------------------------------------------
(* The tables. *)

TablesOK ==
    /\ users \in [UserIds -> UserType]
    /\ owner \in [WsIds -> 0..MaxUser]
    /\ member \in [UserIds -> [WsIds -> {"none", "viewer", "editor"}]]
    /\ session \in [SessionIds -> SessionType]
    /\ token \in [SessionIds -> 0..MaxUser]
    /\ key \in [KeyIds -> KeyType]
NextType == [user : 1..MaxUser + 1, ws : 1..MaxWs + 1, session : 1..MaxSession + 1,
             key : 1..MaxKey + 1]

LEMMA TypeParts ==
    TypeOK <=> /\ TablesOK /\ next \in NextType /\ call \in [Calls -> CallType]
               /\ had \in [Calls -> [credential : BOOLEAN, active : BOOLEAN, access : BOOLEAN,
                                     edit : BOOLEAN]]
BY DEF TypeOK, TablesOK, NextType, UserType, SessionType, KeyType

LEMMA AccountTypes ==
    ASSUME TypeOK,
           \/ CreateUser
           \/ \E u \in UserIds : SetActive(u) \/ DeleteUser(u)
           \/ \E u \in UserIds, w \in WsIds : SetMember(u, w) \/ TransferOwnership(u, w)
           \/ \E s \in SessionIds : CreateWorkspace(s)
    PROVE  TablesOK' /\ next' \in NextType
<1>1. /\ TablesOK /\ next \in NextType
      /\ MaxUser \in Nat /\ MaxWs \in Nat /\ 0 \in 0..MaxUser /\ 0 \in 0..MaxWs
      /\ UserIds \subseteq 0..MaxUser /\ WsIds \subseteq 0..MaxWs
  BY TypeParts, RecordTypes DEF UserIds, WsIds
<1>2. CASE CreateUser
  <2>1. next.user \in UserIds /\ next.ws \in WsIds
    BY <1>1, <1>2 DEF CreateUser, NextType, UserIds, WsIds
  <2>2. [status |-> "active", home |-> next.ws] \in UserType
    BY <1>1, <2>1 DEF UserType
  <2>3. users' \in [UserIds -> UserType] /\ owner' \in [WsIds -> 0..MaxUser]
    BY <1>1, <1>2, <2>1, <2>2 DEF CreateUser, TablesOK
  <2>4. member' \in [UserIds -> [WsIds -> {"none", "viewer", "editor"}]]
    BY <1>1, <1>2, <2>1 DEF CreateUser, TablesOK
  <2>5. next' \in NextType
    <3>1. /\ next.user + 1 \in 1..MaxUser + 1 /\ next.ws + 1 \in 1..MaxWs + 1
      BY <1>1, <2>1 DEF UserIds, WsIds
    <3> QED
      BY <1>1, <1>2, <3>1 DEF CreateUser, NextType
  <2> QED
    BY <1>1, <1>2, <2>3, <2>4, <2>5 DEF CreateUser, TablesOK
<1>3. ASSUME NEW u \in UserIds, SetActive(u)
      PROVE  TablesOK' /\ next' \in NextType
  <2>1. users' \in [UserIds -> UserType]
    BY <1>1, <1>3 DEF SetActive, TablesOK, UserType
  <2> QED
    BY <1>1, <1>3, <2>1 DEF SetActive, TablesOK
<1>4. ASSUME NEW u \in UserIds, DeleteUser(u)
      PROVE  TablesOK' /\ next' \in NextType
  <2>1. Cascade({u}, {w \in WsIds : owner[w] = u})
    BY <1>4 DEF DeleteUser
  <2>2. TablesOK' /\ next' = next
    BY <1>1, <2>1, CascadeType DEF TablesOK
  <2> QED
    BY <1>1, <2>2
<1>5. ASSUME NEW u \in UserIds, NEW w \in WsIds, SetMember(u, w) \/ TransferOwnership(u, w)
      PROVE  TablesOK' /\ next' \in NextType
  <2>1. member' \in [UserIds -> [WsIds -> {"none", "viewer", "editor"}]]
    <3>1. \E role \in {"none", "viewer", "editor"} : member' = [member EXCEPT ![u][w] = role]
      BY <1>5 DEF SetMember, TransferOwnership
    <3> QED
      BY <1>1, <3>1 DEF TablesOK
  <2>2. owner' \in [WsIds -> 0..MaxUser]
    BY <1>1, <1>5 DEF SetMember, TransferOwnership, TablesOK
  <2> QED
    BY <1>1, <1>5, <2>1, <2>2 DEF SetMember, TransferOwnership, TablesOK
<1>6. ASSUME NEW s \in SessionIds, CreateWorkspace(s)
      PROVE  TablesOK' /\ next' \in NextType
  <2>1. next.ws + 1 \in 1..MaxWs + 1
    BY <1>1, <1>6 DEF CreateWorkspace, NextType
  <2>2. next' \in NextType
    BY <1>1, <1>6, <2>1 DEF CreateWorkspace, NextType
  <2>3. owner' \in [WsIds -> 0..MaxUser]
    BY <1>1, <1>6 DEF CreateWorkspace, TablesOK
  <2> QED
    BY <1>1, <1>6, <2>2, <2>3 DEF CreateWorkspace, TablesOK
<1> QED
  BY <1>2, <1>3, <1>4, <1>5, <1>6

LEMMA SessionTypes ==
    ASSUME TypeOK, CallInv,
           \/ \E s \in SessionIds : RevokeOtherSessions(s) \/ Expire(s)
           \/ \E s, by \in SessionIds : RevokeSession(s, by)
           \/ \E c \in Calls : CreateSession(c) \/ SetActiveWorkspace(c)
    PROVE  TablesOK' /\ next' \in [user : 1..MaxUser + 1, ws : 1..MaxWs + 1,
                                   session : {next'.session}, key : 1..MaxKey + 1]
<1>1. TablesOK /\ next \in NextType /\ \A s \in SessionIds : session[s] \in SessionType
  BY TypeParts DEF TablesOK
<1>2. \A s \in SessionIds : [session[s] EXCEPT !.live = FALSE] \in SessionType
  BY <1>1 DEF SessionType
<1>3. ASSUME NEW s \in SessionIds,
             RevokeOtherSessions(s) \/ Expire(s) \/ \E by \in SessionIds : RevokeSession(s, by)
      PROVE  TablesOK' /\ next' = next
  <2>1. session' \in [SessionIds -> SessionType]
    <3>1. CASE RevokeOtherSessions(s)
      BY <1>1, <3>1 DEF RevokeOtherSessions, SessionType
    <3>2. CASE Expire(s) \/ \E by \in SessionIds : RevokeSession(s, by)
      BY <1>1, <1>2, <3>2 DEF Expire, RevokeSession, TablesOK
    <3> QED
      BY <1>3, <3>1, <3>2
  <2>2. token' \in [SessionIds -> 0..MaxUser]
    BY <1>1, <1>3, RecordTypes DEF RevokeOtherSessions, Expire, RevokeSession, TablesOK
  <2> QED
    BY <1>1, <1>3, <2>1, <2>2 DEF RevokeOtherSessions, Expire, RevokeSession, TablesOK
<1>4. ASSUME NEW c \in Calls, CreateSession(c)
      PROVE  TablesOK' /\ next' = [next EXCEPT !.session = @ + 1]
  <2>1. call[c].user \in UserIds /\ UserIds \subseteq 0..MaxUser /\ 0 \in 0..MaxWs
    BY <1>4, Pointers, RecordTypes DEF CreateSession, UserIds
  <2>2. [live |-> TRUE, user |-> call[c].user, ws |-> 0] \in SessionType
    BY <2>1 DEF SessionType
  <2>3. session' \in [SessionIds -> SessionType] /\ token' \in [SessionIds -> 0..MaxUser]
    BY <1>1, <1>4, <2>1, <2>2 DEF CreateSession, TablesOK
  <2> QED
    BY <1>1, <1>4, <2>3 DEF CreateSession, TablesOK
<1>5. ASSUME NEW c \in Calls, SetActiveWorkspace(c)
      PROVE  TablesOK' /\ next' = next
  <2>1. call[c].ws \in 0..MaxWs /\ call[c].session \in SessionIds
    BY <1>5, Pointers DEF SetActiveWorkspace
  <2>2. [session[call[c].session] EXCEPT !.ws = call[c].ws] \in SessionType
    BY <1>1, <2>1 DEF SessionType
  <2>3. session' \in [SessionIds -> SessionType]
    BY <1>1, <1>5, <2>1, <2>2 DEF SetActiveWorkspace, TablesOK
  <2> QED
    BY <1>1, <1>5, <2>3 DEF SetActiveWorkspace, TablesOK
<1> QED
  BY <1>1, <1>3, <1>4, <1>5 DEF NextType

LEMMA KeyTypes ==
    ASSUME TypeOK, CallInv, NEW c \in Calls,
           \/ CreateAPIKey(c) \/ RevokeAPIKey(c) \/ RollRevoke(c) \/ RollReplace(c)
           \/ CommitDelete(c)
    PROVE  TablesOK' /\ next' \in [user : 1..MaxUser + 1, ws : 1..MaxWs + 1,
                                   session : 1..MaxSession + 1, key : {next'.key}]
<1>1. /\ TablesOK /\ next \in NextType /\ \A k \in KeyIds : key[k] \in KeyType
      /\ 0 \in 0..MaxKey /\ KeyIds \subseteq 0..MaxKey /\ UserIds \subseteq 0..MaxUser
  BY TypeParts, RecordTypes DEF TablesOK, KeyIds, UserIds
<1>2. CASE CommitDelete(c)
  <2>1. {call[c].ws} \subseteq WsIds
    BY <1>2, Pointers DEF CommitDelete
  <2>2. TablesOK' /\ next' = next
    BY <1>1, <1>2, <2>1, CascadeType DEF CommitDelete, TablesOK, tables
  <2> QED
    BY <1>1, <2>2 DEF NextType
<1>3. CASE RevokeAPIKey(c) \/ RollRevoke(c)
  <2>1. \A k \in KeyIds : /\ [key[k] EXCEPT !.state = "revoked"] \in KeyType
                          /\ [key[k] EXCEPT !.state = IF @ = "none" THEN @ ELSE "revoked"] \in KeyType
    BY <1>1 DEF KeyType
  <2>2. RollRevoke(c) => call[c].target \in KeyIds
    BY Pointers DEF RollRevoke
  <2>3. key' \in [KeyIds -> KeyType]
    BY <1>1, <1>3, <2>1, <2>2 DEF RevokeAPIKey, RollRevoke, TablesOK
  <2> QED
    BY <1>1, <1>3, <2>3 DEF RevokeAPIKey, RollRevoke, TablesOK, NextType
<1>4. CASE CreateAPIKey(c) \/ RollReplace(c)
  <2>1. call[c].user \in 0..MaxUser /\ call[c].ws \in 0..MaxWs /\ call[c].target \in 0..MaxKey
    BY <1>1, <1>4 DEF TypeOK, CallType
  <2>2. \A p \in {0, call[c].target} :
          [state |-> "live", user |-> call[c].user, ws |-> call[c].ws, parent |-> p] \in KeyType
    BY <1>1, <2>1 DEF KeyType
  <2>3. \E p \in {0, call[c].target} : InsertKey(call[c].user, call[c].ws, p)
    BY <1>4 DEF CreateAPIKey, RollReplace
  <2>4. key' \in [KeyIds -> KeyType] /\ (next' = next \/ next' = [next EXCEPT !.key = @ + 1])
    BY <1>1, <2>2, <2>3 DEF InsertKey, TablesOK
  <2> QED
    BY <1>1, <1>4, <2>4 DEF CreateAPIKey, RollReplace, TablesOK, NextType
<1> QED
  BY <1>2, <1>3, <1>4

LEMMA Observes == [Next]_vars => Observe \/ UNCHANGED vars
BY DEF Next, CreateUser, SetActive, DeleteUser, SetMember, TransferOwnership, CreateWorkspace,
       RevokeOtherSessions, Expire, RevokeSession, Interceptor, Handler, Rest, Authorize,
       ValidateSession, ResolveHeader, ReadSessionWorkspace, CheckSessionWorkspace,
       ReadDefaultWorkspace, AuthorizeKey, ReadKeyUser, WorkspaceRole, UseWorkspace, CreateAPIKey,
       RevokeAPIKey, RollAPIKey, RollRevoke, RollReplace, Fail, Login, CreateSession,
       SwitchWorkspace, SetActiveWorkspace, DeleteWorkspace, CommitDelete

\* The other requests' steps read the tables.
LEMMA Reads ==
    ASSUME NEW c \in Calls, Interceptor(c) \/ Handler(c) \/ Rest(c)
    PROVE  \/ UNCHANGED tables
           \/ CreateAPIKey(c) \/ RevokeAPIKey(c) \/ RollRevoke(c) \/ RollReplace(c)
           \/ CommitDelete(c) \/ CreateSession(c) \/ SetActiveWorkspace(c)
BY DEF Interceptor, Handler, Rest, Authorize, ValidateSession, ResolveHeader,
       ReadSessionWorkspace, CheckSessionWorkspace, ReadDefaultWorkspace, AuthorizeKey,
       ReadKeyUser, WorkspaceRole, UseWorkspace, RollAPIKey, Fail, Login, SwitchWorkspace,
       DeleteWorkspace

LEMMA TypeStep ==
    ASSUME TypeOK, CallInv, BoundInv, KeyInv, [Next]_vars
    PROVE  TypeOK'
<1>1. TablesOK' /\ next' \in NextType
  <2>1. TablesOK /\ next \in NextType /\ UNCHANGED tables => TablesOK' /\ next' \in NextType
    BY DEF TablesOK, tables
  <2>2. next'.session \in 1..MaxSession + 1 /\ next'.key \in 1..MaxKey + 1
    BY BoundStep
  <2>3. UNCHANGED vars => UNCHANGED tables
    BY DEF vars, tables
  <2>4. ASSUME NEW c \in Calls, Interceptor(c) \/ Handler(c) \/ Rest(c)
        PROVE  TablesOK' /\ next' \in NextType
    <3>1. CASE UNCHANGED tables
      BY <2>1, <3>1, TypeParts
    <3>2. CASE CreateSession(c) \/ SetActiveWorkspace(c)
      BY <2>2, <3>2, SessionTypes DEF NextType
    <3>3. CASE \/ CreateAPIKey(c) \/ RevokeAPIKey(c) \/ RollRevoke(c) \/ RollReplace(c)
               \/ CommitDelete(c)
      BY <2>2, <3>3, KeyTypes DEF NextType
    <3> QED
      BY <2>4, <3>1, <3>2, <3>3, Reads
  <2>5. CASE \/ \E s \in SessionIds : RevokeOtherSessions(s) \/ Expire(s)
             \/ \E s, by \in SessionIds : RevokeSession(s, by)
    BY <2>2, <2>5, SessionTypes DEF NextType
  <2>6. CASE \/ CreateUser
             \/ \E u \in UserIds : SetActive(u) \/ DeleteUser(u)
             \/ \E u \in UserIds, w \in WsIds : SetMember(u, w) \/ TransferOwnership(u, w)
             \/ \E s \in SessionIds : CreateWorkspace(s)
    BY <2>6, AccountTypes
  <2> QED
    BY <2>1, <2>3, <2>4, <2>5, <2>6, TypeParts DEF Next
<1>2. call' \in [Calls -> CallType]
  BY CallStep
<1>3. had' \in [Calls -> [credential : BOOLEAN, active : BOOLEAN, access : BOOLEAN,
                          edit : BOOLEAN]]
  <2>1. CASE Observe
    <3>1. NoRights \in [credential : BOOLEAN, active : BOOLEAN, access : BOOLEAN, edit : BOOLEAN]
      BY DEF NoRights
    <3> QED
      BY <2>1, <3>1 DEF Observe
  <2>2. CASE UNCHANGED vars
    BY <2>2, TypeParts DEF vars
  <2> QED
    BY <2>1, <2>2, Observes
<1> QED
  BY <1>1, <1>2, <1>3 DEF TypeOK, TablesOK, NextType, UserType, SessionType, KeyType

\* A step goes on with one request at most.
LEMMA Moves ==
    ASSUME TypeOK, [Next]_vars, NEW c \in Calls
    PROVE  call'[c] = call[c] \/ Interceptor(c) \/ Handler(c) \/ Rest(c)
<1>1. CASE UNCHANGED call
  BY <1>1
<1>2. ASSUME NEW d \in Calls \ {c}, Interceptor(d)
      PROVE  call'[c] = call[c]
  BY <1>2
  DEF Interceptor, Authorize, ValidateSession, ResolveHeader, ReadSessionWorkspace,
      CheckSessionWorkspace, ReadDefaultWorkspace, AuthorizeKey, ReadKeyUser, WorkspaceRole,
      Begin, Goto, InWorkspace, End, TypeOK
<1>3. ASSUME NEW d \in Calls \ {c}, Handler(d)
      PROVE  call'[c] = call[c]
  BY <1>3
  DEF Handler, UseWorkspace, CreateAPIKey, RevokeAPIKey, RollAPIKey, RollRevoke, RollReplace,
      Fail, Goto, End, TypeOK
<1>4. ASSUME NEW d \in Calls \ {c}, Rest(d)
      PROVE  call'[c] = call[c]
  BY <1>4
  DEF Rest, Login, CreateSession, SwitchWorkspace, SetActiveWorkspace, DeleteWorkspace,
      CommitDelete, Begin, End, TypeOK
<1> QED
  BY <1>1, <1>2, <1>3, <1>4
  DEF Next, CreateUser, SetActive, DeleteUser, SetMember, TransferOwnership, CreateWorkspace,
      RevokeOtherSessions, Expire, RevokeSession, vars

\* The interceptor and the handlers go on with a gRPC call, or end it.
LEMMA GrpcMoves ==
    ASSUME TypeOK, NEW c \in Calls, Interceptor(c) \/ Handler(c)
    PROVE  call'[c].pc \in GrpcPcs \cup {"idle"}
<1>1. call \in [Calls -> CallType]
  BY DEF TypeOK
<1>2. ASSUME End(c) \/ (\E pc \in GrpcPcs : Goto(c, pc) \/ \E w : InWorkspace(c, w, pc))
      PROVE  call'[c].pc \in GrpcPcs \cup {"idle"}
  <2>1. CASE End(c)
    BY <1>1, <2>1 DEF End, Idle
  <2>2. ASSUME NEW pc \in GrpcPcs, Goto(c, pc) \/ \E w : InWorkspace(c, w, pc)
        PROVE  call'[c].pc = pc
    BY <1>1, <2>2 DEF Goto, InWorkspace, CallType
  <2> QED
    BY <1>2, <2>1, <2>2
<1>3. CASE Authorize(c) \/ AuthorizeKey(c)
  BY <1>3, Starts DEF GrpcPcs
<1>4. CASE RollAPIKey(c)
  BY <1>4, Starts DEF GrpcPcs
<1>5. CASE Interceptor(c)
  <2>1. \/ Authorize(c) \/ AuthorizeKey(c) \/ End(c)
        \/ \E pc \in GrpcPcs : Goto(c, pc) \/ \E w : InWorkspace(c, w, pc)
    BY <1>5
    DEF Interceptor, ValidateSession, ResolveHeader, ReadSessionWorkspace,
        CheckSessionWorkspace, ReadDefaultWorkspace, ReadKeyUser, WorkspaceRole, GrpcPcs
  <2> QED
    BY <1>2, <1>3, <2>1
<1>6. CASE Handler(c)
  <2>1. \/ RollAPIKey(c) \/ End(c) \/ \E pc \in GrpcPcs : Goto(c, pc)
    BY <1>6
    DEF Handler, UseWorkspace, CreateAPIKey, RevokeAPIKey, RollRevoke, RollReplace, Fail, GrpcPcs
  <2> QED
    BY <1>2, <1>4, <2>1
<1> QED
  BY <1>5, <1>6

-----------------------------------------------------------------------------
(* Keys. *)

\* A key is dropped or revoked,
KeysWeaken ==
    /\ next'.key = next.key
    /\ \A k \in KeyIds : \/ key'[k] = key[k]
                         \/ key'[k] = NoKey
                         \/ key[k] # NoKey /\ key'[k] = [key[k] EXCEPT !.state = "revoked"]

\* or inserted with the next id, as the replacement of one that has been revoked or of none.
KeyInserted(u, w, p) ==
    /\ next'.key = next.key + 1
    /\ u # 0
    /\ p = 0 \/ \E c \in Calls : call[c].pc = "replace" /\ p = call[c].target
    /\ key' = [key EXCEPT ![next.key] = [state |-> "live", user |-> u, ws |-> w, parent |-> p]]

LEMMA KeySteps ==
    ASSUME TypeOK, CallInv, KeyInv, [Next]_vars
    PROVE  KeysWeaken \/ \E u \in UserIds, w \in 0..MaxWs, p \in 0..MaxKey : KeyInserted(u, w, p)
<1>1. CASE UNCHANGED <<key, next>>
  BY <1>1 DEF KeysWeaken
<1>2. ASSUME NEW U, NEW W, Cascade(U, W)
      PROVE  KeysWeaken
  BY <1>2 DEF Cascade, KeysWeaken
<1>3. ASSUME NEW c \in Calls, RevokeAPIKey(c)
      PROVE  KeysWeaken
  <2>1. PICK k \in KeyIds : /\ key[k].user = call[c].user
                            /\ key' = [key EXCEPT ![k].state = "revoked"]
    BY <1>3 DEF RevokeAPIKey
  <2>2. call[c].user # 0 /\ next' = next
    BY <1>3 DEF RevokeAPIKey, Writes, CallInv, CallOK, GrpcPcs
  <2>3. key[k] # NoKey
    BY <2>1, <2>2 DEF NoKey
  <2> QED
    BY <2>1, <2>2, <2>3 DEF KeysWeaken, TypeOK
<1>4. ASSUME NEW c \in Calls, RollRevoke(c)
      PROVE  KeysWeaken
  <2> DEFINE k == call[c].target
  <2>1. k \in KeyIds
    BY <1>4, Pointers DEF RollRevoke
  <2>2. key' = [key EXCEPT ![k].state = IF @ = "none" THEN @ ELSE "revoked"] /\ next' = next
    BY <1>4 DEF RollRevoke
  <2>3. \/ key'[k] = key[k]
        \/ key[k].state # "none" /\ key'[k] = [key[k] EXCEPT !.state = "revoked"]
    BY <2>1, <2>2 DEF TypeOK
  <2>4. \A j \in KeyIds \ {k} : key'[j] = key[j]
    BY <2>2 DEF TypeOK
  <2> QED
    BY <2>2, <2>3, <2>4 DEF KeysWeaken, NoKey
<1>5. ASSUME NEW c \in Calls, CreateAPIKey(c) \/ RollReplace(c)
      PROVE  \/ UNCHANGED <<key, next>>
             \/ \E u \in UserIds, w \in 0..MaxWs, p \in 0..MaxKey : KeyInserted(u, w, p)
  <2>1. call[c].user \in UserIds /\ call[c].ws \in 0..MaxWs /\ call[c].user # 0
    <3>1. call[c].pc \in GrpcPcs
      BY <1>5 DEF CreateAPIKey, RollReplace, Writes, GrpcPcs
    <3> QED
      BY <3>1, Pointers DEF CallInv, CallOK
  <2>2. 0 \in 0..MaxKey /\ call[c].target \in 0..MaxKey
    <3>1. call[c] \in CallType
      BY DEF TypeOK
    <3> QED
      BY <3>1, Ranges DEF CallType
  <2>3. \/ UNCHANGED <<key, next>>
        \/ KeyInserted(call[c].user, call[c].ws, 0)
        \/ KeyInserted(call[c].user, call[c].ws, call[c].target)
    <3>1. \E p \in {0, call[c].target} :
            /\ InsertKey(call[c].user, call[c].ws, p)
            /\ p = 0 \/ call[c].pc = "replace"
      BY <1>5 DEF CreateAPIKey, RollReplace
    <3> QED
      BY <2>1, <3>1 DEF InsertKey, KeyInserted, TypeOK
  <2> QED
    BY <2>1, <2>2, <2>3
<1>6. ASSUME NEW c \in Calls, CreateSession(c) \/ SetActiveWorkspace(c)
      PROVE  KeysWeaken
  BY <1>6 DEF CreateSession, SetActiveWorkspace, KeysWeaken, TypeOK
<1>7. ASSUME NEW c \in Calls, Interceptor(c) \/ Handler(c) \/ Rest(c)
      PROVE  KeysWeaken \/ \E u \in UserIds, w \in 0..MaxWs, p \in 0..MaxKey : KeyInserted(u, w, p)
  BY <1>1, <1>2, <1>3, <1>4, <1>5, <1>6, <1>7, Reads DEF CommitDelete, tables
<1>8. CASE CreateUser \/ \E s \in SessionIds : CreateWorkspace(s)
  BY <1>8 DEF CreateUser, CreateWorkspace, KeysWeaken, TypeOK
<1> QED
  BY <1>1, <1>2, <1>7, <1>8
  DEF Next, SetActive, DeleteUser, SetMember, TransferOwnership,
      RevokeOtherSessions, Expire, RevokeSession, vars

\* How a request comes by the key it rolls.
LEMMA TargetSteps ==
    ASSUME TypeOK, CallInv, KeyInv, [Next]_vars, NEW c \in Calls
    PROVE  \/ call'[c] = call[c]
           \/ call'[c].target = 0 /\ call'[c].pc # "replace"
           \/ /\ RollAPIKey(c)
              /\ call'[c].pc = "roll" /\ call'[c].target \in KeyIds
              /\ key[call'[c].target].state = "live"
           \/ RollRevoke(c) /\ call'[c].target = call[c].target
<1>1. call \in [Calls -> CallType] /\ call[c] \in CallType
  BY DEF TypeOK
<1>2. call'[c].pc \notin {"roll", "replace"} => call'[c].target = 0
  BY CallStep DEF CallInv, CallOK
<1>3. CASE End(c)
  BY <1>1, <1>2, <1>3 DEF End, Idle
<1>4. CASE Interceptor(c)
  <2>1. CASE Authorize(c) \/ AuthorizeKey(c)
    <3>1. call'[c].pc \in {"session", "key user"}
      BY <2>1, Starts
    <3> QED
      BY <1>2, <3>1
  <2>2. ASSUME NEW pc \in Pcs \ {"roll", "replace"}, Goto(c, pc) \/ \E w : InWorkspace(c, w, pc)
        PROVE  call'[c].target = 0 /\ call'[c].pc # "replace"
    <3>1. call'[c].pc = pc
      BY <1>1, <2>2 DEF Goto, InWorkspace, CallType
    <3> QED
      BY <1>2, <2>2, <3>1
  <2>3. \/ Authorize(c) \/ AuthorizeKey(c) \/ End(c)
        \/ \E pc \in Pcs \ {"roll", "replace"} : Goto(c, pc) \/ \E w : InWorkspace(c, w, pc)
    BY <1>4
    DEF Interceptor, ValidateSession, ResolveHeader, ReadSessionWorkspace,
        CheckSessionWorkspace, ReadDefaultWorkspace, ReadKeyUser, WorkspaceRole, Pcs
  <2> QED
    BY <1>3, <2>1, <2>2, <2>3
<1>5. CASE RollAPIKey(c)
  <2>1. PICK k \in KeyIds :
          /\ key[k].state = "live"
          /\ call' = [call EXCEPT ![c].pc = "roll", ![c].target = k, ![c].ws = key[k].ws]
    BY <1>5 DEF RollAPIKey
  <2>2. call'[c].pc = "roll" /\ call'[c].target = k
    BY <1>1, <2>1 DEF CallType
  <2> QED
    BY <1>5, <2>1, <2>2
<1>6. CASE RollRevoke(c)
  <2>1. call'[c] = [call[c] EXCEPT !.pc = "replace"]
    BY <1>6, Starts DEF RollRevoke
  <2> QED
    BY <1>1, <1>6, <2>1 DEF CallType
<1>7. CASE Rest(c)
  <2>1. CASE Login(c) \/ SwitchWorkspace(c) \/ DeleteWorkspace(c)
    <3>1. call'[c].pc \in {"login", "switch", "delete"}
      BY <2>1, Starts
    <3> QED
      BY <1>2, <3>1
  <2> QED
    BY <1>3, <1>7, <2>1 DEF Rest, CreateSession, SetActiveWorkspace, CommitDelete
<1> QED
  BY <1>3, <1>4, <1>5, <1>6, <1>7, Moves
  DEF Handler, UseWorkspace, CreateAPIKey, RevokeAPIKey, RollReplace, Fail

LEMMA KeyStep ==
    ASSUME TypeOK, CallInv, KeyInv, [Next]_vars
    PROVE  KeyInv'
<1>1. /\ key \in [KeyIds -> KeyType] /\ next.key \in Nat /\ next.key >= 1
      /\ \A k \in KeyIds : key[k].parent \in Nat /\ (key[k].parent # 0 => key[k].parent \in KeyIds)
      /\ NoKey.parent = 0 /\ NoKey.state = "none" /\ NoKey.user = 0
      /\ KeyIds \subseteq Nat \ {0} /\ MaxKey \in Nat
  <2>1. key \in [KeyIds -> KeyType] /\ next.key \in 1..MaxKey + 1
    BY DEF TypeOK, KeyType
  <2>2. \A k \in KeyIds : key[k].parent \in 0..MaxKey
    BY <2>1 DEF KeyType
  <2>3. NoKey.parent = 0 /\ NoKey.state = "none" /\ NoKey.user = 0
    BY DEF NoKey
  <2>4. MaxKey \in Nat
    BY RecordTypes
  <2> QED
    BY <2>1, <2>2, <2>3, <2>4, Ranges
<1>2. next'.key >= next.key /\ next'.key \in Nat
  <2>1. next'.key = next.key \/ next'.key = next.key + 1
    BY KeySteps DEF KeysWeaken, KeyInserted
  <2> QED
    BY <1>1, <2>1
<1>3. ASSUME NEW k \in KeyIds, k < next.key, key[k].state # "live"
      PROVE  key'[k].state # "live"
  <2>1. CASE KeysWeaken
    BY <1>1, <1>3, <2>1 DEF KeysWeaken, KeyType
  <2>2. ASSUME NEW u, NEW w, NEW p, KeyInserted(u, w, p)
        PROVE  key'[k].state # "live"
    BY <1>1, <1>3, <2>2 DEF KeyInserted
  <2> QED
    BY <2>1, <2>2, KeySteps
<1>4. ASSUME NEW k \in KeyIds
      PROVE  /\ k >= next'.key => key'[k] = NoKey
             /\ key'[k].state = "live" => key'[k].user # 0
             /\ key'[k].parent < next'.key
             /\ key'[k].parent # 0 => key'[key'[k].parent].state # "live"
  <2>1. CASE KeysWeaken /\ key'[k] = NoKey
    BY <1>1, <2>1 DEF KeysWeaken
  <2>2. CASE KeysWeaken /\ key'[k] = key[k]
    BY <1>1, <1>3, <2>2 DEF KeysWeaken, KeyInv
  <2>3. CASE KeysWeaken /\ key[k] # NoKey /\ key'[k] = [key[k] EXCEPT !.state = "revoked"]
    <3>1. /\ key'[k].state # "live" /\ key'[k].parent = key[k].parent /\ k < next.key
          /\ next'.key = next.key
      BY <1>1, <2>3 DEF KeyInv, KeyType, KeysWeaken
    <3> QED
      BY <1>1, <1>3, <3>1 DEF KeyInv
  <2>4. ASSUME NEW u, NEW w, NEW p \in 0..MaxKey, KeyInserted(u, w, p)
        PROVE  /\ k >= next'.key => key'[k] = NoKey
               /\ key'[k].state = "live" => key'[k].user # 0
               /\ key'[k].parent < next'.key
               /\ key'[k].parent # 0 => key'[key'[k].parent].state # "live"
    <3>1. p < next.key /\ (p # 0 => p \in KeyIds /\ key[p].state # "live")
      <4>1. p # 0 => p \in KeyIds
        BY <1>1 DEF KeyIds
      <4> QED
        BY <1>1, <2>4, <4>1 DEF KeyInserted, KeyInv
    <3>2. CASE k = next.key
      <4>1. key'[k].user = u /\ key'[k].parent = p
        BY <1>1, <2>4, <3>2 DEF KeyInserted
      <4> QED
        BY <1>1, <1>3, <2>4, <3>1, <3>2, <4>1 DEF KeyInserted
    <3>3. CASE k # next.key
      <4>1. key'[k] = key[k] /\ next'.key = next.key + 1
        BY <1>1, <2>4, <3>3 DEF KeyInserted
      <4> QED
        BY <1>1, <1>3, <3>3, <4>1 DEF KeyInv
    <3> QED
      BY <3>2, <3>3
  <2> QED
    BY <2>1, <2>2, <2>3, <2>4, KeySteps DEF KeysWeaken
<1>5. ASSUME NEW c \in Calls
      PROVE  /\ call'[c].target < next'.key
             /\ call'[c].pc = "replace" => key'[call'[c].target].state # "live"
  <2>1. /\ call[c].target \in Nat /\ call[c].target < next.key
        /\ call[c].pc \in {"roll", "replace"} => call[c].target \in KeyIds
    <3>1. call[c] \in CallType
      BY DEF TypeOK
    <3>2. call[c].target \in 0..MaxKey /\ call[c].target < next.key
      BY <3>1 DEF KeyInv, CallType
    <3> QED
      BY <1>1, <3>2, Pointers
  <2>2. CASE call'[c] = call[c]
    BY <1>1, <1>2, <1>3, <2>1, <2>2 DEF KeyInv
  <2>3. CASE call'[c].target = 0 /\ call'[c].pc # "replace"
    <3>1. 0 < next'.key
      BY <1>1, <1>2
    <3> QED
      BY <2>3, <3>1
  <2>4. CASE call'[c].pc = "roll" /\ call'[c].target \in KeyIds /\ key[call'[c].target].state = "live"
    <3>1. ASSUME NEW k \in KeyIds, key[k].state = "live"
          PROVE  k < next.key
      <4>1. k >= next.key => key[k] = NoKey
        BY DEF KeyInv
      <4> QED
        BY <1>1, <3>1, <4>1
    <3>2. call'[c].target < next'.key
      <4>1. call'[c].target \in Nat /\ call'[c].target < next.key
        BY <2>4, <3>1, Ranges
      <4> QED
        BY <1>1, <1>2, <4>1
    <3> QED
      BY <2>4, <3>2
  <2>5. CASE RollRevoke(c) /\ call'[c].target = call[c].target
    <3>1. key'[call[c].target].state # "live"
      BY <1>1, <2>1, <2>5 DEF RollRevoke, KeyType
    <3> QED
      BY <1>1, <1>2, <2>1, <2>5, <3>1
  <2> QED
    BY <2>2, <2>3, <2>4, <2>5, TargetSteps
<1> QED
  BY <1>4, <1>5 DEF KeyInv

-----------------------------------------------------------------------------
(* Rights. *)

\* The history keeps what it has seen of a gRPC call, and sees what is so now.
LEMMA Remembers ==
    ASSUME Observe, NEW c \in Calls, call'[c].op \in {"read", "write"}
    PROVE  /\ had[c].credential => had'[c].credential
           /\ had[c].active => had'[c].active
           /\ call'[c].ws = call[c].ws => /\ had[c].access => had'[c].access
                                          /\ had[c].edit => had'[c].edit
BY DEF Observe

LEMMA Sees ==
    ASSUME Observe, UNCHANGED tables, NEW c \in Calls, call'[c].op \in {"read", "write"}
    PROVE  LET r == call'[c] IN
           /\ r.session # 0 /\ session[r.session].live => had'[c].credential
           /\ r.session = 0 /\ key[r.key].state = "live" => had'[c].credential
           /\ users[r.user].status = "active" => had'[c].active
           /\ CanAccess(r.user, r.ws) => had'[c].access
           /\ r.ws # 0 /\ member[r.user][r.ws] # "viewer" => had'[c].edit
BY DEF Observe, Rights, CanAccess, tables

LEMMA HistStep ==
    ASSUME TypeOK, CallInv, KeyInv, HistInv, [Next]_vars
    PROVE  HistInv'
<1> SUFFICES ASSUME NEW c \in Calls
             PROVE  HistOK(call'[c], had'[c])
  BY DEF HistInv
<1> DEFINE r == call[c]
<1>1. /\ call \in [Calls -> CallType] /\ r \in CallType /\ CallOK(r) /\ HistOK(r, had[c])
      /\ CallOK(call'[c])
  BY CallStep DEF TypeOK, CallInv, HistInv
<1>2. CASE UNCHANGED vars
  BY <1>1, <1>2 DEF vars
<1>3. CASE Observe /\ call'[c] = r
  <2>1. CASE r.op \in {"read", "write"}
    BY <1>1, <1>3, <2>1, Remembers DEF HistOK
  <2>2. CASE r.op \notin {"read", "write"}
    BY <1>1, <1>3, <2>2 DEF HistOK, CallOK, GrpcPcs
  <2> QED
    BY <2>1, <2>2
<1>4. CASE call'[c].pc \notin {"header", "stored", "check", "default", "key user", "role", "handler"}
  BY <1>4 DEF HistOK
<1>5. CASE End(c)
  BY <1>1, <1>4, <1>5 DEF End, Idle
<1>6. ASSUME NEW pc \in Pcs, Goto(c, pc)
      PROVE  /\ call'[c].pc = pc /\ call'[c].ws = r.ws
             /\ call'[c].op = r.op /\ call'[c].user = r.user /\ call'[c].session = r.session
             /\ call'[c].key = r.key
  BY <1>1, <1>6 DEF Goto, CallType
<1>7. ASSUME NEW w, NEW pc \in Pcs, InWorkspace(c, w, pc)
      PROVE  /\ call'[c].pc = pc /\ call'[c].ws = w
             /\ call'[c].op = r.op /\ call'[c].user = r.user /\ call'[c].session = r.session
             /\ call'[c].key = r.key
  BY <1>1, <1>7 DEF InWorkspace, CallType
<1>8. CASE ValidateSession(c) /\ ~End(c)
  <2>1. /\ Goto(c, "header") /\ session[r.session].live
        /\ r.pc = "session" /\ UNCHANGED tables /\ Observe
    BY <1>8 DEF ValidateSession
  <2>2. /\ call'[c].pc = "header" /\ call'[c].session = r.session /\ r.session # 0
        /\ call'[c].op \in {"read", "write"}
    BY <1>1, <1>6, <2>1 DEF CallOK, GrpcPcs, SessionPcs, Pcs
  <2>3. had'[c].credential
    BY <2>1, <2>2, Sees
  <2> QED
    BY <2>2, <2>3 DEF HistOK
<1>9. ASSUME ResolveHeader(c) \/ ReadSessionWorkspace(c) \/ CheckSessionWorkspace(c),
             call'[c].pc \in {"stored", "check", "default"}
      PROVE  HistOK(call'[c], had'[c])
  <2>1. r.pc \in {"header", "stored", "check"} /\ Observe
    BY <1>9 DEF ResolveHeader, ReadSessionWorkspace, CheckSessionWorkspace
  <2>2. call'[c].op \in {"read", "write"}
    BY <1>1, <1>9 DEF CallOK, GrpcPcs
  <2>3. had'[c].credential
    BY <1>1, <2>1, <2>2, Remembers DEF HistOK
  <2> QED
    BY <1>9, <2>3 DEF HistOK
<1>10. ASSUME \/ ResolveHeader(c) \/ ReadSessionWorkspace(c) \/ CheckSessionWorkspace(c)
              \/ ReadDefaultWorkspace(c),
              call'[c].pc = "role"
       PROVE  HistOK(call'[c], had'[c])
  <2>1. r.pc \in {"header", "stored", "check", "default"} /\ Observe /\ UNCHANGED tables
    BY <1>10 DEF ResolveHeader, ReadSessionWorkspace, CheckSessionWorkspace, ReadDefaultWorkspace
  <2>2. r.session # 0 /\ r.key = 0
    BY <1>1, <2>1 DEF CallOK, GrpcPcs, SessionPcs
  <2>3. call'[c].op \in {"read", "write"}
    BY <1>1, <1>10 DEF CallOK, GrpcPcs
  <2>4. had'[c].credential
    BY <1>1, <2>1, <2>3, Remembers DEF HistOK
  <2>5. /\ call'[c].key = 0
        /\ call'[c].ws # 0 => CanAccess(call'[c].user, call'[c].ws)
    <3>1. ASSUME NEW w \in WsIds, CanAccess(r.user, w), InWorkspace(c, w, "role")
          PROVE  call'[c].key = 0 /\ CanAccess(call'[c].user, call'[c].ws)
      BY <1>7, <2>2, <3>1 DEF Pcs
    <3>2. ASSUME CanAccess(r.user, r.ws), Goto(c, "role")
          PROVE  call'[c].key = 0 /\ CanAccess(call'[c].user, call'[c].ws)
      BY <1>6, <2>2, <3>2 DEF Pcs
    <3>3. ASSUME InWorkspace(c, users[r.user].home, "role")
          PROVE  call'[c].key = 0 /\ (call'[c].ws # 0 => CanAccess(call'[c].user, call'[c].ws))
      BY <1>7, <2>2, <3>3 DEF Pcs, CanAccess
    <3>4. \A pc \in {"stored", "check", "default"} :
             ~Goto(c, pc) /\ \A w : ~InWorkspace(c, w, pc)
      BY <1>6, <1>7, <1>10 DEF Pcs
    <3>5. ~End(c)
      BY <1>1, <1>10 DEF End, Idle
    <3> QED
      BY <1>10, <3>1, <3>2, <3>3, <3>4, <3>5
      DEF ResolveHeader, ReadSessionWorkspace, CheckSessionWorkspace, ReadDefaultWorkspace
  <2>6. call'[c].ws # 0 => had'[c].access
    BY <2>1, <2>3, <2>5, Sees
  <2> QED
    BY <1>10, <2>4, <2>5, <2>6 DEF HistOK
<1>11. CASE AuthorizeKey(c)
  <2>1. PICK k \in KeyIds, op \in {"read", "write"} :
          /\ key[k].state = "live"
          /\ call' = [call EXCEPT ![c] = [Idle EXCEPT !.pc = "key user", !.op = op,
                                              !.user = key[k].user, !.key = k, !.ws = key[k].ws]]
    BY <1>11 DEF AuthorizeKey, Begin
  <2>2. /\ call'[c].pc = "key user" /\ call'[c].key = k /\ call'[c].session = 0
        /\ call'[c].op \in {"read", "write"}
    BY <1>1, <2>1 DEF Idle
  <2>3. Observe /\ UNCHANGED tables
    BY <1>11 DEF AuthorizeKey
  <2>4. had'[c].credential
    BY <2>1, <2>2, <2>3, Sees
  <2> QED
    BY <2>2, <2>4 DEF HistOK
<1>12. CASE ReadKeyUser(c) /\ ~End(c)
  <2>1. /\ Goto(c, "role") /\ users[r.user].status = "active"
        /\ r.pc = "key user" /\ UNCHANGED tables /\ Observe
    BY <1>12 DEF ReadKeyUser
  <2>2. /\ call'[c].pc = "role" /\ call'[c].key = r.key /\ r.key # 0 /\ call'[c].user = r.user
        /\ call'[c].op \in {"read", "write"}
    BY <1>1, <1>6, <2>1 DEF CallOK, GrpcPcs, Pcs
  <2>3. had'[c].credential /\ had'[c].active
    BY <1>1, <2>1, <2>2, Sees, Remembers DEF HistOK
  <2> QED
    BY <2>2, <2>3 DEF HistOK
<1>13. CASE WorkspaceRole(c) /\ ~End(c)
  <2>1. /\ Goto(c, "handler") /\ r.pc = "role" /\ UNCHANGED tables /\ Observe
        /\ r.op = "write" /\ r.ws # 0 => member[r.user][r.ws] # "viewer"
    BY <1>13 DEF WorkspaceRole
  <2>2. /\ call'[c].pc = "handler" /\ call'[c].key = r.key /\ call'[c].user = r.user
        /\ call'[c].ws = r.ws /\ call'[c].op = r.op /\ r.op \in {"read", "write"}
    BY <1>1, <1>6, <2>1 DEF CallOK, GrpcPcs, Pcs
  <2>3. r.op = "write" /\ r.ws # 0 => had'[c].edit
    BY <2>1, <2>2, Sees
  <2>4. /\ had'[c].credential /\ (r.key # 0 => had'[c].active)
        /\ r.key = 0 /\ r.ws # 0 => had'[c].access
    BY <1>1, <2>1, <2>2, Remembers DEF HistOK
  <2> QED
    BY <2>2, <2>3, <2>4 DEF HistOK
<1>14. CASE Handler(c)
  <2>1. CASE RollAPIKey(c)
    <3>1. call'[c].pc = "roll"
      BY <2>1, Starts
    <3> QED
      BY <1>4, <3>1
  <2>2. CASE RollRevoke(c)
    <3>1. call'[c].pc = "replace"
      BY <1>6, <2>2 DEF RollRevoke, Pcs
    <3> QED
      BY <1>4, <3>1
  <2> QED
    BY <1>5, <1>14, <2>1, <2>2
    DEF Handler, UseWorkspace, CreateAPIKey, RevokeAPIKey, RollReplace, Fail
<1>15. CASE Rest(c) \/ Authorize(c)
  <2>1. CASE Login(c) \/ SwitchWorkspace(c)
    <3>1. call'[c].pc \in {"login", "switch"}
      BY <2>1, Starts
    <3> QED
      BY <1>4, <3>1
  <2>2. CASE DeleteWorkspace(c) \/ Authorize(c)
    <3>1. call'[c].pc \in {"delete", "session"}
      BY <2>2, Starts
    <3> QED
      BY <1>4, <3>1
  <2> QED
    BY <1>5, <1>15, <2>1, <2>2 DEF Rest, CreateSession, SetActiveWorkspace, CommitDelete
<1>16. CASE Interceptor(c)
  <2>1. ASSUME \/ ResolveHeader(c) \/ ReadSessionWorkspace(c) \/ CheckSessionWorkspace(c)
               \/ ReadDefaultWorkspace(c)
        PROVE  End(c) \/ call'[c].pc \in {"stored", "check", "default", "role"}
    <3>1. \/ End(c) \/ \E pc \in {"stored", "check", "default", "role"} :
                           Goto(c, pc) \/ \E w : InWorkspace(c, w, pc)
      BY <2>1
      DEF ResolveHeader, ReadSessionWorkspace, CheckSessionWorkspace, ReadDefaultWorkspace
    <3> QED
      BY <1>6, <1>7, <3>1 DEF Pcs
  <2>2. ReadDefaultWorkspace(c) => End(c) \/ call'[c].pc = "role"
    BY <1>7 DEF ReadDefaultWorkspace, Pcs
  <2> QED
    BY <1>5, <1>8, <1>9, <1>10, <1>11, <1>12, <1>13, <1>15, <1>16, <2>1, <2>2 DEF Interceptor
<1> QED
  BY <1>2, <1>3, <1>14, <1>15, <1>16, Moves, Observes

-----------------------------------------------------------------------------
(* Personal workspaces. *)

\* A home is given to a new account, and otherwise only lost.
LEMMA HomeSteps ==
    ASSUME TypeOK, CallInv, HomeInv, [Next]_vars, NEW u \in UserIds
    PROVE  /\ next'.user >= next.user
           /\ u >= next'.user => users'[u] = NoAccount
           /\ u < next.user => users'[u].home \in {users[u].home, 0}
<1>1. /\ next.user \in Nat /\ u \in Nat /\ users \in [UserIds -> UserType]
      /\ u >= next.user => users[u] = NoAccount
  BY Ranges DEF TypeOK, UserType, HomeInv
<1>2. CASE UNCHANGED <<users, next>>
  BY <1>1, <1>2
<1>3. ASSUME NEW U \in SUBSET UserIds, NEW W \in SUBSET WsIds, Cascade(U, W)
      PROVE  /\ next'.user >= next.user
             /\ u >= next'.user => users'[u] = NoAccount
             /\ u < next.user => users'[u].home \in {users[u].home, 0}
  <2>1. next' = next /\ 0 \notin W
    BY <1>3, Ranges DEF Cascade
  <2>2. \/ users'[u] = NoAccount
        \/ users'[u] = [users[u] EXCEPT !.home = IF @ \in W THEN 0 ELSE @]
    BY <1>3 DEF Cascade
  <2>3. users[u] = NoAccount => users'[u] = NoAccount
    BY <2>1, <2>2 DEF NoAccount
  <2>4. users'[u].home \in {users[u].home, 0}
    BY <1>1, <2>2 DEF NoAccount, UserType
  <2> QED
    BY <1>1, <2>1, <2>3, <2>4
<1>4. CASE CreateUser
  <2>1. /\ next'.user = next.user + 1
        /\ users' = [users EXCEPT ![next.user] = [status |-> "active", home |-> next.ws]]
    BY <1>4 DEF CreateUser, TypeOK
  <2>2. u # next.user => users'[u] = users[u]
    BY <1>1, <2>1
  <2> QED
    BY <1>1, <2>1, <2>2
<1>5. ASSUME NEW v \in UserIds, SetActive(v)
      PROVE  /\ next'.user >= next.user
             /\ u >= next'.user => users'[u] = NoAccount
             /\ u < next.user => users'[u].home \in {users[u].home, 0}
  <2>1. next' = next /\ users'[u].home = users[u].home
    BY <1>1, <1>5 DEF SetActive, UserType
  <2>2. users[u] = NoAccount => users'[u] = NoAccount
    BY <1>1, <1>5 DEF SetActive, Exists, NoAccount
  <2> QED
    BY <1>1, <2>1, <2>2
<1>6. ASSUME NEW c \in Calls, CommitDelete(c)
      PROVE  (Cascade({}, {call[c].ws}) /\ call[c].ws \in WsIds) \/ UNCHANGED <<users, next>>
  BY <1>6, Pointers DEF CommitDelete, tables
<1>7. ASSUME UNCHANGED users, next'.user = next.user
      PROVE  /\ next'.user >= next.user
             /\ u >= next'.user => users'[u] = NoAccount
             /\ u < next.user => users'[u].home \in {users[u].home, 0}
  BY <1>1, <1>7
<1>8. ASSUME NEW c \in Calls, Interceptor(c) \/ Handler(c) \/ Rest(c)
      PROVE  \/ UNCHANGED users /\ next'.user = next.user
             \/ CommitDelete(c)
  BY <1>8, Reads
  DEF CreateAPIKey, RevokeAPIKey, RollRevoke, RollReplace, InsertKey, CreateSession,
      SetActiveWorkspace, tables, TypeOK
<1>9. ASSUME NEW v \in UserIds, DeleteUser(v)
      PROVE  /\ next'.user >= next.user
             /\ u >= next'.user => users'[u] = NoAccount
             /\ u < next.user => users'[u].home \in {users[u].home, 0}
  <2>1. Cascade({v}, {w \in WsIds : owner[w] = v})
    BY <1>9 DEF DeleteUser
  <2> QED
    BY <1>3, <2>1
<1>10. ASSUME NEW s \in SessionIds, CreateWorkspace(s)
       PROVE  UNCHANGED users /\ next'.user = next.user
  BY <1>10 DEF CreateWorkspace, TypeOK
<1>11. ASSUME NEW c \in Calls, CommitDelete(c)
       PROVE  /\ next'.user >= next.user
              /\ u >= next'.user => users'[u] = NoAccount
              /\ u < next.user => users'[u].home \in {users[u].home, 0}
  <2>1. CASE Cascade({}, {call[c].ws}) /\ call[c].ws \in WsIds
    BY <1>3, <2>1
  <2> QED
    BY <1>2, <1>6, <1>11, <2>1
<1> QED
  BY <1>2, <1>4, <1>5, <1>7, <1>8, <1>9, <1>10, <1>11
  DEF Next, SetMember, TransferOwnership, RevokeOtherSessions, Expire, RevokeSession, vars

LEMMA HomeStep ==
    ASSUME TypeOK, CallInv, BoundInv, KeyInv, HomeInv, [Next]_vars
    PROVE  HomeInv'
<1>1. ASSUME NEW u \in UserIds
      PROVE  u >= next'.user => users'[u] = NoAccount
  BY HomeSteps
<1>2. ASSUME NEW c \in Calls, call'[c].pc = "delete"
      PROVE  call'[c].user < next'.user /\ users'[call'[c].user].home # call'[c].ws
  <2>1. /\ call'[c].user \in UserIds /\ call'[c].ws # 0
    <3>1. call'[c] \in CallType /\ CallOK(call'[c])
      BY CallStep DEF CallInv
    <3>2. call'[c].user \in 0..MaxUser /\ call'[c].user # 0 /\ call'[c].ws # 0
      BY <1>2, <3>1 DEF CallType, CallOK
    <3> QED
      BY <3>2, Ranges
  <2>2. call'[c].user < next.user /\ users[call'[c].user].home # call'[c].ws
    <3>1. CASE call'[c] = call[c]
      BY <1>2, <3>1 DEF HomeInv
    <3>2. CASE DeleteWorkspace(c)
      <4>1. PICK s \in SessionIds, w \in WsIds :
              /\ token[s] # 0 /\ Exists(token[s]) /\ users[token[s]].home # w
              /\ call' = [call EXCEPT ![c] = [Idle EXCEPT !.pc = "delete", !.op = "delete",
                                                          !.user = token[s], !.ws = w]]
        BY <3>2 DEF DeleteWorkspace, Begin
      <4>2. call'[c].user = token[s] /\ call'[c].ws = w
        BY <4>1 DEF TypeOK, Idle
      <4>3. token[s] \in UserIds /\ users[token[s]] # NoAccount
        BY <4>1, Ranges DEF TypeOK, Exists, NoAccount
      <4>4. ~(token[s] >= next.user)
        BY <4>3 DEF HomeInv
      <4>5. token[s] < next.user
        BY <4>3, <4>4, Ranges DEF TypeOK
      <4> QED
        BY <4>1, <4>2, <4>5
    <3>3. call \in [Calls -> CallType] /\ call[c] \in CallType
      BY DEF TypeOK
    <3>4. CASE Rest(c) /\ ~DeleteWorkspace(c)
      <4>1. CASE Login(c) \/ SwitchWorkspace(c)
        BY <1>2, <3>3, <4>1 DEF Login, SwitchWorkspace, Begin, Idle
      <4>2. CASE End(c)
        BY <1>2, <3>3, <4>2 DEF End, Idle
      <4> QED
        BY <3>4, <4>1, <4>2 DEF Rest, CreateSession, SetActiveWorkspace, CommitDelete
    <3>5. ~Interceptor(c) /\ ~Handler(c)
      <4>1. call'[c].pc \notin GrpcPcs \cup {"idle"}
        BY <1>2 DEF GrpcPcs
      <4> QED
        BY <4>1, GrpcMoves
    <3> QED
      BY <3>1, <3>2, <3>4, <3>5, Moves
  <2>3. users'[call'[c].user].home \in {users[call'[c].user].home, 0} /\ next'.user >= next.user
    BY <2>1, <2>2, HomeSteps
  <2>4. next.user \in Nat /\ next'.user \in Nat /\ call'[c].user \in Nat
    <3>1. next \in NextType /\ next' \in NextType
      BY TypeStep DEF TypeOK, NextType
    <3> QED
      BY <2>1, <3>1, RecordTypes, Ranges DEF NextType
  <2>5. call'[c].user < next'.user
    BY <2>2, <2>3, <2>4
  <2> QED
    BY <2>1, <2>2, <2>3, <2>5
<1> QED
  BY <1>1, <1>2 DEF HomeInv

-----------------------------------------------------------------------------
(* The theorems. *)

LEMMA AccessInit == Init => AccessInv
<1> SUFFICES ASSUME Init
             PROVE  AccessInv
  OBVIOUS
<1> USE DEF Init
<1>1. TypeOK
  <2>1. TablesOK
    BY RecordTypes, Ranges DEF TablesOK
  <2>2. next \in NextType
    BY RecordTypes DEF NextType
  <2>3. call \in [Calls -> CallType]
    BY RecordTypes
  <2> QED
    BY <2>1, <2>2, <2>3, TypeParts DEF NoRights
<1>2. CallInv
  BY RecordTypes DEF CallInv
<1>3. BoundInv
  <2>1. Logins = {} /\ Rolls = {}
    BY DEF Logins, Rolls, Idle
  <2>2. IsFiniteSet({}) /\ Cardinality({}) = 0
    BY FS_EmptySet
  <2> QED
    BY <2>1, <2>2, RecordTypes DEF BoundInv
<1>4. KeyInv
  BY RecordTypes DEF KeyInv, NoKey, Idle
<1>5. HistInv
  BY DEF HistInv, HistOK, Idle
<1>6. HomeInv
  BY DEF HomeInv, Idle
<1> QED
  BY <1>1, <1>2, <1>3, <1>4, <1>5, <1>6 DEF AccessInv

LEMMA AccessStep == AccessInv /\ [Next]_vars => AccessInv'
BY TypeStep, CallStep, BoundStep, KeyStep, HistStep, HomeStep DEF AccessInv

LEMMA AccessInvariant == Spec => []AccessInv
BY AccessInit, AccessStep, PTL DEF Spec

\* Every variable keeps its type; in particular no id is given twice and no request points
\* to a row that was never there.
THEOREM TypeCorrect == Spec => []TypeOK
<1>1. AccessInv => TypeOK
  BY DEF AccessInv
<1> QED
  BY <1>1, AccessInvariant, PTL

\* A call reaches its handler with a workspace only if during the call its session was live
\* and its user could enter that workspace, or its key was live and its user active: whatever
\* other requests change between the interceptor's statements.
THEOREM RightsAreHeld == Spec => []RightsHeld
<1>1. AccessInv => RightsHeld
  BY DEF AccessInv, HistInv, HistOK, RightsHeld
<1> QED
  BY <1>1, AccessInvariant, PTL

\* A writing call reaches its handler only if its user was not a viewer of the call's
\* workspace at some moment of the call.
THEOREM ViewersDoNotWrite == Spec => []ViewerNeverWrites
<1>1. AccessInv => ViewerNeverWrites
  BY DEF AccessInv, HistInv, HistOK, ViewerNeverWrites, Writes
<1> QED
  BY <1>1, AccessInvariant, PTL

\* A key that was rolled is never live beside or after its replacement, also when two calls
\* roll it at once or a statement of the roll fails.
THEOREM RolledKeysAreDead == Spec => []RolledKeyIsDead
<1>1. AccessInv => RolledKeyIsDead
  BY DEF AccessInv, KeyInv, RolledKeyIsDead
<1> QED
  BY <1>1, AccessInvariant, PTL

\* A workspace that goes while its owner stays is not that owner's home, also when the
\* ownership changed hands and back between the check and the DELETE.
THEOREM PersonalWorkspacesStay == Spec => PersonalWorkspaceKept
<1> DEFINE Kept == \A w \in WsIds :
        owner[w] # 0 /\ owner'[w] = 0 /\ users'[owner[w]].status # "none"
            => users[owner[w]].home # w
<1>1. ASSUME AccessInv, [Next]_vars, NEW w \in WsIds,
             owner[w] # 0, owner'[w] = 0, users'[owner[w]].status # "none"
      PROVE  users[owner[w]].home # w
  <2> USE DEF AccessInv
  <2>1. owner \in [WsIds -> 0..MaxUser] /\ owner[w] \in UserIds
    BY <1>1, Ranges DEF TypeOK
  <2>2. \A u \in UserIds : ~DeleteUser(u)
    <3>1. ASSUME NEW u \in UserIds, DeleteUser(u)
          PROVE  owner[w] = u
      BY <1>1, <2>1, <3>1 DEF DeleteUser, Cascade
    <3>2. ASSUME NEW u \in UserIds, DeleteUser(u)
          PROVE  users'[u].status = "none"
      BY <3>2 DEF DeleteUser, Cascade, NoAccount
    <3> QED
      BY <1>1, <3>1, <3>2
  <2>3. ASSUME NEW c \in Calls, CommitDelete(c)
        PROVE  users[owner[w]].home # w
    <3>1. call[c].ws = w /\ owner[w] = call[c].user /\ call[c].pc = "delete"
      <4>1. owner' # owner
        BY <1>1
      <4>2. /\ call[c].pc = "delete" /\ owner[call[c].ws] = call[c].user
            /\ owner' = [x \in WsIds |-> IF x \in {call[c].ws} THEN 0 ELSE owner[x]]
        BY <2>3, <4>1 DEF CommitDelete, Cascade, tables
      <4>3. owner'[w] = IF w \in {call[c].ws} THEN 0 ELSE owner[w]
        BY <4>2
      <4> QED
        BY <1>1, <4>2, <4>3
    <3> QED
      BY <1>1, <3>1 DEF HomeInv
  <2>4. ASSUME NEW c \in Calls, Interceptor(c) \/ Handler(c) \/ Rest(c)
        PROVE  CommitDelete(c)
    BY <1>1, <2>1, <2>4, Reads
    DEF tables, CreateAPIKey, RevokeAPIKey, RollRevoke, RollReplace, CreateSession,
        SetActiveWorkspace
  <2>5. ~CreateUser /\ \A s \in SessionIds : ~CreateWorkspace(s)
    <3>1. CreateUser => owner'[w] # 0
      BY <1>1, <2>1 DEF CreateUser, TypeOK
    <3>2. ASSUME NEW s \in SessionIds, CreateWorkspace(s)
          PROVE  owner'[w] # 0
      BY <1>1, <2>1, <3>2 DEF CreateWorkspace, TypeOK
    <3> QED
      BY <1>1, <3>1, <3>2
  <2>6. \A u \in UserIds, x \in WsIds : ~TransferOwnership(u, x)
    BY <1>1, <2>1, Ranges DEF TransferOwnership
  <2> QED
    BY <1>1, <2>1, <2>2, <2>3, <2>4, <2>5, <2>6
    DEF Next, SetActive, SetMember, RevokeOtherSessions, Expire, RevokeSession, vars
<1>2. AccessInv /\ [Next]_vars => [Kept]_vars
  BY <1>1
<1> QED
  BY <1>2, AccessInvariant, PTL DEF Spec, PersonalWorkspaceKept
=============================================================================
