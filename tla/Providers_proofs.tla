--------------------------- MODULE Providers_proofs ---------------------------
(***************************************************************************)
(* Proofs about Providers, for any roles, people, addresses, accounts and  *)
(* concurrent requests, and with or without faults.                        *)
(***************************************************************************)
EXTENDS Providers, FiniteSetTheorems, TLAPS

USE DEF AdminPcs

LEMMA RecordTypes ==
    /\ Absent.there = FALSE /\ Absent.on = FALSE
    /\ Absent \notin Configs
    /\ \A c \in Configs : c.there /\ c.on \in BOOLEAN /\ c.grants \in Roles \cup {"none"}
    /\ NoAccount \in AccountType
    /\ Idle \in RequestType
BY DEF Absent, Configs, NoAccount, AccountType, Idle, RequestType

LEMMA EffectiveType ==
    ASSUME NEW c \in Configs \cup {Absent}
    PROVE  Effective(c) \in {d \in Configs : d.on} \cup {Absent}
BY RecordTypes DEF Effective

\* A write of the row leaves requests of their type.
LEMMA WriteRowType ==
    ASSUME TypeOK, NEW r \in Requests, NEW c \in Configs \cup {Absent},
           NEW pc \in {"idle", "unregister", "register"}, WriteRow(r, c, pc)
    PROVE  /\ req' \in [Requests -> RequestType]
           /\ row' \in Configs \cup {Absent}
           /\ reg' = reg /\ users' = users
<1>1. ASSUME NEW q \in Requests
      PROVE  (IF q = r /\ pc # "idle"
                THEN [Idle EXCEPT !.pc = pc, !.cfg = c, !.alone = Admins = {}]
              ELSE IF q \in Admins THEN [req[q] EXCEPT !.alone = FALSE]
              ELSE req[q]) \in RequestType
  <2>1. [Idle EXCEPT !.pc = pc, !.cfg = c, !.alone = Admins = {}] \in RequestType
          \/ pc = "idle"
    BY DEF Idle, RequestType
  <2>2. req[q] \in RequestType /\ [req[q] EXCEPT !.alone = FALSE] \in RequestType
    BY DEF TypeOK, RequestType
  <2> QED
    BY <2>1, <2>2
<1> QED
  BY <1>1 DEF WriteRow

-----------------------------------------------------------------------------
(* Type correctness. *)

\* Only enabled providers are on their way to the registry.
CfgInv == \A r \in Requests : req[r].pc = "register" => req[r].cfg.on

\* A sign-in is somebody's, and one that opens a session has an account.
SignInPcs == {"look up", "register account", "session"}
UserInv == \A r \in Requests :
    /\ req[r].pc \in SignInPcs => req[r].subject \in Subjects
    /\ req[r].pc = "session" => req[r].user \in Users

TypeInv == TypeOK /\ CfgInv /\ UserInv

\* A request that goes on keeps its type.
LEMMA GoOn ==
    ASSUME TypeOK, NEW r \in Requests
    PROVE  /\ req[r] \in RequestType
           /\ [req[r] EXCEPT !.pc = "register"] \in RequestType
           /\ [req[r] EXCEPT !.pc = "register account"] \in RequestType
           /\ \A u \in Users : [req[r] EXCEPT !.pc = "session", !.user = u] \in RequestType
<1>1. req[r] \in RequestType
  BY DEF TypeOK
<1>2. [req[r] EXCEPT !.pc = "register"] \in RequestType
  BY <1>1 DEF RequestType, AdminPcs
<1>3. [req[r] EXCEPT !.pc = "register account"] \in RequestType
  BY <1>1 DEF RequestType
<1>4. \A u \in Users : [req[r] EXCEPT !.pc = "session", !.user = u] \in RequestType
  BY <1>1 DEF RequestType
<1> QED
  BY <1>1, <1>2, <1>3, <1>4

\* What a sign-in that has found its account carries along.
LEMMA Found ==
    ASSUME TypeOK, NEW r \in Requests, NEW u \in Users,
           req' = [req EXCEPT ![r].pc = "session", ![r].user = u]
    PROVE  /\ \A q \in Requests \ {r} : req'[q] = req[q]
           /\ req'[r].pc = "session" /\ req'[r].user = u
           /\ req'[r].subject = req[r].subject
<1>1. req \in [Requests -> RequestType] /\ req[r] \in RequestType
  BY DEF TypeOK
<1>2. req'[r] = [req[r] EXCEPT !.pc = "session", !.user = u]
  BY <1>1
<1> QED
  BY <1>1, <1>2 DEF RequestType

LEMMA AdminTypeStep ==
    ASSUME TypeInv, NEW r \in Requests,
           \/ CreateOIDCProvider(r) \/ UpdateOIDCProvider(r) \/ DeleteOIDCProvider(r)
           \/ DeleteRowOnly(r) \/ Unregister(r) \/ Register(r) \/ Abandon(r)
    PROVE  TypeOK'
<1> USE RecordTypes DEF TypeInv
<1>1. CASE CreateOIDCProvider(r)
  BY <1>1, WriteRowType DEF CreateOIDCProvider, TypeOK
<1>2. CASE UpdateOIDCProvider(r)
  BY <1>2, WriteRowType DEF UpdateOIDCProvider, TypeOK
<1>3. CASE DeleteOIDCProvider(r)
  BY <1>3, WriteRowType DEF DeleteOIDCProvider, TypeOK
<1>4. CASE DeleteRowOnly(r)
  <2>1. diverged' \in BOOLEAN
    BY <1>4 DEF DeleteRowOnly, TypeOK
  <2> QED
    BY <1>4, <2>1, WriteRowType DEF DeleteRowOnly, TypeOK
<1>5. CASE Unregister(r)
  <2>1. req' \in [Requests -> RequestType]
    <3>1. [req[r] EXCEPT !.pc = "register"] \in RequestType
      BY GoOn
    <3> QED
      BY <1>5, <3>1 DEF Unregister, Done, TypeOK
  <2>2. diverged' \in BOOLEAN
    BY <1>5 DEF Unregister, Done, TypeOK, RequestType
  <2> QED
    BY <1>5, <2>1, <2>2 DEF Unregister, TypeOK
<1>6. CASE Register(r)
  <2>1. req[r].cfg \in {c \in Configs : c.on}
    BY <1>6 DEF Register, TypeOK, CfgInv, RequestType
  <2>2. req' \in [Requests -> RequestType] /\ diverged' \in BOOLEAN
    BY <1>6 DEF Register, Done, TypeOK, RequestType
  <2> QED
    BY <1>6, <2>1, <2>2 DEF Register, TypeOK
<1>7. CASE Abandon(r)
  BY <1>7 DEF Abandon, TypeOK
<1> QED
  BY <1>1, <1>2, <1>3, <1>4, <1>5, <1>6, <1>7

LEMMA SignInTypeStep ==
    ASSUME TypeInv, NEW r \in Requests,
           OIDCCallback(r) \/ GetUserByOIDC(r) \/ RegisterAccount(r) \/ CreateSession(r)
    PROVE  TypeOK'
<1> USE RecordTypes DEF TypeInv
<1>1. CASE OIDCCallback(r)
  <2>1. ASSUME NEW s \in Subjects, NEW e \in Emails \cup {NoEmail}, NEW c \in BOOLEAN
        PROVE  [Idle EXCEPT !.pc = "look up", !.cfg = reg, !.subject = s, !.email = e,
                            !.table = row, !.clean = c] \in RequestType
    BY DEF TypeOK, Idle, RequestType
  <2>2. PICK s \in Subjects, e \in Emails \cup {NoEmail} :
          req' = [req EXCEPT ![r] = [Idle EXCEPT
                   !.pc = "look up", !.cfg = reg, !.subject = s, !.email = e,
                   !.table = row, !.clean = ~diverged /\ Admins = {}]]
    BY <1>1 DEF OIDCCallback
  <2>3. req' \in [Requests -> RequestType]
    <3>1. [Idle EXCEPT !.pc = "look up", !.cfg = reg, !.subject = s, !.email = e,
                       !.table = row, !.clean = ~diverged /\ Admins = {}] \in RequestType
      BY <2>1
    <3> QED
      BY <2>2, <3>1 DEF TypeOK
  <2> QED
    BY <1>1, <2>3 DEF OIDCCallback, TypeOK
<1>2. CASE GetUserByOIDC(r)
  <2>1. ASSUME NEW u \in Users
        PROVE  [req[r] EXCEPT !.pc = "session", !.user = u] \in RequestType
    BY GoOn
  <2>2. [req[r] EXCEPT !.pc = "register account"] \in RequestType
    BY GoOn
  <2>3. \/ \E u \in Users : req' = [req EXCEPT ![r].pc = "session", ![r].user = u]
        \/ req' = [req EXCEPT ![r].pc = "register account"]
        \/ req' = [req EXCEPT ![r] = Idle]
    BY <1>2 DEF GetUserByOIDC, Account
  <2>4. req' \in [Requests -> RequestType]
    BY <2>1, <2>2, <2>3 DEF TypeOK
  <2> QED
    BY <1>2, <2>4 DEF GetUserByOIDC, TypeOK
<1>3. CASE RegisterAccount(r)
  <2>1. CASE UNCHANGED users /\ req' = [req EXCEPT ![r] = Idle]
    BY <1>3, <2>1 DEF RegisterAccount, TypeOK
  <2>2. ASSUME NEW u \in Users,
               users' = [users EXCEPT ![u] = [there |-> TRUE, subject |-> req[r].subject,
                            email |-> req[r].email, active |-> TRUE, sessions |-> {}]],
               req' = [req EXCEPT ![r].pc = "session", ![r].user = u]
        PROVE  TypeOK'
    <3>1. [there |-> TRUE, subject |-> req[r].subject, email |-> req[r].email,
           active |-> TRUE, sessions |-> {}] \in AccountType
      BY GoOn DEF RequestType, AccountType
    <3>2. [req[r] EXCEPT !.pc = "session", !.user = u] \in RequestType
      BY GoOn
    <3> QED
      BY <1>3, <2>2, <3>1, <3>2 DEF RegisterAccount, TypeOK
  <2> QED
    BY <1>3, <2>1, <2>2 DEF RegisterAccount, Fresh
<1>4. CASE CreateSession(r)
  <2>1. users' \in [Users -> AccountType]
    <3>1. req[r].user \in Users /\ req[r].subject \in Subjects
      BY <1>4 DEF CreateSession, UserInv, SignInPcs
    <3>2. [users[req[r].user] EXCEPT !.sessions = @ \cup {req[r].subject}] \in AccountType
      BY <3>1 DEF TypeOK, AccountType
    <3> QED
      BY <1>4, <3>1, <3>2 DEF CreateSession, TypeOK
  <2> QED
    BY <1>4, <2>1 DEF CreateSession, TypeOK
<1> QED
  BY <1>1, <1>2, <1>3, <1>4

LEMMA AccountTypeStep ==
    ASSUME TypeInv, Restart \/ CreateLocalUser \/ UpdateUser \/ DeleteUser
    PROVE  TypeOK'
<1> USE RecordTypes DEF TypeInv
<1>1. CASE Restart
  BY <1>1, EffectiveType DEF Restart, TypeOK
<1>2. CASE CreateLocalUser
  <2>1. ASSUME NEW e \in Emails
        PROVE  [there |-> TRUE, subject |-> NoSubject, email |-> e, active |-> TRUE,
                sessions |-> {}] \in AccountType
    BY DEF AccountType
  <2> QED
    BY <1>2, <2>1 DEF CreateLocalUser, TypeOK
<1>3. CASE UpdateUser
  <2>1. ASSUME NEW u \in Users, NEW e \in Emails, NEW a \in BOOLEAN
        PROVE  [users[u] EXCEPT !.email = e, !.active = a] \in AccountType
    BY DEF TypeOK, AccountType
  <2>2. PICK u \in Users, e \in Emails, a \in BOOLEAN :
          users' = [users EXCEPT ![u].email = e, ![u].active = a]
    BY <1>3 DEF UpdateUser
  <2>3. users' \in [Users -> AccountType]
    <3>1. users[u] \in AccountType
      BY DEF TypeOK
    <3>2. users' = [users EXCEPT ![u] = [users[u] EXCEPT !.email = e, !.active = a]]
      BY <2>2, <3>1 DEF TypeOK
    <3> QED
      BY <2>1, <3>2 DEF TypeOK
  <2> QED
    BY <1>3, <2>3 DEF UpdateUser, TypeOK
<1>4. CASE DeleteUser
  BY <1>4 DEF DeleteUser, TypeOK
<1> QED
  BY <1>1, <1>2, <1>3, <1>4

\* What the requests of a step carry along.
LEMMA CarriedStep ==
    ASSUME TypeInv, Next
    PROVE  CfgInv' /\ UserInv'
<1> USE DEF TypeInv, CfgInv, UserInv, SignInPcs
<1>0. ASSUME NEW r \in Requests, req' = [req EXCEPT ![r] = Idle]
      PROVE  CfgInv' /\ UserInv'
  <2>1. /\ \A q \in Requests \ {r} : req'[q] = req[q]
        /\ req'[r].pc = "idle"
    BY <1>0 DEF TypeOK, Idle
  <2> QED
    BY <2>1
<1>10. ASSUME NEW r \in Requests, req[r].subject \in Subjects, NEW u \in Users,
              req' = [req EXCEPT ![r].pc = "session", ![r].user = u]
       PROVE  CfgInv' /\ UserInv'
  <2>1. /\ \A q \in Requests \ {r} : req'[q] = req[q]
        /\ req'[r].pc = "session" /\ req'[r].user = u
        /\ req'[r].subject \in Subjects
    BY <1>10, Found
  <2> QED
    BY <2>1
<1>1. CASE UNCHANGED req
  BY <1>1
<1>2. CASE Restart
  BY <1>2 DEF Restart, Idle
<1>3. ASSUME NEW r \in Requests, NEW c \in Configs \cup {Absent},
             NEW pc \in {"idle", "unregister", "register"}, pc = "register" => c.on,
             WriteRow(r, c, pc)
      PROVE  CfgInv' /\ UserInv'
  <2>1. \A q \in Requests : req'[q] = IF q = r /\ pc # "idle"
            THEN [Idle EXCEPT !.pc = pc, !.cfg = c, !.alone = Admins = {}]
            ELSE IF q \in Admins THEN [req[q] EXCEPT !.alone = FALSE] ELSE req[q]
    BY <1>3 DEF WriteRow
  <2> DEFINE new == [Idle EXCEPT !.pc = pc, !.cfg = c, !.alone = Admins = {}]
  <2>2. new.pc = pc /\ new.cfg = c
    BY DEF Idle
  <2>3. ASSUME NEW q \in Requests
        PROVE  LET old == [req[q] EXCEPT !.alone = FALSE] IN
               /\ old.pc = req[q].pc /\ old.cfg = req[q].cfg
               /\ old.subject = req[q].subject /\ old.user = req[q].user
    <3>1. req[q] \in RequestType
      BY GoOn
    <3> QED
      BY <3>1 DEF RequestType
  <2> HIDE DEF new
  <2>4. ASSUME NEW q \in Requests
        PROVE  \/ req'[q] = new /\ pc # "idle"
               \/ /\ req'[q].pc = req[q].pc /\ req'[q].cfg = req[q].cfg
                  /\ req'[q].subject = req[q].subject /\ req'[q].user = req[q].user
    BY <2>1, <2>3 DEF new
  <2> QED
    BY <1>3, <2>2, <2>4
<1>4. ASSUME NEW r \in Requests,
             \/ CreateOIDCProvider(r) \/ UpdateOIDCProvider(r) \/ DeleteOIDCProvider(r)
             \/ DeleteRowOnly(r)
      PROVE  CfgInv' /\ UserInv'
  BY <1>3, <1>4
  DEF CreateOIDCProvider, UpdateOIDCProvider, DeleteOIDCProvider, DeleteRowOnly
<1>5. ASSUME NEW r \in Requests, Unregister(r) \/ Register(r) \/ Abandon(r)
      PROVE  CfgInv' /\ UserInv'
  <2>1. \/ req' = [req EXCEPT ![r] = Idle]
        \/ req[r].cfg.on /\ req' = [req EXCEPT ![r].pc = "register"]
    BY <1>5 DEF Unregister, Register, Abandon, Done
  <2>2. CASE req[r].cfg.on /\ req' = [req EXCEPT ![r].pc = "register"]
    <3>1. /\ \A q \in Requests \ {r} : req'[q] = req[q]
          /\ req'[r].pc = "register" /\ req'[r].cfg.on
      BY <2>2 DEF TypeOK, RequestType
    <3> QED
      BY <3>1
  <2> QED
    BY <1>0, <2>1, <2>2
<1>6. ASSUME NEW r \in Requests, OIDCCallback(r)
      PROVE  CfgInv' /\ UserInv'
  <2>1. /\ \A q \in Requests \ {r} : req'[q] = req[q]
        /\ req'[r].pc = "look up" /\ req'[r].subject \in Subjects
    <3>1. PICK s \in Subjects, e \in Emails \cup {NoEmail} :
            req' = [req EXCEPT ![r] = [Idle EXCEPT
                     !.pc = "look up", !.cfg = reg, !.subject = s, !.email = e,
                     !.table = row, !.clean = ~diverged /\ Admins = {}]]
      BY <1>6 DEF OIDCCallback
    <3> QED
      BY <3>1 DEF TypeOK, Idle
  <2> QED
    BY <2>1
<1>7. ASSUME NEW r \in Requests, GetUserByOIDC(r)
      PROVE  CfgInv' /\ UserInv'
  <2>1. \/ req' = [req EXCEPT ![r] = Idle]
        \/ req' = [req EXCEPT ![r].pc = "register account"]
        \/ \E u \in Users : req' = [req EXCEPT ![r].pc = "session", ![r].user = u]
    BY <1>7 DEF GetUserByOIDC, Account
  <2>2. req[r].subject \in Subjects
    BY <1>7 DEF GetUserByOIDC
  <2>3. CASE req' = [req EXCEPT ![r].pc = "register account"]
    <3>1. /\ \A q \in Requests \ {r} : req'[q] = req[q]
          /\ req'[r].pc = "register account" /\ req'[r].subject \in Subjects
      BY <2>2, <2>3 DEF TypeOK, RequestType
    <3> QED
      BY <3>1
  <2> QED
    BY <1>0, <1>10, <2>1, <2>2, <2>3
<1>8. ASSUME NEW r \in Requests, RegisterAccount(r) \/ CreateSession(r)
      PROVE  CfgInv' /\ UserInv'
  <2>1. \/ req' = [req EXCEPT ![r] = Idle]
        \/ \E u \in Users : req' = [req EXCEPT ![r].pc = "session", ![r].user = u]
    BY <1>8 DEF RegisterAccount, CreateSession, Fresh
  <2>2. req[r].subject \in Subjects
    BY <1>8 DEF RegisterAccount, CreateSession
  <2> QED
    BY <1>0, <1>10, <2>1, <2>2
<1>9. CASE CreateLocalUser \/ UpdateUser \/ DeleteUser
  BY <1>9 DEF CreateLocalUser, UpdateUser, DeleteUser
<1> QED
  BY <1>2, <1>4, <1>5, <1>6, <1>7, <1>8, <1>9 DEF Next, Step

LEMMA TypeInvariant == Spec => []TypeInv
<1>1. Init => TypeInv
  <2> SUFFICES ASSUME Init
               PROVE  TypeInv
    OBVIOUS
  <2>1. TypeOK
    BY RecordTypes DEF Init, TypeOK
  <2>2. \A r \in Requests : req[r].pc = "idle"
    BY DEF Init, Idle
  <2> QED
    BY <2>1, <2>2 DEF TypeInv, CfgInv, UserInv, SignInPcs
<1>2. TypeInv /\ [Next]_vars => TypeInv'
  <2>1. CASE UNCHANGED vars
    BY <2>1 DEF vars, TypeInv, TypeOK, CfgInv, UserInv
  <2>2. CASE TypeInv /\ Next
    BY <2>2, CarriedStep, AdminTypeStep, SignInTypeStep, AccountTypeStep
    DEF Next, Step, TypeInv
  <2> QED
    BY <2>1, <2>2
<1> QED
  BY <1>1, <1>2, PTL DEF Spec

\* Every variable keeps its type, and only enabled providers have an entry in the
\* registry.
THEOREM TypeCorrect == Spec => []TypeOK
<1>1. TypeInv => TypeOK
  BY DEF TypeInv
<1> QED
  BY <1>1, TypeInvariant, PTL

-----------------------------------------------------------------------------
(* The registry and the table. *)

\* An admin request that no other has overlapped is the only one under way, and it carries
\* what it wrote to the row, which is there still.
AloneInv == \A r \in Admins : req[r].alone => Admins = {r} /\ req[r].cfg = row

RegistryInv == TypeInv /\ AloneInv /\ RegistryExplained

\* A request that writes the row goes on alone, or as one of several.
LEMMA WriteRowAlone ==
    ASSUME RegistryInv, NEW r \in Requests, NEW c \in Configs \cup {Absent},
           NEW pc \in {"idle", "unregister", "register"}, WriteRow(r, c, pc)
    PROVE  /\ AloneInv'
           /\ pc # "idle" => Admins' # {}
           /\ pc = "idle" => Admins' = Admins
<1> USE DEF RegistryInv, TypeInv, TypeOK
<1>1. r \notin Admins
  BY DEF WriteRow, Admins
<1>2. \A q \in Requests : req'[q] = IF q = r /\ pc # "idle"
          THEN [Idle EXCEPT !.pc = pc, !.cfg = c, !.alone = Admins = {}]
          ELSE IF q \in Admins THEN [req[q] EXCEPT !.alone = FALSE] ELSE req[q]
  BY DEF WriteRow
<1>3. \A q \in Requests \ {r} : /\ q \in Admins' <=> q \in Admins
                                /\ q \in Admins => ~req'[q].alone
  BY <1>2 DEF Admins, RequestType
<1>4. r \in Admins' <=> pc # "idle"
  BY <1>1, <1>2 DEF Admins, Idle
<1>5. r \in Admins' => (req'[r].alone <=> Admins = {}) /\ req'[r].cfg = c
  BY <1>2, <1>4 DEF Idle
<1>6. row' = c
  BY DEF WriteRow
<1>7. Admins \subseteq Requests /\ Admins' \subseteq Requests
  BY DEF Admins
<1> QED
  BY <1>1, <1>3, <1>4, <1>5, <1>6, <1>7 DEF AloneInv

\* A request at work on the registry goes on, or is done; the row stays.
LEMMA RegistryStep ==
    ASSUME RegistryInv, NEW r \in Requests, Unregister(r) \/ Register(r) \/ Abandon(r)
    PROVE  AloneInv' /\ RegistryExplained'
<1> USE DEF RegistryInv, TypeInv, TypeOK
<1>1. r \in Admins /\ row' = row
  BY DEF Unregister, Register, Abandon, Admins
<1>2. CASE req' = [req EXCEPT ![r].pc = "register"]
  <2>1. /\ \A q \in Requests \ {r} : req'[q] = req[q]
        /\ req'[r].pc = "register"
        /\ req'[r].cfg = req[r].cfg /\ req'[r].alone = req[r].alone
    BY <1>2 DEF RequestType
  <2>2. Admins' = Admins
    BY <1>1, <2>1 DEF Admins
  <2> QED
    BY <1>1, <2>1, <2>2 DEF AloneInv, RegistryExplained, Admins
<1>3. CASE req' = [req EXCEPT ![r] = Idle]
  <2>1. /\ \A q \in Requests \ {r} : req'[q] = req[q]
        /\ req'[r].pc = "idle"
    BY <1>3 DEF Idle
  <2>2. Admins' = Admins \ {r}
    BY <1>1, <2>1 DEF Admins
  <2>3. AloneInv'
    BY <1>1, <2>1, <2>2 DEF AloneInv, Admins
  <2>7. ASSUME req' = [req EXCEPT ![r].pc = "register"]
        PROVE  FALSE
    <3>1. req'[r] = [req[r] EXCEPT !.pc = "register"] /\ req[r] \in RequestType
      BY <2>7
    <3>2. req'[r].pc = "register"
      BY <3>1 DEF RequestType
    <3> QED
      BY <2>1, <3>2
  <2>4. CASE Abandon(r)
    BY <2>3, <2>4 DEF Abandon, RegistryExplained
  <2>5. CASE ~req[r].alone /\ ~Abandon(r)
    <3>1. ~Unregister(r) \/ diverged' = TRUE
      BY <2>5, <2>7 DEF Unregister, Done
    <3>2. ~Register(r) \/ diverged' = TRUE
      BY <2>5 DEF Register, Done
    <3> QED
      BY <2>3, <2>5, <3>1, <3>2 DEF RegistryExplained
  <2>6. CASE req[r].alone /\ ~Abandon(r)
    <3>1. req[r].cfg = row
      BY <1>1, <2>6 DEF AloneInv
    <3>2. CASE Register(r)
      <4>1. reg' = row /\ row.on
        BY <3>1, <3>2 DEF Register, CfgInv
      <4> QED
        BY <1>1, <2>3, <4>1 DEF RegistryExplained, Effective
    <3>3. CASE Unregister(r)
      <4>1. reg' = Absent /\ ~row.on
        BY <2>7, <3>1, <3>3 DEF Unregister
      <4> QED
        BY <1>1, <2>3, <4>1 DEF RegistryExplained, Effective
    <3> QED
      BY <2>6, <3>2, <3>3
  <2> QED
    BY <2>4, <2>5, <2>6
<1> QED
  BY <1>2, <1>3 DEF Unregister, Register, Abandon, Done

\* A request that changes the row.
LEMMA RowStep ==
    ASSUME RegistryInv, NEW r \in Requests,
           \/ CreateOIDCProvider(r) \/ UpdateOIDCProvider(r)
           \/ DeleteOIDCProvider(r) \/ DeleteRowOnly(r)
    PROVE  AloneInv' /\ RegistryExplained'
<1> USE RecordTypes DEF RegistryInv, TypeInv, TypeOK
<1>1. CASE CreateOIDCProvider(r)
  <2>1. PICK c \in Configs : /\ ~row.there
                             /\ WriteRow(r, c, IF c.on THEN "register" ELSE "idle")
                             /\ UNCHANGED diverged
    BY <1>1 DEF CreateOIDCProvider
  <2>2. row = Absent
    BY <2>1
  <2>3. row' = c /\ reg' = reg
    BY <2>1 DEF WriteRow
  <2>4. CASE c.on
    BY <2>1, <2>4, WriteRowAlone DEF RegistryExplained
  <2>5. CASE ~c.on
    BY <2>1, <2>2, <2>3, <2>5, WriteRowAlone DEF RegistryExplained, Effective
  <2> QED
    BY <2>4, <2>5
<1>2. CASE UpdateOIDCProvider(r)
  BY <1>2, WriteRowAlone DEF UpdateOIDCProvider, RegistryExplained
<1>3. CASE DeleteOIDCProvider(r)
  BY <1>3, WriteRowAlone DEF DeleteOIDCProvider, RegistryExplained
<1>4. CASE DeleteRowOnly(r)
  <2>1. AloneInv'
    BY <1>4, WriteRowAlone DEF DeleteRowOnly
  <2>2. row' = Absent /\ reg' = reg /\ (diverged' \/ reg = Absent)
    BY <1>4 DEF DeleteRowOnly, WriteRow
  <2> QED
    BY <2>1, <2>2 DEF RegistryExplained, Effective
<1> QED
  BY <1>1, <1>2, <1>3, <1>4

\* Sign-ins and changes of accounts leave the registry and the row alone.
LEMMA AsideStep ==
    ASSUME RegistryInv, UNCHANGED <<row, reg, diverged>>,
           \A r \in Requests : req'[r] # req[r] =>
               req[r].pc \notin AdminPcs /\ req'[r].pc \notin AdminPcs
    PROVE  AloneInv' /\ RegistryExplained'
<1>1. Admins' = Admins
  BY DEF Admins
<1>2. \A r \in Admins : req'[r] = req[r]
  BY DEF Admins
<1> QED
  BY <1>1, <1>2 DEF RegistryInv, AloneInv, RegistryExplained

LEMMA SignInAside ==
    ASSUME TypeInv, NEW r \in Requests,
           OIDCCallback(r) \/ GetUserByOIDC(r) \/ RegisterAccount(r) \/ CreateSession(r)
    PROVE  /\ UNCHANGED <<row, reg, diverged>>
           /\ \A q \in Requests : req'[q] # req[q] =>
                  req[q].pc \notin AdminPcs /\ req'[q].pc \notin AdminPcs
<1>1. UNCHANGED <<row, reg, diverged>> /\ req[r].pc \notin AdminPcs
  BY DEF OIDCCallback, GetUserByOIDC, RegisterAccount, CreateSession
<1>2. \/ \E s \in Subjects, e \in Emails \cup {NoEmail} :
           req' = [req EXCEPT ![r] = [Idle EXCEPT
                     !.pc = "look up", !.cfg = reg, !.subject = s, !.email = e,
                     !.table = row, !.clean = ~diverged /\ Admins = {}]]
      \/ req' = [req EXCEPT ![r] = Idle]
      \/ req' = [req EXCEPT ![r].pc = "register account"]
      \/ \E u \in Users : req' = [req EXCEPT ![r].pc = "session", ![r].user = u]
  BY DEF OIDCCallback, GetUserByOIDC, Account, RegisterAccount, Fresh, CreateSession
<1> USE DEF TypeInv, TypeOK
<1>3. /\ \A q \in Requests \ {r} : req'[q] = req[q]
      /\ req'[r].pc \in SignInPcs \cup {"idle"}
  <2>1. CASE req' = [req EXCEPT ![r] = Idle]
    BY <2>1 DEF Idle
  <2>2. CASE \/ req' = [req EXCEPT ![r].pc = "register account"]
             \/ \E u \in Users : req' = [req EXCEPT ![r].pc = "session", ![r].user = u]
    <3>1. CASE req' = [req EXCEPT ![r].pc = "register account"]
      <4>1. req'[r] = [req[r] EXCEPT !.pc = "register account"] /\ req[r] \in RequestType
        BY <3>1
      <4>2. req'[r].pc = "register account"
        BY <4>1 DEF RequestType
      <4> QED
        BY <3>1, <4>2 DEF SignInPcs
    <3>2. CASE \E u \in Users : req' = [req EXCEPT ![r].pc = "session", ![r].user = u]
      BY <3>2, Found DEF SignInPcs
    <3> QED
      BY <2>2, <3>1, <3>2
  <2>3. ASSUME NEW s \in Subjects, NEW e \in Emails \cup {NoEmail},
               req' = [req EXCEPT ![r] = [Idle EXCEPT
                     !.pc = "look up", !.cfg = reg, !.subject = s, !.email = e,
                     !.table = row, !.clean = ~diverged /\ Admins = {}]]
        PROVE  /\ \A q \in Requests \ {r} : req'[q] = req[q]
               /\ req'[r].pc \in SignInPcs \cup {"idle"}
    BY <2>3 DEF Idle, SignInPcs
  <2> QED
    BY <1>2, <2>1, <2>2, <2>3
<1> QED
  BY <1>1, <1>3 DEF SignInPcs

LEMMA RegistryInvariant == Spec => []RegistryInv
<1>1. Init /\ TypeInv => RegistryInv
  BY RecordTypes DEF Init, RegistryInv, AloneInv, RegistryExplained, Admins, Idle, Effective
<1>2. RegistryInv /\ TypeInv' /\ [Next]_vars => RegistryInv'
  <2> SUFFICES ASSUME RegistryInv, TypeInv', [Next]_vars
               PROVE  AloneInv' /\ RegistryExplained'
    BY DEF RegistryInv
  <2>1. CASE UNCHANGED vars
    BY <2>1 DEF vars, RegistryInv, AloneInv, RegistryExplained, Admins
  <2>2. CASE Restart
    <3>1. Admins' = {}
      BY <2>2 DEF Restart, Admins, Idle
    <3> QED
      BY <2>2, <3>1 DEF Restart, AloneInv, RegistryExplained
  <2>3. CASE CreateLocalUser \/ UpdateUser \/ DeleteUser
    BY <2>3, AsideStep DEF CreateLocalUser, UpdateUser, DeleteUser
  <2>4. ASSUME NEW r \in Requests, Step(r)
        PROVE  AloneInv' /\ RegistryExplained'
    <3>1. CASE OIDCCallback(r) \/ GetUserByOIDC(r) \/ RegisterAccount(r) \/ CreateSession(r)
      BY <3>1, SignInAside, AsideStep DEF RegistryInv
    <3> QED
      BY <2>4, <3>1, RowStep, RegistryStep DEF Step
  <2> QED
    BY <2>1, <2>2, <2>3, <2>4 DEF Next
<1> QED
  BY <1>1, <1>2, TypeInvariant, PTL DEF Spec

\* When no admin request is under way the registry is what the table says, unless
\* overlapping requests, a lost one, a failed restart or a gRPC deletion came between.
THEOREM RegistryIsExplained == Spec => []RegistryExplained
<1>1. RegistryInv => RegistryExplained
  BY DEF RegistryInv
<1> QED
  BY <1>1, RegistryInvariant, PTL

-----------------------------------------------------------------------------
(* Accounts and sessions. *)

\* The unique index on issuer and subject.
UniqueInv == \A u, v \in Users :
    /\ users[u].there /\ users[v].there
    /\ users[u].subject = users[v].subject
    /\ users[u].subject # NoSubject
    => u = v

\* A sign-in about to open a session has an account of its subject, or one that is
\* gone and whose id nobody gets meanwhile.
OwnInv == \A r \in Requests :
    req[r].pc = "session" /\ users[req[r].user].there
        => users[req[r].user].subject = req[r].subject

AccountInv == TypeInv /\ UniqueInv /\ OwnInv /\ SessionsAreOwn

\* Accounts that keep who they are, keep the invariant.
LEMMA SameAccounts ==
    ASSUME AccountInv, users' = users,
           \A r \in Requests : \/ req'[r] = req[r]
                               \/ req'[r].pc # "session"
                               \/ /\ req'[r].user \in Account(req[r].subject)
                                  /\ req'[r].subject = req[r].subject
    PROVE  UniqueInv' /\ OwnInv' /\ SessionsAreOwn'
BY DEF AccountInv, UniqueInv, OwnInv, SessionsAreOwn, Account

LEMMA AdminAccounts ==
    ASSUME AccountInv, NEW r \in Requests,
           \/ CreateOIDCProvider(r) \/ UpdateOIDCProvider(r) \/ DeleteOIDCProvider(r)
           \/ DeleteRowOnly(r) \/ Unregister(r) \/ Register(r) \/ Abandon(r)
    PROVE  UniqueInv' /\ OwnInv' /\ SessionsAreOwn'
<1> USE DEF AccountInv, TypeInv, TypeOK
<1>1. ASSUME NEW c \in Configs \cup {Absent}, NEW pc \in {"idle", "unregister", "register"},
             WriteRow(r, c, pc)
      PROVE  UniqueInv' /\ OwnInv' /\ SessionsAreOwn'
  <2>1. \A q \in Requests : req'[q] = req[q] \/ req'[q].pc # "session"
    BY <1>1 DEF WriteRow, Admins, RequestType, Idle
  <2> QED
    BY <1>1, <2>1, SameAccounts DEF WriteRow
<1>2. CASE CreateOIDCProvider(r) \/ UpdateOIDCProvider(r) \/ DeleteOIDCProvider(r)
           \/ DeleteRowOnly(r)
  BY <1>1, <1>2
  DEF CreateOIDCProvider, UpdateOIDCProvider, DeleteOIDCProvider, DeleteRowOnly
<1>3. CASE Unregister(r) \/ Register(r) \/ Abandon(r)
  <2>1. /\ users' = users
        /\ \/ req' = [req EXCEPT ![r] = Idle]
           \/ req' = [req EXCEPT ![r].pc = "register"]
    BY <1>3 DEF Unregister, Register, Abandon, Done
  <2>2. \A q \in Requests : req'[q] = req[q] \/ req'[q].pc # "session"
    <3>1. CASE req' = [req EXCEPT ![r] = Idle]
      BY <3>1 DEF Idle
    <3>2. CASE req' = [req EXCEPT ![r].pc = "register"]
      BY <3>2 DEF RequestType
    <3> QED
      BY <2>1, <3>1, <3>2
  <2> QED
    BY <2>1, <2>2, SameAccounts
<1> QED
  BY <1>2, <1>3

LEMMA SignInAccounts ==
    ASSUME AccountInv, NEW r \in Requests,
           OIDCCallback(r) \/ GetUserByOIDC(r) \/ RegisterAccount(r) \/ CreateSession(r)
    PROVE  UniqueInv' /\ OwnInv' /\ SessionsAreOwn'
<1> USE DEF AccountInv, TypeInv, TypeOK
<1>1. CASE OIDCCallback(r)
  <2>1. PICK s \in Subjects, e \in Emails \cup {NoEmail} :
          req' = [req EXCEPT ![r] = [Idle EXCEPT
                   !.pc = "look up", !.cfg = reg, !.subject = s, !.email = e,
                   !.table = row, !.clean = ~diverged /\ Admins = {}]]
    BY <1>1 DEF OIDCCallback
  <2>2. \A q \in Requests : req'[q] = req[q] \/ req'[q].pc # "session"
    BY <2>1 DEF Idle
  <2> QED
    BY <1>1, <2>2, SameAccounts DEF OIDCCallback
<1>2. CASE GetUserByOIDC(r)
  <2>1. \/ \E u \in Account(req[r].subject) :
              req' = [req EXCEPT ![r].pc = "session", ![r].user = u]
        \/ req' = [req EXCEPT ![r].pc = "register account"]
        \/ req' = [req EXCEPT ![r] = Idle]
    BY <1>2 DEF GetUserByOIDC
  <2>2. \A q \in Requests : \/ req'[q] = req[q]
                            \/ req'[q].pc # "session"
                            \/ /\ req'[q].user \in Account(req[q].subject)
                               /\ req'[q].subject = req[q].subject
    <3>1. CASE req' = [req EXCEPT ![r] = Idle]
      BY <3>1 DEF Idle
    <3>2. CASE req' = [req EXCEPT ![r].pc = "register account"]
      BY <3>2 DEF RequestType
    <3>3. ASSUME NEW u \in Account(req[r].subject),
                 req' = [req EXCEPT ![r].pc = "session", ![r].user = u]
          PROVE  /\ \A q \in Requests \ {r} : req'[q] = req[q]
                 /\ req'[r].user = u /\ req'[r].subject = req[r].subject
      BY <3>3 DEF RequestType
    <3> QED
      BY <2>1, <3>1, <3>2, <3>3
  <2> QED
    BY <1>2, <2>2, SameAccounts DEF GetUserByOIDC
<1>3. CASE RegisterAccount(r)
  <2>1. CASE UNCHANGED users /\ req' = [req EXCEPT ![r] = Idle]
    BY <2>1, SameAccounts DEF Idle
  <2>2. ASSUME NEW u \in Fresh, Insertable(req[r].subject, req[r].email),
               users' = [users EXCEPT ![u] = [there |-> TRUE, subject |-> req[r].subject,
                            email |-> req[r].email, active |-> TRUE, sessions |-> {}]],
               req' = [req EXCEPT ![r].pc = "session", ![r].user = u]
        PROVE  UniqueInv' /\ OwnInv' /\ SessionsAreOwn'
    <3>1. /\ users'[u].there /\ users'[u].subject = req[r].subject
          /\ users'[u].sessions = {}
          /\ \A v \in Users \ {u} : users'[v] = users[v]
      BY <2>2 DEF Fresh
    <3>2. req[r].subject \in Subjects /\ req[r].subject # NoSubject
      BY <1>3, ProvidersAssumption DEF RegisterAccount, UserInv, SignInPcs
    <3>3. \A v \in Users : users[v].there => users[v].subject # req[r].subject
      BY <2>2, <3>2 DEF Insertable, Account
    <3>4. /\ \A q \in Requests \ {r} : req'[q] = req[q] /\ req'[q].user # u
          /\ req'[r].user = u /\ req'[r].subject = req[r].subject
      BY <2>2 DEF Fresh, RequestType
    <3>5. UniqueInv'
      BY <3>1, <3>3 DEF UniqueInv
    <3>6. OwnInv'
      BY <3>1, <3>4 DEF OwnInv, UserInv
    <3>7. SessionsAreOwn'
      BY <3>1 DEF SessionsAreOwn
    <3> QED
      BY <3>5, <3>6, <3>7
  <2> QED
    BY <1>3, <2>1, <2>2 DEF RegisterAccount
<1>4. CASE CreateSession(r)
  <2>1. req[r].user \in Users /\ req'[r].pc = "idle"
        /\ \A q \in Requests \ {r} : req'[q] = req[q]
    BY <1>4 DEF CreateSession, UserInv, Idle
  <2>2. CASE ~users[req[r].user].there
    BY <1>4, <2>1, <2>2, SameAccounts DEF CreateSession
  <2>3. CASE users[req[r].user].there
    <3>1. users' = [users EXCEPT ![req[r].user].sessions = @ \cup {req[r].subject}]
      BY <1>4, <2>3 DEF CreateSession
    <3>2. users[req[r].user].subject = req[r].subject
      BY <1>4, <2>3 DEF CreateSession, OwnInv
    <3>3. \A u \in Users : users'[u].there = users[u].there
                        /\ users'[u].subject = users[u].subject
      BY <3>1 DEF AccountType
    <3>4. \A u \in Users : users'[u].sessions \subseteq users[u].sessions \cup
                             (IF u = req[r].user THEN {req[r].subject} ELSE {})
      BY <3>1, <2>1 DEF AccountType
    <3>5. UniqueInv' /\ OwnInv'
      BY <2>1, <3>3 DEF UniqueInv, OwnInv, UserInv
    <3>6. SessionsAreOwn'
      BY <3>2, <3>3, <3>4 DEF SessionsAreOwn
    <3> QED
      BY <3>5, <3>6
  <2> QED
    BY <2>2, <2>3
<1> QED
  BY <1>1, <1>2, <1>3, <1>4

LEMMA AccountChanges ==
    ASSUME AccountInv, CreateLocalUser \/ UpdateUser \/ DeleteUser
    PROVE  UniqueInv' /\ OwnInv' /\ SessionsAreOwn'
<1> USE DEF AccountInv, TypeInv, TypeOK, UniqueInv, OwnInv, SessionsAreOwn, UserInv
<1>1. CASE CreateLocalUser
  <2>1. PICK u \in Fresh, e \in Emails :
          users' = [users EXCEPT ![u] = [there |-> TRUE, subject |-> NoSubject, email |-> e,
                                         active |-> TRUE, sessions |-> {}]]
    BY <1>1 DEF CreateLocalUser
  <2>2. /\ users'[u].subject = NoSubject /\ users'[u].sessions = {}
        /\ \A v \in Users \ {u} : users'[v] = users[v]
    BY <2>1 DEF Fresh
  <2>3. req' = req /\ \A r \in Requests : req[r].user # u
    BY <1>1 DEF CreateLocalUser, Fresh
  <2> QED
    BY <2>2, <2>3
<1>2. CASE UpdateUser
  <2>1. \A v \in Users : /\ users'[v].there = users[v].there
                         /\ users'[v].subject = users[v].subject
                         /\ users'[v].sessions = users[v].sessions
    BY <1>2 DEF UpdateUser, AccountType
  <2>2. req' = req
    BY <1>2 DEF UpdateUser
  <2> QED
    BY <2>1, <2>2
<1>3. CASE DeleteUser
  <2>1. PICK u \in Users : users' = [users EXCEPT ![u] = NoAccount]
    BY <1>3 DEF DeleteUser
  <2>2. /\ ~users'[u].there /\ users'[u].sessions = {}
        /\ \A v \in Users \ {u} : users'[v] = users[v]
    BY <2>1 DEF NoAccount
  <2>3. req' = req
    BY <1>3 DEF DeleteUser
  <2> QED
    BY <2>2, <2>3
<1> QED
  BY <1>1, <1>2, <1>3

LEMMA AccountInvariant == Spec => []AccountInv
<1>1. Init /\ TypeInv => AccountInv
  BY DEF Init, AccountInv, UniqueInv, OwnInv, SessionsAreOwn, NoAccount, Idle
<1>2. AccountInv /\ TypeInv' /\ [Next]_vars => AccountInv'
  <2> SUFFICES ASSUME AccountInv, TypeInv', [Next]_vars
               PROVE  UniqueInv' /\ OwnInv' /\ SessionsAreOwn'
    BY DEF AccountInv
  <2>1. CASE UNCHANGED vars
    BY <2>1 DEF vars, AccountInv, UniqueInv, OwnInv, SessionsAreOwn
  <2>2. CASE Restart
    <3>1. users' = users /\ \A r \in Requests : req'[r].pc # "session"
      BY <2>2 DEF Restart, Idle
    <3> QED
      BY <3>1, SameAccounts
  <2> QED
    BY <2>1, <2>2, AdminAccounts, SignInAccounts, AccountChanges DEF Next, Step
<1> QED
  BY <1>1, <1>2, TypeInvariant, PTL DEF Spec

\* A session is of the account of the subject in the ID token it was made for.
THEOREM SessionsAreOfTheSubject == Spec => []SessionsAreOwn
<1>1. AccountInv => SessionsAreOwn
  BY DEF AccountInv
<1> QED
  BY <1>1, AccountInvariant, PTL

\* However many sign-ins look for a person's account at once, one is registered.
THEOREM OneAccountEach == Spec => []OneAccountPerSubject
<1>1. AccountInv => OneAccountPerSubject
  <2> SUFFICES ASSUME AccountInv, NEW s \in Subjects
               PROVE  Cardinality(Account(s)) <= 1
    BY DEF OneAccountPerSubject
  <2>1. \A u, v \in Account(s) : u = v
    BY ProvidersAssumption DEF Account, AccountInv, UniqueInv
  <2>2. CASE Account(s) = {}
    BY <2>2, FS_EmptySet
  <2>3. CASE Account(s) # {}
    <3>1. PICK u : Account(s) = {u}
      BY <2>1, <2>3
    <3> QED
      BY <3>1, FS_Singleton
  <2> QED
    BY <2>2, <2>3
<1> QED
  BY <1>1, AccountInvariant, PTL

-----------------------------------------------------------------------------
(* Who is registered. *)

\* A sign-in that began while the registry was what the table said, has kept the row.
ClearInv == \A r \in Requests :
    /\ req[r].pc \in {"look up", "register account"} /\ req[r].clean
           => req[r].cfg = req[r].table /\ req[r].table.on
    /\ req[r].pc = "register account" => req[r].cfg.grants # "none"

\* ClearInv holds after a step that leaves every sign-in past its look-up where it is.
LEMMA ClearStays ==
    ASSUME ClearInv,
           \A r \in Requests : \/ req'[r] = req[r]
                               \/ req'[r].pc \notin {"look up", "register account"}
    PROVE  ClearInv'
BY DEF ClearInv

LEMMA ClearStep ==
    ASSUME RegistryInv, ClearInv, NEW r \in Requests, Step(r)
    PROVE  ClearInv'
<1> USE DEF RegistryInv, TypeInv, TypeOK
<1>0. CASE req' = [req EXCEPT ![r] = Idle]
  BY <1>0, ClearStays DEF Idle
<1>1. ASSUME NEW c \in Configs \cup {Absent}, NEW pc \in {"idle", "unregister", "register"},
             WriteRow(r, c, pc)
      PROVE  ClearInv'
  <2>1. \A q \in Requests : \/ req'[q] = req[q]
                            \/ req'[q].pc \notin {"look up", "register account"}
    BY <1>1 DEF WriteRow, Admins, RequestType, Idle
  <2> QED
    BY <2>1, ClearStays
<1>2. CASE CreateOIDCProvider(r) \/ UpdateOIDCProvider(r) \/ DeleteOIDCProvider(r)
           \/ DeleteRowOnly(r)
  BY <1>1, <1>2
  DEF CreateOIDCProvider, UpdateOIDCProvider, DeleteOIDCProvider, DeleteRowOnly
<1>3. CASE Unregister(r) \/ Register(r) \/ Abandon(r)
  <2>1. \/ req' = [req EXCEPT ![r] = Idle]
        \/ req' = [req EXCEPT ![r].pc = "register"]
    BY <1>3 DEF Unregister, Register, Abandon, Done
  <2>2. CASE req' = [req EXCEPT ![r].pc = "register"]
    BY <2>2, ClearStays DEF RequestType
  <2> QED
    BY <1>0, <2>1, <2>2
<1>4. CASE OIDCCallback(r)
  <2>1. PICK s \in Subjects, e \in Emails \cup {NoEmail} :
          req' = [req EXCEPT ![r] = [Idle EXCEPT
                   !.pc = "look up", !.cfg = reg, !.subject = s, !.email = e,
                   !.table = row, !.clean = ~diverged /\ Admins = {}]]
    BY <1>4 DEF OIDCCallback
  <2>2. /\ \A q \in Requests \ {r} : req'[q] = req[q]
        /\ req'[r].pc = "look up" /\ req'[r].cfg = reg /\ req'[r].table = row
        /\ req'[r].clean => ~diverged /\ Admins = {}
    BY <2>1 DEF Idle
  <2>3. ~diverged /\ Admins = {} => reg = row /\ row.on
    BY <1>4 DEF OIDCCallback, RegistryExplained, Effective
  <2> QED
    BY <2>2, <2>3 DEF ClearInv
<1>5. CASE GetUserByOIDC(r)
  <2>1. \/ req' = [req EXCEPT ![r] = Idle]
        \/ \E u \in Users : req' = [req EXCEPT ![r].pc = "session", ![r].user = u]
        \/ /\ req[r].cfg.grants # "none"
           /\ req' = [req EXCEPT ![r].pc = "register account"]
    BY <1>5 DEF GetUserByOIDC, Account
  <2>2. CASE \E u \in Users : req' = [req EXCEPT ![r].pc = "session", ![r].user = u]
    BY <2>2, ClearStays DEF RequestType
  <2>3. CASE /\ req[r].cfg.grants # "none"
             /\ req' = [req EXCEPT ![r].pc = "register account"]
    <3>1. /\ \A q \in Requests \ {r} : req'[q] = req[q]
          /\ req'[r].cfg = req[r].cfg /\ req'[r].table = req[r].table
          /\ req'[r].clean = req[r].clean
      BY <2>3 DEF RequestType
    <3>2. req[r].pc = "look up"
      BY <1>5 DEF GetUserByOIDC
    <3>3. req'[r].clean => req'[r].cfg = req'[r].table /\ req'[r].table.on
      BY <3>1, <3>2 DEF ClearInv
    <3>4. req'[r].cfg.grants # "none"
      BY <2>3, <3>1
    <3>5. ASSUME NEW q \in Requests \ {r}
          PROVE  /\ req'[q].pc \in {"look up", "register account"} /\ req'[q].clean
                        => req'[q].cfg = req'[q].table /\ req'[q].table.on
                 /\ req'[q].pc = "register account" => req'[q].cfg.grants # "none"
      BY <3>1 DEF ClearInv
    <3> HIDE DEF RegistryInv, TypeInv, TypeOK
    <3> QED
      BY <3>3, <3>4, <3>5 DEF ClearInv
  <2> QED
    BY <1>0, <2>1, <2>2, <2>3
<1>6. CASE RegisterAccount(r) \/ CreateSession(r)
  <2>1. \/ req' = [req EXCEPT ![r] = Idle]
        \/ \E u \in Users : req' = [req EXCEPT ![r].pc = "session", ![r].user = u]
    BY <1>6 DEF RegisterAccount, CreateSession, Fresh
  <2>2. CASE \E u \in Users : req' = [req EXCEPT ![r].pc = "session", ![r].user = u]
    BY <2>2, ClearStays DEF RequestType
  <2> QED
    BY <1>0, <2>1, <2>2
<1> QED
  BY <1>2, <1>3, <1>4, <1>5, <1>6 DEF Step

LEMMA ClearInvariant == Spec => []ClearInv
<1>1. Init => ClearInv
  <2>1. Init => \A r \in Requests : req[r].pc = "idle"
    BY DEF Init, Idle
  <2> QED
    BY <2>1 DEF ClearInv
<1>2. RegistryInv /\ ClearInv /\ [Next]_vars => ClearInv'
  <2> SUFFICES ASSUME RegistryInv, ClearInv, [Next]_vars
               PROVE  ClearInv'
    OBVIOUS
  <2>1. CASE UNCHANGED req
    BY <2>1, ClearStays
  <2>2. CASE Restart
    BY <2>2, ClearStays DEF Restart, Idle
  <2> QED
    BY <2>1, <2>2, ClearStep DEF Next, vars, CreateLocalUser, UpdateUser, DeleteUser
<1> QED
  BY <1>1, <1>2, RegistryInvariant, PTL DEF Spec

\* A sign-in that begins while the registry is what the table says registers an account
\* only by the row's leave and with the row's role, whatever admins do meanwhile.
THEOREM RegistrationsAreAllowed == Spec => RegistrationAllowed
<1> DEFINE Allowed ==
      \A r \in Requests, u \in Users :
         req[r].pc = "register account" /\ req[r].clean /\ req'[r].user = u
             => /\ req[r].table.on
                /\ req[r].table.grants # "none"
                /\ req[r].cfg.grants = req[r].table.grants
<1>1. ClearInv => [Allowed]_vars
  BY DEF ClearInv
<1>2. Spec => [][Allowed]_vars
  BY <1>1, ClearInvariant, PTL
<1> QED
  BY <1>2 DEF RegistrationAllowed
=============================================================================
