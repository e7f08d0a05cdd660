------------------------------- MODULE Providers -------------------------------
(***************************************************************************)
(* One OIDC provider: its row in oidc_providers, its entry in the registry *)
(* OIDCManager keeps in memory, the admin requests that change the two one *)
(* after the other, and the sign-ins that read the entry and find or       *)
(* register an account by the subject of their ID token.                   *)
(***************************************************************************)
EXTENDS Naturals, FiniteSets

CONSTANTS
    Roles,       \* default roles a provider may give
    Subjects,    \* people at the provider
    Emails,      \* e-mail addresses
    Users,       \* ids of accounts
    Requests,    \* concurrent requests
    NoSubject,   \* the oidc_subject of a local account
    NoEmail,     \* an ID token without the claim
    NoUser,      \* no account
    Faults       \* {"lost"} when requests may stop half way, else {}

ASSUME ProvidersAssumption ==
    /\ NoSubject \notin Subjects
    /\ NoEmail \notin Emails
    /\ NoUser \notin Users
    /\ "none" \notin Roles

VARIABLES
    row,       \* the row of oidc_providers
    reg,       \* the entry of the registry
    users,     \* table users, with who has a session of the account
    req,       \* each request: locals and history
    diverged   \* history: something happened that may leave reg unlike row

vars == <<row, reg, users, req, diverged>>

-----------------------------------------------------------------------------
\* grants: the role auto-registration gives, "none" when it is off.
Configs == [there : {TRUE}, on : BOOLEAN, grants : Roles \cup {"none"}]
Absent == [there |-> FALSE, on |-> FALSE, grants |-> "none"]
\* What the registry holds for a row: entries of enabled providers only.
Effective(c) == IF c.on THEN c ELSE Absent

NoAccount == [there |-> FALSE, subject |-> NoSubject, email |-> NoEmail,
              active |-> FALSE, sessions |-> {}]

Idle == [pc |-> "idle", cfg |-> Absent, subject |-> NoSubject, email |-> NoEmail,
         user |-> NoUser,
         alone |-> TRUE,      \* history: no other admin request overlapped
         table |-> Absent,    \* history: the row when the sign-in began
         clean |-> FALSE]     \* history: nothing had made reg unlike row then

AdminPcs == {"unregister", "register"}
Admins == {r \in Requests : req[r].pc \in AdminPcs}
Account(s) == {u \in Users : users[u].there /\ users[u].subject = s}
Has(e) == {u \in Users : users[u].there /\ users[u].email = e}
Fresh == {u \in Users : ~users[u].there /\ \A r \in Requests : req[r].user # u}

Init ==
    /\ row = Absent
    /\ reg = Absent
    /\ users = [u \in Users |-> NoAccount]
    /\ req = [r \in Requests |-> Idle]
    /\ diverged = FALSE

-----------------------------------------------------------------------------
(* Admin requests: a statement on the row, then the registry. *)

\* r has changed the row to c and goes on at pc. Who is under way is not alone.
WriteRow(r, c, pc) ==
    /\ req[r].pc = "idle"
    /\ row' = c
    /\ req' = [q \in Requests |->
                 IF q = r /\ pc # "idle" THEN [Idle EXCEPT !.pc = pc, !.cfg = c, !.alone = Admins = {}]
                 ELSE IF q \in Admins THEN [req[q] EXCEPT !.alone = FALSE]
                 ELSE req[q]]
    /\ UNCHANGED <<reg, users>>

\* r is done with the registry: alone, it has made it like the row.
Done(r) ==
    /\ req' = [req EXCEPT ![r] = Idle]
    /\ diverged' = ~req[r].alone

\* POST /admin/oidc-providers, CreateOIDCProvider (always enabled). A disabled
\* provider is not registered, and what the registry has stays.
CreateOIDCProvider(r) == \E c \in Configs :
    /\ ~row.there
    /\ WriteRow(r, c, IF c.on THEN "register" ELSE "idle")
    /\ UNCHANGED diverged

\* PATCH: any of the fields.
UpdateOIDCProvider(r) == \E c \in Configs :
    /\ row.there
    /\ WriteRow(r, c, "unregister")
    /\ UNCHANGED diverged

\* DELETE.
DeleteOIDCProvider(r) ==
    /\ row.there
    /\ WriteRow(r, Absent, "unregister")
    /\ UNCHANGED diverged

\* The gRPC call deletes the row only.
DeleteRowOnly(r) ==
    /\ row.there
    /\ WriteRow(r, Absent, "idle")
    /\ diverged' = (diverged \/ reg # Absent)

\* Mutant: PATCH registers over the entry, which stays when the provider is off.
UnregisterDeleted(r) ==
    /\ req[r].pc = "unregister"
    /\ reg' = IF req[r].cfg.there THEN reg ELSE Absent
    /\ IF req[r].cfg.on
       THEN req' = [req EXCEPT ![r].pc = "register"] /\ UNCHANGED diverged
       ELSE Done(r)
    /\ UNCHANGED <<row, users>>

\* UnregisterProvider, and RegisterProvider when the provider is not enabled.
Unregister(r) ==
    /\ req[r].pc = "unregister"
    /\ reg' = Absent
    /\ IF req[r].cfg.on
       THEN req' = [req EXCEPT ![r].pc = "register"] /\ UNCHANGED diverged
       ELSE Done(r)
    /\ UNCHANGED <<row, users>>

\* RegisterProvider, after its discovery: an answer of the provider's issuer.
Register(r) ==
    /\ req[r].pc = "register"
    /\ reg' = req[r].cfg
    /\ Done(r)
    /\ UNCHANGED <<row, users>>

\* Discovery fails and is logged, or the request is cancelled after its statement.
Abandon(r) ==
    /\ "lost" \in Faults
    /\ req[r].pc \in AdminPcs
    /\ req' = [req EXCEPT ![r] = Idle]
    /\ diverged' = TRUE
    /\ UNCHANGED <<row, reg, users>>

\* Mutant: the providers are registered whether enabled or not.
RestartWithAll ==
    /\ req' = [r \in Requests |-> Idle]
    /\ \/ reg' = row /\ diverged' = FALSE
       \/ "lost" \in Faults /\ reg' = Absent /\ diverged' = TRUE
    /\ UNCHANGED <<row, users>>

\* The process stops and starts: main registers what the table has, if it can be
\* read and discovery answers.
Restart ==
    /\ req' = [r \in Requests |-> Idle]
    /\ \/ reg' = Effective(row) /\ diverged' = FALSE
       \/ "lost" \in Faults /\ reg' = Absent /\ diverged' = TRUE
    /\ UNCHANGED <<row, users>>

-----------------------------------------------------------------------------
(* Sign-ins. *)

\* OIDCCallback up to the verified ID token: it keeps the entry it found.
OIDCCallback(r) == \E s \in Subjects, e \in Emails \cup {NoEmail} :
    /\ req[r].pc = "idle"
    /\ reg # Absent
    /\ req' = [req EXCEPT ![r] = [Idle EXCEPT
                   !.pc = "look up", !.cfg = reg, !.subject = s, !.email = e,
                   !.table = row, !.clean = ~diverged /\ Admins = {}]]
    /\ UNCHANGED <<row, reg, users, diverged>>

\* Mutant: the account is looked for by its e-mail.
GetUserByEmail(r) ==
    /\ req[r].pc = "look up"
    /\ \/ \E u \in Has(req[r].email) :
            /\ users[u].active
            /\ req' = [req EXCEPT ![r].pc = "session", ![r].user = u]
       \/ /\ Has(req[r].email) = {}
          /\ req[r].cfg.grants # "none" /\ req[r].email # NoEmail
          /\ req' = [req EXCEPT ![r].pc = "register account"]
    /\ UNCHANGED <<row, reg, users, diverged>>

\* Mutant: AutoRegister is not asked for.
GetUserByOIDCAnyway(r) ==
    /\ req[r].pc = "look up"
    /\ \/ \E u \in Account(req[r].subject) :
            /\ users[u].active
            /\ req' = [req EXCEPT ![r].pc = "session", ![r].user = u]
       \/ /\ Account(req[r].subject) = {} /\ req[r].email # NoEmail
          /\ req' = [req EXCEPT ![r].pc = "register account"]
    /\ UNCHANGED <<row, reg, users, diverged>>

\* GetUserByOIDC, and what OIDCCallback refuses then.
GetUserByOIDC(r) ==
    /\ req[r].pc = "look up"
    /\ LET own == Account(req[r].subject)
           mayRegister == req[r].cfg.grants # "none" /\ req[r].email # NoEmail IN
       \/ \E u \in own :
            /\ users[u].active
            /\ req' = [req EXCEPT ![r].pc = "session", ![r].user = u]
       \/ /\ own = {} /\ mayRegister
          /\ req' = [req EXCEPT ![r].pc = "register account"]
       \/ /\ \/ own = {} /\ ~mayRegister
             \/ \E u \in own : ~users[u].active
          /\ req' = [req EXCEPT ![r] = Idle]
    /\ UNCHANGED <<row, reg, users, diverged>>

\* Mutant: there is no unique index on issuer and subject.
InsertableByEmail(s, e) == Has(e) = {}

\* An INSERT into users that passes its unique indexes, or fails by them.
Insertable(s, e) == Has(e) = {} /\ (s = NoSubject \/ Account(s) = {})

\* CreateUser for the sign-in, with the default role of the entry it kept, cfg.grants.
RegisterAccount(r) ==
    /\ req[r].pc = "register account"
    /\ LET q == req[r] IN
       \/ /\ Insertable(q.subject, q.email)
          /\ \E u \in Fresh :
               /\ users' = [users EXCEPT ![u] = [there |-> TRUE, subject |-> q.subject,
                               email |-> q.email, active |-> TRUE, sessions |-> {}]]
               /\ req' = [req EXCEPT ![r].pc = "session", ![r].user = u]
       \/ /\ ~Insertable(q.subject, q.email)
          /\ req' = [req EXCEPT ![r] = Idle]
          /\ UNCHANGED users
    /\ UNCHANGED <<row, reg, diverged>>

\* CreateSession: nothing for an account that is gone, and its error is dropped.
CreateSession(r) ==
    /\ req[r].pc = "session"
    /\ users' = IF users[req[r].user].there
                THEN [users EXCEPT ![req[r].user].sessions = @ \cup {req[r].subject}]
                ELSE users
    /\ req' = [req EXCEPT ![r] = Idle]
    /\ UNCHANGED <<row, reg, diverged>>

-----------------------------------------------------------------------------
(* Accounts, by an admin or their owner: one statement each. Their roles, which no    *)
(* step here reads, are left out.                                                    *)

CreateLocalUser == \E u \in Fresh, e \in Emails :
    /\ Insertable(NoSubject, e)
    /\ users' = [users EXCEPT ![u] = [there |-> TRUE, subject |-> NoSubject, email |-> e,
                                      active |-> TRUE, sessions |-> {}]]
    /\ UNCHANGED <<row, reg, req, diverged>>

UpdateUser == \E u \in Users, e \in Emails, a \in BOOLEAN :
    /\ users[u].there
    /\ Has(e) \subseteq {u}
    /\ users' = [users EXCEPT ![u].email = e, ![u].active = a]
    /\ UNCHANGED <<row, reg, req, diverged>>

DeleteUser == \E u \in Users :
    /\ users[u].there
    /\ users' = [users EXCEPT ![u] = NoAccount]
    /\ UNCHANGED <<row, reg, req, diverged>>

Step(r) == \/ CreateOIDCProvider(r) \/ UpdateOIDCProvider(r) \/ DeleteOIDCProvider(r)
           \/ DeleteRowOnly(r) \/ Unregister(r) \/ Register(r) \/ Abandon(r)
           \/ OIDCCallback(r) \/ GetUserByOIDC(r) \/ RegisterAccount(r) \/ CreateSession(r)

Next == \/ \E r \in Requests : Step(r)
        \/ Restart
        \/ CreateLocalUser \/ UpdateUser \/ DeleteUser

Spec == Init /\ [][Next]_vars

-----------------------------------------------------------------------------
(* Properties. *)

AccountType == [there : BOOLEAN, subject : Subjects \cup {NoSubject},
                email : Emails \cup {NoEmail},
                active : BOOLEAN, sessions : SUBSET Subjects]
RequestType == [pc : {"idle", "look up", "register account", "session"} \cup AdminPcs,
                cfg : Configs \cup {Absent}, subject : Subjects \cup {NoSubject},
                email : Emails \cup {NoEmail}, user : Users \cup {NoUser},
                alone : BOOLEAN, table : Configs \cup {Absent}, clean : BOOLEAN]

\* Every variable keeps its type, and only enabled providers have an entry.
TypeOK ==
    /\ row \in Configs \cup {Absent}
    /\ reg \in {c \in Configs : c.on} \cup {Absent}
    /\ users \in [Users -> AccountType]
    /\ req \in [Requests -> RequestType]
    /\ diverged \in BOOLEAN

\* When no admin request is under way the registry is what the table says, unless one
\* of four things came after they last agreed: admin requests that overlapped, a
\* request or a restart whose discovery failed or that was cancelled half way, or the
\* gRPC call that deletes the row alone.
RegistryExplained == Admins = {} /\ ~diverged => reg = Effective(row)

\* A sign-in that begins while the registry is what the table says registers an
\* account only if the row had the provider on and let it, and with the row's role,
\* whatever admins and other sign-ins do before the account is inserted.
RegistrationAllowed ==
    [][\A r \in Requests, u \in Users :
         req[r].pc = "register account" /\ req[r].clean /\ req'[r].user = u
             => /\ req[r].table.on
                /\ req[r].table.grants # "none"
                /\ req[r].cfg.grants = req[r].table.grants]_vars

\* Sign-ins of one person that look for an account at the same time, e-mails that
\* change hands, deletions: a person has at most one account.
OneAccountPerSubject == \A s \in Subjects : Cardinality(Account(s)) <= 1

\* A session a sign-in makes is of the account of the subject in its ID token, never of
\* a local account or of someone else's with the same e-mail.
SessionsAreOwn == \A u \in Users : users[u].sessions \subseteq {users[u].subject}
=============================================================================
