------------------------------ MODULE MC_Access ------------------------------
(* Instances of Access for TLC. *)
EXTENDS Access, TLC

CONSTANTS c1, c2

MCSymmetry == Permutations(Calls)

\* What is explored: one request at a time, of any kind, on two accounts, of which the
\* second is never deactivated, two workspaces and a session, without keys; and two
\* requests at once that write, by session or key, or sign in, on one account, one
\* workspace, and three sessions and keys together.
OneRequest ==
    /\ next.key = 1
    /\ \A u \in UserIds \ {1} : users[u].status # "inactive"
    /\ next.session + Cardinality({c \in Calls : call[c].op = "login"}) <= 2
    /\ \A c, d \in Calls : c = d \/ call[c].pc = "idle" \/ call[d].pc = "idle"
OneAccount ==
    /\ next.user <= 2 /\ next.ws <= 2 /\ next.session + next.key <= 5
    /\ \A c \in Calls : call[c].op \in {"none", "write", "login"} /\ call[c].ws <= 1
InScope == OneRequest \/ OneAccount
=============================================================================
