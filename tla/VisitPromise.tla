----------------------------- MODULE VisitPromise -----------------------------
(***************************************************************************)
(* What the visit logger promises its callers, without channel, workers or *)
(* connections: a visit is accepted or dropped at once, it is dropped only *)
(* when as many visits as the buffer holds are pending, an accepted visit  *)
(* is written at most once, and it is lost only to a failing database or   *)
(* after the pool was closed. UrlStore uses the logger in this form: its   *)
(* slots are the pending visits.                                           *)
(***************************************************************************)
EXTENDS Naturals, FiniteSets

CONSTANTS Visits, BufSize, Workers, Faults

VARIABLES
    status,  \* what became of each visit
    open     \* the pool takes queries

Pending == {v \in Visits : status[v] = "pending"}

Become(v, s) == status' = [status EXCEPT ![v] = s] /\ UNCHANGED open

Init == status = [v \in Visits |-> "new"] /\ open = TRUE

Accept(v) == /\ status[v] = "new"
             /\ Cardinality(Pending) < BufSize + Cardinality(Workers)
             /\ Become(v, "pending")

Drop(v) == /\ status[v] = "new"
           /\ Cardinality(Pending) >= BufSize
           /\ Become(v, "dropped")

Write(v) == status[v] = "pending" /\ Become(v, "written")

Lose(v) == /\ status[v] = "pending"
           /\ ~open \/ "db" \in Faults
           /\ Become(v, "lost")

Close == open /\ open' = FALSE /\ UNCHANGED status

Next == Close \/ \E v \in Visits : Accept(v) \/ Drop(v) \/ Write(v) \/ Lose(v)

Spec == Init /\ [][Next]_<<status, open>>
=============================================================================
