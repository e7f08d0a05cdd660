----------------------------- MODULE VisitLogger -----------------------------
(***************************************************************************)
(* The asynchronous click pipeline and the shutdown that ends it: gRPC     *)
(* handlers hand visits to a buffered channel, workers take them out and   *)
(* insert them with connections of the pool, visits to codes that have no  *)
(* row are inserted by goroutines of their own, and main drains the        *)
(* server, closes the logger, closes the pool and exits.                   *)
(*                                                                         *)
(* Each handler records one visit and is named by it. A panic or the end   *)
(* of main ends every goroutine.                                           *)
(***************************************************************************)
EXTENDS Naturals, Sequences, FiniteSets, Functions

CONSTANTS
    Visits,    \* the handlers, and the visits they record
    NoVisit,   \* no visit in a worker's hand
    Workers,   \* the worker goroutines
    BufSize,   \* capacity of visitCh
    MaxConns,  \* connections of the pool
    Faults     \* what may fail, a subset of {"db", "accept"}

ASSUME VisitLoggerAssumption ==
    /\ IsFiniteSet(Visits)
    /\ NoVisit \notin Visits
    /\ IsFiniteSet(Workers)
    /\ Workers # {}
    /\ BufSize \in Nat \ {0}
    /\ MaxConns \in Nat \ {0}

VARIABLES
    main,      \* where main is
    serveErr,  \* gs.Serve returned an error
    handler,   \* where each handler is
    visitCh,   \* the buffered channel
    closed,    \* visitCh is closed
    worker,    \* where each worker is and the visit in its hand
    writer,    \* where the goroutine of each orphan visit is
    poolOpen,  \* the pool takes queries
    clicks,    \* visits in the table clicks
    orphans,   \* visits in the table orphan_visits
    refused    \* history: visits whose insert the database refused

vars == <<main, serveErr, handler, visitCh, closed, worker, writer, poolOpen, clicks,
          orphans, refused>>
mainVars == <<main, serveErr, closed, poolOpen>>
tables == <<clicks, orphans, refused>>

Running == main \notin {"exited", "panicked"}
Held == {worker[w].visit : w \in Workers} \ {NoVisit}

\* A query holds its connection until it ends.
Inserting == {w \in Workers : worker[w].pc = "insert"}
Writing == {v \in Visits : writer[v] = "insert"}
ConnFree == poolOpen /\ Cardinality(Inserting) + Cardinality(Writing) < MaxConns

Init ==
    /\ main = "serving"
    /\ serveErr = FALSE
    /\ handler = [v \in Visits |-> "idle"]
    /\ visitCh = <<>>
    /\ closed = FALSE
    /\ worker = [w \in Workers |-> [pc |-> "recv", visit |-> NoVisit]]
    /\ writer = [v \in Visits |-> "none"]
    /\ poolOpen = TRUE
    /\ clicks = {}
    /\ orphans = {}
    /\ refused = {}

-----------------------------------------------------------------------------
(* The handlers: RecordVisit inside GetURL. *)

\* A handler starts while the server takes requests: until a signal, and on the
\* connections it has also after Serve returned with an error.
GetURL(v) ==
    /\ Running
    /\ main = "serving" \/ serveErr
    /\ handler[v] = "idle"
    /\ handler' = [handler EXCEPT ![v] = "lookup"]
    /\ UNCHANGED <<mainVars, visitCh, worker, writer, tables>>

\* RecordVisit's SELECT; with no row, no answer or no pool the visit is an orphan.
Lookup(v) ==
    /\ Running
    /\ handler[v] = "lookup"
    /\ \/ ConnFree /\ \E pc \in {"log", "orphan"} : handler' = [handler EXCEPT ![v] = pc]
       \/ ~poolOpen /\ handler' = [handler EXCEPT ![v] = "orphan"]
    /\ UNCHANGED <<mainVars, visitCh, worker, writer, tables>>

\* Mutant: a place is kept free.
LogVisitEarlyDrop(v) ==
    /\ Running
    /\ handler[v] = "log"
    /\ \/ /\ Len(visitCh) + 1 < BufSize
          /\ visitCh' = Append(visitCh, v)
          /\ handler' = [handler EXCEPT ![v] = "logged"]
       \/ /\ Len(visitCh) + 1 >= BufSize
          /\ handler' = [handler EXCEPT ![v] = "dropped"]
          /\ UNCHANGED visitCh
    /\ UNCHANGED <<mainVars, worker, writer, tables>>

\* LogVisit's send without waiting: a full buffer drops the visit, a closed
\* channel panics.
LogVisit(v) ==
    /\ Running
    /\ handler[v] = "log"
    /\ \/ /\ ~closed
          /\ Len(visitCh) < BufSize
          /\ visitCh' = Append(visitCh, v)
          /\ handler' = [handler EXCEPT ![v] = "logged"]
          /\ UNCHANGED main
       \/ /\ ~closed
          /\ Len(visitCh) >= BufSize
          /\ handler' = [handler EXCEPT ![v] = "dropped"]
          /\ UNCHANGED <<main, visitCh>>
       \/ /\ closed
          /\ main' = "panicked"
          /\ UNCHANGED <<handler, visitCh>>
    /\ UNCHANGED <<serveErr, closed, poolOpen, worker, writer, tables>>

\* LogOrphanVisit starts a goroutine nobody waits for.
LogOrphanVisit(v) ==
    /\ Running
    /\ handler[v] = "orphan"
    /\ handler' = [handler EXCEPT ![v] = "orphaned"]
    /\ writer' = [writer EXCEPT ![v] = "acquire"]
    /\ UNCHANGED <<mainVars, visitCh, worker, tables>>

-----------------------------------------------------------------------------
(* Inserts. *)

OrphanAcquire(v) ==
    /\ Running
    /\ writer[v] = "acquire"
    /\ \/ ConnFree /\ writer' = [writer EXCEPT ![v] = "insert"]
       \/ ~poolOpen /\ writer' = [writer EXCEPT ![v] = "none"]
    /\ UNCHANGED <<mainVars, handler, visitCh, worker, tables>>

OrphanInsert(v) ==
    /\ Running
    /\ writer[v] = "insert"
    /\ writer' = [writer EXCEPT ![v] = "none"]
    /\ \/ orphans' = orphans \cup {v} /\ UNCHANGED refused
       \/ "db" \in Faults /\ refused' = refused \cup {v} /\ UNCHANGED orphans
    /\ UNCHANGED <<mainVars, handler, visitCh, worker, clicks>>

\* Mutant: the end of the channel is not told from a visit.
ReceiveZeroVisit(w) ==
    /\ Running
    /\ worker[w].pc = "recv"
    /\ visitCh # <<>> \/ closed
    /\ worker' = [worker EXCEPT ![w] = [pc |-> "acquire", visit |->
                      IF visitCh = <<>> THEN NoVisit ELSE Head(visitCh)]]
    /\ visitCh' = IF visitCh = <<>> THEN visitCh ELSE Tail(visitCh)
    /\ UNCHANGED <<mainVars, handler, writer, tables>>

\* Mutant: a worker stops as soon as the channel is closed.
ReceiveUntilClosed(w) ==
    /\ Running
    /\ worker[w].pc = "recv"
    /\ \/ /\ visitCh # <<>> /\ ~closed
          /\ worker' = [worker EXCEPT ![w] = [pc |-> "acquire", visit |-> Head(visitCh)]]
          /\ visitCh' = Tail(visitCh)
       \/ /\ closed
          /\ worker' = [worker EXCEPT ![w].pc = "signal"]
          /\ UNCHANGED visitCh
    /\ UNCHANGED <<mainVars, handler, writer, tables>>

\* A worker takes the next visit, or leaves its loop when the channel is closed
\* and empty.
Receive(w) ==
    /\ Running
    /\ worker[w].pc = "recv"
    /\ \/ /\ visitCh # <<>>
          /\ worker' = [worker EXCEPT ![w] = [pc |-> "acquire", visit |-> Head(visitCh)]]
          /\ visitCh' = Tail(visitCh)
       \/ /\ visitCh = <<>>
          /\ closed
          /\ worker' = [worker EXCEPT ![w].pc = "signal"]
          /\ UNCHANGED visitCh
    /\ UNCHANGED <<mainVars, handler, writer, tables>>

BackToReceive(w) == worker' = [worker EXCEPT ![w] = [pc |-> "recv", visit |-> NoVisit]]

\* insertClick: Exec takes a connection of the pool, and fails without one when
\* the pool is closed.
Acquire(w) ==
    /\ Running
    /\ worker[w].pc = "acquire"
    /\ \/ ConnFree /\ worker' = [worker EXCEPT ![w].pc = "insert"]
       \/ ~poolOpen /\ BackToReceive(w)
    /\ UNCHANGED <<mainVars, handler, visitCh, writer, tables>>

\* An insert that fails is logged and not tried again.
InsertClick(w) ==
    /\ Running
    /\ worker[w].pc = "insert"
    /\ BackToReceive(w)
    /\ \/ clicks' = clicks \cup {worker[w].visit} /\ UNCHANGED refused
       \/ /\ "db" \in Faults
          /\ refused' = refused \cup {worker[w].visit}
          /\ UNCHANGED clicks
    /\ UNCHANGED <<mainVars, handler, visitCh, writer, orphans>>

\* The worker's last act: a send on the unbuffered done that does not wait, so
\* it is lost unless Close is already receiving.
Signal(w) ==
    /\ Running
    /\ worker[w].pc = "signal"
    /\ worker' = [worker EXCEPT ![w].pc = "exited"]
    /\ main' = IF main = "waiting" THEN "closePool" ELSE main
    /\ UNCHANGED <<serveErr, closed, poolOpen, handler, visitCh, writer, tables>>

-----------------------------------------------------------------------------
(* Main. *)

\* A signal arrives: GracefulStop takes no more requests.
GracefulStop ==
    /\ main = "serving"
    /\ main' = "draining"
    /\ UNCHANGED <<serveErr, closed, poolOpen, handler, visitCh, worker, writer, tables>>

Busy(v) == handler[v] \in {"lookup", "log", "orphan"}

\* Mutant: Serve returns before the handlers do.
ServeReturnsAtOnce ==
    /\ main = "draining"
    /\ main' = "closeLogger"
    /\ UNCHANGED <<serveErr, closed, poolOpen, handler, visitCh, worker, writer, tables>>

\* Serve returns after GracefulStop when the last handler has, or with an error
\* of the listener while handlers run.
ServeReturns ==
    /\ \/ main = "draining" /\ (\A v \in Visits : ~Busy(v)) /\ UNCHANGED serveErr
       \/ main = "serving" /\ "accept" \in Faults /\ serveErr' = TRUE
    /\ main' = "closeLogger"
    /\ UNCHANGED <<closed, poolOpen, handler, visitCh, worker, writer, tables>>

\* Mutant: the channel is not closed.
CloseNothing ==
    /\ main = "closeLogger"
    /\ main' = "closed"
    /\ UNCHANGED <<serveErr, closed, poolOpen, handler, visitCh, worker, writer, tables>>

\* VisitLogger.Close: close(visitCh), then the receive from done.
CloseChannel ==
    /\ main = "closeLogger"
    /\ main' = "closed"
    /\ closed' = TRUE
    /\ UNCHANGED <<serveErr, poolOpen, handler, visitCh, worker, writer, tables>>

\* Mutant: Close does not wait.
AwaitNothing ==
    /\ main = "closed"
    /\ main' = "closePool"
    /\ UNCHANGED <<serveErr, closed, poolOpen, handler, visitCh, worker, writer, tables>>

AwaitDone ==
    /\ main = "closed"
    /\ main' = "waiting"
    /\ UNCHANGED <<serveErr, closed, poolOpen, handler, visitCh, worker, writer, tables>>

\* Pool.Close refuses new queries and waits for the connections in use.
ClosePool ==
    /\ main = "closePool"
    /\ main' = "closingPool"
    /\ poolOpen' = FALSE
    /\ UNCHANGED <<serveErr, closed, handler, visitCh, worker, writer, tables>>

Exit ==
    /\ main = "closingPool"
    /\ Inserting = {} /\ Writing = {}
    /\ main' = "exited"
    /\ UNCHANGED <<serveErr, closed, poolOpen, handler, visitCh, worker, writer, tables>>

Handle(v) == Lookup(v) \/ LogVisit(v) \/ LogOrphanVisit(v)
WriteOrphan(v) == OrphanAcquire(v) \/ OrphanInsert(v)
Work(w) == Receive(w) \/ Acquire(w) \/ InsertClick(w) \/ Signal(w)
Main == ServeReturns \/ CloseChannel \/ AwaitDone \/ ClosePool \/ Exit

Next == \/ \E v \in Visits : GetURL(v) \/ Handle(v) \/ WriteOrphan(v)
        \/ \E w \in Workers : Work(w)
        \/ GracefulStop
        \/ Main

Spec == Init /\ [][Next]_vars

\* Runnable goroutines run, queries end. Signals and listener errors need not
\* come.
Fairness ==
    /\ \A v \in Visits : WF_vars(Handle(v)) /\ WF_vars(WriteOrphan(v))
    /\ \A w \in Workers : WF_vars(Work(w))
    /\ WF_vars(main # "serving" /\ Main)

FairSpec == Spec /\ Fairness

-----------------------------------------------------------------------------
(* Properties. *)

MainType == {"serving", "draining", "closeLogger", "closed", "waiting", "closePool",
             "closingPool", "exited", "panicked"}
HandlerType == {"idle", "lookup", "log", "logged", "dropped", "orphan", "orphaned"}
WorkerType == [pc : {"recv", "acquire", "insert", "signal", "exited"},
               visit : Visits \cup {NoVisit}]

\* Every variable keeps its type, and the buffer its capacity.
TypeOK ==
    /\ main \in MainType
    /\ serveErr \in BOOLEAN
    /\ handler \in [Visits -> HandlerType]
    /\ visitCh \in Seq(Visits) /\ Len(visitCh) <= BufSize
    /\ closed \in BOOLEAN
    /\ worker \in [Workers -> WorkerType]
    /\ writer \in [Visits -> {"none", "acquire", "insert"}]
    /\ poolOpen \in BOOLEAN
    /\ clicks \subseteq Visits
    /\ orphans \subseteq Visits
    /\ refused \subseteq Visits

\* A handler sends on the closed channel only when Serve gave up with an error:
\* after a signal the handlers are drained before main closes the logger.
PanicNeedsServeError == main = "panicked" => serveErr

CloseReturned == main \in {"closePool", "closingPool", "exited"}

\* When Close returns, the buffer is drained and the worker that signalled has
\* nothing in hand: what is still to be written is in the hands of the others.
CloseDrains == CloseReturned => /\ visitCh = <<>>
                                /\ \E w \in Workers : worker[w].visit = NoVisit

\* A shutdown loses less accepted visits than there are workers, unless the
\* database refuses them.
Lost == {v \in Visits : handler[v] = "logged"} \ (clicks \cup refused)
ShutdownLossBounded == main = "exited" => Cardinality(Lost) < Cardinality(Workers)

\* A visit in the buffer is taken by a worker, also while the server drains and
\* closes, as long as the process lives.
QueuedIsTaken == \A v \in Visits :
    v \in Range(visitCh) ~> v \notin Range(visitCh) \/ ~Running

\* A shutdown comes to its end, or hangs in Close with every worker gone: the
\* lost done signal is the only way to hang.
ShutdownEndsOrSignalLost ==
    main = "draining" ~> \/ ~Running
                         \/ main = "waiting" /\ \A w \in Workers : worker[w].pc = "exited"

\* The logger keeps VisitPromise's promise.
Status(v) ==
    CASE handler[v] = "dropped" -> "dropped"
      [] handler[v] # "logged" /\ handler[v] # "dropped" -> "new"
      [] handler[v] = "logged" /\ v \in Range(visitCh) \cup Held -> "pending"
      [] handler[v] = "logged" /\ v \notin Range(visitCh) \cup Held /\ v \in clicks -> "written"
      [] OTHER -> "lost"

Promise == INSTANCE VisitPromise WITH status <- [v \in Visits |-> Status(v)],
                                      open <- poolOpen
KeepsPromise == Promise!Spec

(* A claim of the repository that the code does not keep. *)

\* Close returns.
CloseReturns == main = "closeLogger" ~> CloseReturned \/ ~Running
=============================================================================
