-------------------------- MODULE VisitLogger_proofs --------------------------
(***************************************************************************)
(* Proofs about VisitLogger, for any finite sets of visits and workers,    *)
(* any capacity of the buffer and of the pool, and with or without faults: *)
(* its safety properties, and that it implements VisitPromise.             *)
(***************************************************************************)
EXTENDS VisitLogger, FiniteSetTheorems, SequenceTheorems, TLAPS

Logged == {v \in Visits : handler[v] = "logged"}
Queued == Range(visitCh)

-----------------------------------------------------------------------------
(* The invariants. *)

\* A worker has a visit in its hand exactly while it inserts, and leaves its loop only
\* when the channel is closed and empty.
WorkerInv == \A w \in Workers :
    /\ worker[w].visit # NoVisit <=> worker[w].pc \in {"acquire", "insert"}
    /\ worker[w].pc \in {"signal", "exited"} => closed /\ visitCh = <<>>

\* What main has done, by where it is. Without an error of Serve no handler runs once
\* the server is drained.
MainInv ==
    /\ closed => main \notin {"serving", "draining", "closeLogger"}
    /\ ~serveErr /\ main \notin {"serving", "draining"}
           => main # "panicked" /\ \A v \in Visits : ~Busy(v)
    /\ CloseReturned \/ ~poolOpen => \E w \in Workers : worker[w].pc = "exited"
    /\ ~poolOpen => main \in {"closingPool", "exited", "panicked"}
    /\ main \in {"closingPool", "exited"} => ~poolOpen

\* A visit that waits for its insert is in one place, and has not been written.
PlaceInv ==
    /\ \A i, j \in 1..Len(visitCh) : visitCh[i] = visitCh[j] => i = j
    /\ \A w, x \in Workers : worker[w].visit = worker[x].visit /\ worker[w].visit # NoVisit
                                 => w = x
    /\ Queued \cap Held = {}
    /\ Queued \cup Held \subseteq Logged \ clicks
    /\ clicks \subseteq Logged

\* Accepted visits are somewhere while the pool is open. Afterwards each worker but one
\* may lose the visit it has in its hand, and takes no other.
Gone == Logged \ (clicks \cup refused \cup Queued \cup Held)
Holders == {w \in Workers : worker[w].visit # NoVisit}
LossInv == IF poolOpen THEN Gone = {}
           ELSE Cardinality(Gone) + Cardinality(Holders) < Cardinality(Workers)

LoggerInv == TypeOK /\ WorkerInv /\ MainInv /\ PlaceInv /\ LossInv

-----------------------------------------------------------------------------
(* Facts about the model's operators. *)

\* The range of a sequence that grows at its end, or loses its head.
LEMMA QueueRange ==
    ASSUME NEW s \in Seq(Visits)
    PROVE  /\ \A v \in Visits : Range(Append(s, v)) = Range(s) \cup {v}
           /\ s # <<>> => Range(s) = {Head(s)} \cup Range(Tail(s))
<1>1. ASSUME NEW v \in Visits
      PROVE  Range(Append(s, v)) = Range(s) \cup {v}
  <2> DEFINE t == Append(s, v)
  <2>1. /\ Len(s) \in Nat /\ DOMAIN s = 1..Len(s)
        /\ DOMAIN t = 1..(Len(s) + 1)
        /\ \A i \in 1..Len(s) : t[i] = s[i]
        /\ t[Len(s) + 1] = v
    BY AppendProperties, LenProperties
  <2> HIDE DEF t
  <2>2. 1..(Len(s) + 1) = (1..Len(s)) \cup {Len(s) + 1}
    BY <2>1
  <2>3. Range(t) = Range(s) \cup {v}
    BY <2>1, <2>2 DEF Range
  <2> QED
    BY <2>3 DEF t
<1>2. ASSUME s # <<>>
      PROVE  Range(s) = {Head(s)} \cup Range(Tail(s))
  <2> DEFINE t == Tail(s)
  <2>1. /\ Len(s) \in Nat \ {0} /\ DOMAIN s = 1..Len(s)
        /\ DOMAIN t = 1..(Len(s) - 1)
        /\ \A i \in 1..(Len(s) - 1) : t[i] = s[i + 1]
        /\ Head(s) = s[1]
    BY <1>2, HeadTailProperties, LenProperties, EmptySeq
  <2> HIDE DEF t
  <2>2. ASSUME NEW i \in 1..Len(s), i # 1
        PROVE  s[i] \in Range(t)
    <3>1. i - 1 \in 1..(Len(s) - 1) /\ (i - 1) + 1 = i
      BY <2>1, <2>2
    <3> QED
      BY <2>1, <3>1 DEF Range
  <2>3. ASSUME NEW i \in 1..(Len(s) - 1)
        PROVE  t[i] \in Range(s)
    <3>1. i + 1 \in 1..Len(s)
      BY <2>1
    <3> QED
      BY <2>1, <3>1 DEF Range
  <2>4. Head(s) \in Range(s)
    BY <2>1 DEF Range
  <2>5. Range(s) = {Head(s)} \cup Range(t)
    <3>1. Range(s) = {s[i] : i \in 1..Len(s)} /\ Range(t) = {t[i] : i \in 1..(Len(s) - 1)}
      BY <2>1 DEF Range
    <3> QED
      BY <2>1, <2>2, <2>3, <2>4, <3>1
  <2> QED
    BY <2>5 DEF t
<1> QED
  BY <1>1, <1>2

\* A sequence without repetitions stays so when an element it does not have is added,
\* or its head is taken, and then the head is gone from it.
LEMMA QueueDistinct ==
    ASSUME NEW s \in Seq(Visits),
           \A i, j \in 1..Len(s) : s[i] = s[j] => i = j
    PROVE  /\ \A v \in Visits \ Range(s) : LET t == Append(s, v) IN
                  \A i, j \in 1..Len(t) : t[i] = t[j] => i = j
           /\ s # <<>> => LET t == Tail(s) IN
                  \A i, j \in 1..Len(t) : t[i] = t[j] => i = j
           /\ s # <<>> => Head(s) \notin Range(Tail(s))
<1>1. ASSUME NEW v \in Visits \ Range(s), NEW i \in 1..Len(Append(s, v)),
             NEW j \in 1..Len(Append(s, v)), Append(s, v)[i] = Append(s, v)[j]
      PROVE  i = j
  <2>1. \A k \in 1..Len(s) : s[k] # v
    BY RangeEquality
  <2> QED
    BY <1>1, <2>1, AppendProperties, LenProperties
<1>2. ASSUME s # <<>>
      PROVE  /\ \A i, j \in 1..Len(Tail(s)) : Tail(s)[i] = Tail(s)[j] => i = j
             /\ Head(s) \notin Range(Tail(s))
  <2>1. /\ Tail(s) \in Seq(Visits) /\ Len(Tail(s)) = Len(s) - 1 /\ Len(s) \in Nat
        /\ \A i \in 1..Len(Tail(s)) : Tail(s)[i] = s[i + 1]
    BY <1>2, HeadTailProperties, LenProperties
  <2>2. \A i \in 1..Len(Tail(s)) : Tail(s)[i] # Head(s)
    BY <1>2, <2>1
  <2>3. \A i, j \in 1..Len(Tail(s)) : Tail(s)[i] = Tail(s)[j] => i = j
    BY <2>1
  <2>4. Range(Tail(s)) = {Tail(s)[i] : i \in 1..Len(Tail(s))}
    <3>1. DOMAIN Tail(s) = 1..Len(Tail(s))
      BY <2>1, LenProperties
    <3> QED
      BY <3>1 DEF Range
  <2>5. Head(s) \notin Range(Tail(s))
    BY <2>2, <2>4
  <2> QED
    BY <2>3, <2>5
<1> QED
  BY <1>1, <1>2

\* As many visits wait in a sequence without repetitions as it is long.
LEMMA QueueCardinality ==
    ASSUME NEW s \in Seq(Visits)
    PROVE  /\ IsFiniteSet(Range(s)) /\ Cardinality(Range(s)) <= Len(s)
           /\ (\A i, j \in 1..Len(s) : s[i] = s[j] => i = j) => Cardinality(Range(s)) = Len(s)
<1>1. /\ Len(s) \in Nat /\ s \in [1..Len(s) -> Visits] /\ Range(s) = {s[i] : i \in 1..Len(s)}
  BY LenProperties, RangeEquality
<1>2. IsFiniteSet(1..Len(s)) /\ Cardinality(1..Len(s)) = Len(s)
  BY <1>1, FS_Interval
<1>3. s \in Surjection(1..Len(s), Range(s))
  BY <1>1 DEF Surjection
<1>4. (\A i, j \in 1..Len(s) : s[i] = s[j] => i = j) => s \in Injection(1..Len(s), Range(s))
  BY <1>1 DEF Injection, IsInjective
<1> QED
  BY <1>2, <1>3, <1>4, FS_Surjection

\* Workers have no more visits in their hands than there are workers with one.
LEMMA HeldCardinality ==
    ASSUME TypeOK
    PROVE  /\ IsFiniteSet(Holders) /\ Cardinality(Holders) <= Cardinality(Workers)
           /\ IsFiniteSet(Held) /\ Cardinality(Held) <= Cardinality(Holders)
<1>1. IsFiniteSet(Holders) /\ Cardinality(Holders) <= Cardinality(Workers)
  BY VisitLoggerAssumption, FS_Subset DEF Holders
<1> DEFINE inHand == [w \in Holders |-> worker[w].visit]
<1>2. inHand \in Surjection(Holders, Held)
  BY DEF Surjection, Holders, Held
<1> QED
  BY <1>1, <1>2, FS_Surjection

\* A union has no more elements than its parts together.
LEMMA UnionBound ==
    ASSUME NEW S, IsFiniteSet(S), NEW T, IsFiniteSet(T)
    PROVE  /\ IsFiniteSet(S \cup T) /\ Cardinality(S \cup T) \in Nat
           /\ Cardinality(S \cup T) <= Cardinality(S) + Cardinality(T)
<1>1. /\ IsFiniteSet(S \cap T) /\ Cardinality(S \cap T) \in Nat
      /\ Cardinality(S) \in Nat /\ Cardinality(T) \in Nat
  BY FS_Intersection, FS_CardinalityType
<1>2. /\ IsFiniteSet(S \cup T)
      /\ Cardinality(S \cup T) = Cardinality(S) + Cardinality(T) - Cardinality(S \cap T)
  BY FS_Union
<1>3. Cardinality(S \cup T) \in Nat
  BY <1>2, FS_CardinalityType
<1> QED
  BY <1>1, <1>2, <1>3

-----------------------------------------------------------------------------
(* Type correctness. *)

LEMMA TypeStep == TypeOK /\ WorkerInv /\ [Next]_vars => TypeOK'
<1> SUFFICES ASSUME TypeOK, WorkerInv, [Next]_vars
             PROVE  TypeOK'
  OBVIOUS
<1> USE DEF TypeOK, mainVars, tables
<1>1. ASSUME NEW v \in Visits, GetURL(v) \/ Lookup(v) \/ LogOrphanVisit(v)
      PROVE  TypeOK'
  <2>1. handler' \in [Visits -> HandlerType]
    BY <1>1 DEF GetURL, Lookup, LogOrphanVisit, HandlerType
  <2> QED
    BY <1>1, <2>1 DEF GetURL, Lookup, LogOrphanVisit
<1>2. ASSUME NEW v \in Visits, LogVisit(v)
      PROVE  TypeOK'
  <2>1. visitCh' \in Seq(Visits) /\ Len(visitCh') <= BufSize
    <3>1. \/ visitCh' = visitCh
          \/ visitCh' = Append(visitCh, v) /\ Len(visitCh) < BufSize
      BY <1>2 DEF LogVisit
    <3>2. /\ Append(visitCh, v) \in Seq(Visits) /\ Len(visitCh) \in Nat
          /\ Len(Append(visitCh, v)) = Len(visitCh) + 1
      BY AppendProperties, LenProperties
    <3> QED
      BY <3>1, <3>2, VisitLoggerAssumption
  <2>2. handler' \in [Visits -> HandlerType] /\ main' \in MainType
    BY <1>2 DEF LogVisit, HandlerType, MainType
  <2> QED
    BY <1>2, <2>1, <2>2 DEF LogVisit
<1>3. ASSUME NEW v \in Visits, WriteOrphan(v)
      PROVE  TypeOK'
  BY <1>3 DEF WriteOrphan, OrphanAcquire, OrphanInsert
<1>4. ASSUME NEW w \in Workers, Receive(w)
      PROVE  TypeOK'
  <2>1. /\ visitCh' \in Seq(Visits) /\ Len(visitCh') <= BufSize
        /\ visitCh # <<>> => Head(visitCh) \in Visits
    <3>1. CASE visitCh # <<>>
      <4>1. /\ Head(visitCh) \in Visits /\ Tail(visitCh) \in Seq(Visits)
            /\ Len(Tail(visitCh)) = Len(visitCh) - 1 /\ Len(visitCh) \in Nat
        BY <3>1, HeadTailProperties, LenProperties
      <4>2. visitCh' = Tail(visitCh)
        BY <1>4, <3>1 DEF Receive
      <4> QED
        BY <4>1, <4>2, VisitLoggerAssumption
    <3>2. CASE visitCh = <<>>
      BY <1>4, <3>2 DEF Receive
    <3> QED
      BY <3>1, <3>2
  <2>2. worker' \in [Workers -> WorkerType]
    BY <1>4, <2>1 DEF Receive, WorkerType
  <2> QED
    BY <1>4, <2>1, <2>2 DEF Receive
<1>5. ASSUME NEW w \in Workers, Acquire(w) \/ InsertClick(w) \/ Signal(w)
      PROVE  TypeOK'
  <2>1. worker' \in [Workers -> WorkerType]
    <3>1. /\ [pc |-> "recv", visit |-> NoVisit] \in WorkerType
          /\ \A pc \in {"insert", "exited"} : [worker[w] EXCEPT !.pc = pc] \in WorkerType
      BY DEF WorkerType
    <3>2. \/ worker' = [worker EXCEPT ![w] = [pc |-> "recv", visit |-> NoVisit]]
          \/ worker' = [worker EXCEPT ![w].pc = "insert"]
          \/ worker' = [worker EXCEPT ![w].pc = "exited"]
      BY <1>5 DEF Acquire, InsertClick, Signal, BackToReceive
    <3> QED
      BY <3>1, <3>2
  <2>2. CASE Acquire(w)
    BY <2>1, <2>2 DEF Acquire
  <2>3. CASE InsertClick(w)
    <3>1. worker[w].visit \in Visits
      BY <2>3 DEF InsertClick, WorkerInv, WorkerType
    <3>2. clicks' \subseteq Visits /\ refused' \subseteq Visits
      BY <2>3, <3>1 DEF InsertClick
    <3> QED
      BY <2>1, <2>3, <3>2 DEF InsertClick
  <2>4. CASE Signal(w)
    BY <2>1, <2>4 DEF Signal, MainType
  <2> QED
    BY <1>5, <2>2, <2>3, <2>4
<1>6. CASE GracefulStop \/ Main
  BY <1>6 DEF GracefulStop, Main, ServeReturns, CloseChannel, AwaitDone, ClosePool, Exit,
              MainType
<1>7. CASE UNCHANGED vars
  BY <1>7 DEF vars
<1> QED
  BY <1>1, <1>2, <1>3, <1>4, <1>5, <1>6, <1>7 DEF Next, Handle, Work

-----------------------------------------------------------------------------
(* Workers and main. *)

\* A step of a worker goes on with that worker alone.
LEMMA WorkerStep ==
    ASSUME TypeOK, WorkerInv, [Next]_vars
    PROVE  WorkerInv'
<1> USE DEF TypeOK, mainVars, tables
<1>1. CASE UNCHANGED <<worker, visitCh, closed>>
  BY <1>1 DEF WorkerInv
<1>2. ASSUME NEW v \in Visits, LogVisit(v)
      PROVE  WorkerInv'
  BY <1>2 DEF LogVisit, WorkerInv
<1>3. ASSUME NEW w \in Workers, Work(w)
      PROVE  WorkerInv'
  <2>1. /\ \A x \in Workers \ {w} : worker'[x] = worker[x]
        /\ closed' = closed
        /\ visitCh = <<>> => visitCh' = <<>>
    BY <1>3 DEF Work, Receive, Acquire, InsertClick, Signal, BackToReceive
  <2>2. \/ worker'[w].visit # NoVisit /\ worker'[w].pc \in {"acquire", "insert"}
        \/ worker'[w].visit = NoVisit /\ worker'[w].pc = "recv"
        \/ /\ worker'[w].visit = NoVisit /\ worker'[w].pc \in {"signal", "exited"}
           /\ closed /\ visitCh = <<>>
    <3>1. CASE Receive(w) /\ visitCh # <<>>
      <4>1. Head(visitCh) # NoVisit
        BY <3>1, HeadTailProperties, VisitLoggerAssumption
      <4> QED
        BY <3>1, <4>1 DEF Receive
    <3>2. CASE Receive(w) /\ visitCh = <<>>
      BY <3>2 DEF Receive, WorkerInv, WorkerType
    <3>3. CASE Acquire(w) \/ InsertClick(w)
      BY <3>3 DEF Acquire, InsertClick, BackToReceive, WorkerInv, WorkerType
    <3>4. CASE Signal(w)
      BY <3>4 DEF Signal, WorkerInv, WorkerType
    <3> QED
      BY <1>3, <3>1, <3>2, <3>3, <3>4 DEF Work
  <2> QED
    BY <2>1, <2>2 DEF WorkerInv
<1>4. CASE CloseChannel
  BY <1>4 DEF CloseChannel, WorkerInv
<1> QED
  BY <1>1, <1>2, <1>3, <1>4
  DEF Next, Handle, WriteOrphan, GetURL, Lookup, LogOrphanVisit, OrphanAcquire, OrphanInsert,
      GracefulStop, Main, ServeReturns, AwaitDone, ClosePool, Exit, vars

LEMMA MainStep ==
    ASSUME TypeOK, WorkerInv, MainInv, [Next]_vars
    PROVE  MainInv'
<1> USE DEF TypeOK, mainVars, tables
<1>1. ASSUME NEW v \in Visits, GetURL(v) \/ Lookup(v) \/ LogOrphanVisit(v)
      PROVE  MainInv'
  <2>1. /\ UNCHANGED <<main, serveErr, closed, poolOpen, worker>>
        /\ serveErr \/ main \in {"serving", "draining"}
    BY <1>1 DEF GetURL, Lookup, LogOrphanVisit, MainInv, Busy
  <2> QED
    BY <2>1 DEF MainInv, CloseReturned
<1>2. ASSUME NEW v \in Visits, LogVisit(v)
      PROVE  MainInv'
  <2>1. /\ UNCHANGED <<serveErr, closed, poolOpen, worker>>
        /\ serveErr \/ main \in {"serving", "draining"}
        /\ main' = main \/ (main' = "panicked" /\ closed /\ serveErr)
    <3>1. Busy(v) /\ Running
      BY <1>2 DEF LogVisit, Busy
    <3>2. serveErr \/ main \in {"serving", "draining"}
      BY <3>1 DEF MainInv
    <3>3. UNCHANGED <<serveErr, closed, poolOpen, worker>>
      BY <1>2 DEF LogVisit
    <3>4. main' = main \/ (main' = "panicked" /\ closed)
      BY <1>2 DEF LogVisit
    <3> QED
      BY <3>2, <3>3, <3>4 DEF MainInv
  <2>2. CASE main' = main
    BY <2>1, <2>2 DEF MainInv, CloseReturned
  <2>3. CASE main' = "panicked" /\ serveErr
    BY <2>1, <2>3 DEF MainInv, CloseReturned
  <2> QED
    BY <2>1, <2>2, <2>3
<1>3. ASSUME NEW v \in Visits, WriteOrphan(v)
      PROVE  MainInv'
  BY <1>3 DEF WriteOrphan, OrphanAcquire, OrphanInsert, MainInv, CloseReturned, Busy
<1>4. ASSUME NEW w \in Workers, Work(w)
      PROVE  MainInv'
  <2>1. UNCHANGED <<serveErr, closed, poolOpen, handler>>
    BY <1>4 DEF Work, Receive, Acquire, InsertClick, Signal
  <2>2. \A x \in Workers : worker[x].pc = "exited" => worker'[x].pc = "exited"
    BY <1>4 DEF Work, Receive, Acquire, InsertClick, Signal, BackToReceive
  <2>3. CASE main' = main
    BY <2>1, <2>2, <2>3 DEF MainInv, CloseReturned, Busy
  <2>4. CASE main' # main
    <3>1. main = "waiting" /\ main' = "closePool" /\ worker'[w].pc = "exited"
      BY <1>4, <2>4 DEF Work, Receive, Acquire, InsertClick, Signal, WorkerType
    <3>2. poolOpen
      BY <1>4, <3>1 DEF MainInv
    <3> QED
      BY <2>1, <3>1, <3>2 DEF MainInv, CloseReturned, Busy
  <2> QED
    BY <2>3, <2>4
<1>5. CASE GracefulStop \/ Main
  <2>1. handler' = handler /\ worker' = worker
    BY <1>5 DEF GracefulStop, Main, ServeReturns, CloseChannel, AwaitDone, ClosePool, Exit
  <2>2. CASE GracefulStop
    BY <2>1, <2>2 DEF GracefulStop, MainInv, CloseReturned
  <2>3. CASE ServeReturns
    BY <2>1, <2>3 DEF ServeReturns, MainInv, CloseReturned, Busy
  <2>4. CASE CloseChannel \/ AwaitDone
    BY <2>1, <2>4 DEF CloseChannel, AwaitDone, MainInv, CloseReturned, Busy
  <2>5. CASE ClosePool \/ Exit
    BY <2>1, <2>5 DEF ClosePool, Exit, MainInv, CloseReturned, Busy
  <2> QED
    BY <1>5, <2>2, <2>3, <2>4, <2>5 DEF Main
<1>6. CASE UNCHANGED vars
  BY <1>6 DEF vars, MainInv, CloseReturned, Busy
<1> QED
  BY <1>1, <1>2, <1>3, <1>4, <1>5, <1>6 DEF Next, Handle

-----------------------------------------------------------------------------
(* What a step does to the visits: it leaves them where they are, accepts or drops one,  *)
(* gives one to a worker, takes one out of a worker's hand, or closes the pool.           *)

Dropped == {v \in Visits : handler[v] = "dropped"}

SameHands == \A w \in Workers : worker'[w].visit = worker[w].visit
SameHandlers == Logged' = Logged /\ Dropped' = Dropped

Quiet == /\ SameHandlers /\ SameHands
         /\ UNCHANGED <<visitCh, clicks, poolOpen>>
         /\ refused \subseteq refused'

Accepts(v) == /\ handler[v] = "log" /\ ~closed /\ Len(visitCh) < BufSize
              /\ visitCh' = Append(visitCh, v)
              /\ Logged' = Logged \cup {v} /\ Dropped' = Dropped
              /\ SameHands
              /\ UNCHANGED <<tables, poolOpen>>

Drops(v) == /\ handler[v] = "log" /\ Len(visitCh) >= BufSize
            /\ Logged' = Logged /\ Dropped' = Dropped \cup {v}
            /\ SameHands
            /\ UNCHANGED <<visitCh, tables, poolOpen>>

Takes(w) == /\ visitCh # <<>> /\ visitCh' = Tail(visitCh)
            /\ worker[w].visit = NoVisit /\ worker'[w].visit = Head(visitCh)
            /\ \A x \in Workers \ {w} : worker'[x].visit = worker[x].visit
            /\ SameHandlers
            /\ UNCHANGED <<tables, poolOpen>>

Releases(w) == /\ worker[w].visit \in Visits /\ worker'[w].visit = NoVisit
               /\ \A x \in Workers \ {w} : worker'[x].visit = worker[x].visit
               /\ SameHandlers
               /\ UNCHANGED <<visitCh, poolOpen>>
               /\ \/ clicks' = clicks \cup {worker[w].visit} /\ refused' = refused
                  \/ /\ "db" \in Faults
                     /\ clicks' = clicks /\ refused' = refused \cup {worker[w].visit}
                  \/ ~poolOpen /\ clicks' = clicks /\ refused' = refused

Closes == /\ poolOpen /\ ~poolOpen'
          /\ CloseReturned
          /\ SameHandlers /\ SameHands
          /\ UNCHANGED <<visitCh, tables>>

LEMMA StepKinds ==
    ASSUME TypeOK, WorkerInv, MainInv, [Next]_vars
    PROVE  \/ Quiet \/ Closes
           \/ \E v \in Visits : Accepts(v) \/ Drops(v)
           \/ \E w \in Workers : Takes(w) \/ Releases(w)
<1> USE DEF TypeOK, mainVars, tables, SameHands, SameHandlers
<1>1. ASSUME NEW v \in Visits, GetURL(v) \/ Lookup(v) \/ LogOrphanVisit(v)
      PROVE  Quiet
  <2>1. \A u \in Visits \ {v} : handler'[u] = handler[u]
    BY <1>1 DEF GetURL, Lookup, LogOrphanVisit
  <2>2. handler[v] \notin {"logged", "dropped"} /\ handler'[v] \notin {"logged", "dropped"}
    BY <1>1 DEF GetURL, Lookup, LogOrphanVisit
  <2>3. UNCHANGED <<visitCh, clicks, poolOpen, refused, worker>>
    BY <1>1 DEF GetURL, Lookup, LogOrphanVisit
  <2>4. Logged' = Logged /\ Dropped' = Dropped
    BY <2>1, <2>2 DEF Logged, Dropped
  <2> QED
    BY <2>3, <2>4 DEF Quiet
<1>2. ASSUME NEW v \in Visits, LogVisit(v)
      PROVE  Quiet \/ Accepts(v) \/ Drops(v)
  <2>1. UNCHANGED <<worker, tables, poolOpen>> /\ handler[v] = "log"
    BY <1>2 DEF LogVisit
  <2>2. CASE closed
    BY <1>2, <2>1, <2>2 DEF LogVisit, Quiet, Logged, Dropped
  <2>3. CASE ~closed /\ Len(visitCh) < BufSize
    <3>1. visitCh' = Append(visitCh, v) /\ handler' = [handler EXCEPT ![v] = "logged"]
      BY <1>2, <2>3, LenProperties, VisitLoggerAssumption DEF LogVisit
    <3>2. Logged' = Logged \cup {v} /\ Dropped' = Dropped
      BY <2>1, <3>1 DEF Logged, Dropped
    <3> QED
      BY <2>1, <2>3, <3>1, <3>2 DEF Accepts
  <2>4. CASE ~closed /\ Len(visitCh) >= BufSize
    <3>1. visitCh' = visitCh /\ handler' = [handler EXCEPT ![v] = "dropped"]
      BY <1>2, <2>4, LenProperties, VisitLoggerAssumption DEF LogVisit
    <3>2. Logged' = Logged /\ Dropped' = Dropped \cup {v}
      BY <2>1, <3>1 DEF Logged, Dropped
    <3> QED
      BY <2>1, <2>4, <3>1, <3>2 DEF Drops
  <2> QED
    BY <1>2, <2>2, <2>3, <2>4, LenProperties, VisitLoggerAssumption
<1>3. ASSUME NEW v \in Visits, WriteOrphan(v)
      PROVE  Quiet
  BY <1>3 DEF WriteOrphan, OrphanAcquire, OrphanInsert, Quiet, Logged, Dropped
<1>4. ASSUME NEW w \in Workers, Receive(w)
      PROVE  Quiet \/ Takes(w)
  <2>1. SameHandlers /\ UNCHANGED <<tables, poolOpen>>
    BY <1>4 DEF Receive, Logged, Dropped
  <2>2. CASE visitCh # <<>>
    BY <1>4, <2>1, <2>2 DEF Receive, Takes, WorkerInv
  <2>3. CASE visitCh = <<>>
    <3>1. SameHands /\ visitCh' = visitCh
      BY <1>4, <2>3 DEF Receive, WorkerType
    <3> QED
      BY <2>1, <3>1 DEF Quiet
  <2> QED
    BY <2>2, <2>3
<1>5. ASSUME NEW w \in Workers, Acquire(w) \/ InsertClick(w) \/ Signal(w)
      PROVE  Quiet \/ Releases(w)
  <2>1. SameHandlers /\ UNCHANGED <<visitCh, poolOpen>>
    BY <1>5 DEF Acquire, InsertClick, Signal, Logged, Dropped
  <2>2. CASE BackToReceive(w) /\ (Acquire(w) \/ InsertClick(w))
    <3>1. worker[w].visit \in Visits
      BY <2>2 DEF Acquire, InsertClick, WorkerInv, WorkerType
    <3>2. worker'[w].visit = NoVisit /\ \A x \in Workers \ {w} : worker'[x] = worker[x]
      BY <2>2 DEF BackToReceive
    <3>3. CASE Acquire(w)
      <4>1. ~poolOpen
        BY <2>2, <3>1, <3>2, <3>3, VisitLoggerAssumption DEF Acquire, WorkerType
      <4> QED
        BY <2>1, <3>1, <3>2, <3>3, <4>1 DEF Acquire, Releases
    <3>4. CASE InsertClick(w)
      BY <2>1, <3>1, <3>2, <3>4 DEF InsertClick, Releases
    <3> QED
      BY <2>2, <3>3, <3>4
  <2>3. CASE ~BackToReceive(w) \/ Signal(w)
    <3>1. UNCHANGED tables
      BY <1>5, <2>3 DEF Acquire, InsertClick, Signal
    <3>2. \/ worker' = [worker EXCEPT ![w].pc = "insert"]
          \/ worker' = [worker EXCEPT ![w].pc = "exited"]
      BY <1>5, <2>3 DEF Acquire, InsertClick, Signal
    <3>3. SameHands
      BY <3>2 DEF WorkerType
    <3> QED
      BY <2>1, <3>1, <3>3 DEF Quiet
  <2> QED
    BY <1>5, <2>2, <2>3
<1>6. ASSUME GracefulStop \/ Main
      PROVE  Quiet \/ Closes
  <2>1. UNCHANGED <<handler, worker, visitCh, tables>>
    BY <1>6 DEF GracefulStop, Main, ServeReturns, CloseChannel, AwaitDone, ClosePool, Exit
  <2>2. CASE ClosePool
    BY <2>1, <2>2 DEF ClosePool, Closes, CloseReturned, MainInv, Logged, Dropped
  <2>3. CASE ~ClosePool
    BY <1>6, <2>1, <2>3
    DEF GracefulStop, Main, ServeReturns, CloseChannel, AwaitDone, Exit, Quiet, Logged, Dropped
  <2> QED
    BY <2>2, <2>3
<1>7. ASSUME UNCHANGED vars
      PROVE  Quiet
  BY <1>7 DEF vars, Quiet, Logged, Dropped
<1> QED
  BY <1>1, <1>2, <1>3, <1>4, <1>5, <1>6, <1>7 DEF Next, Handle, Work

-----------------------------------------------------------------------------
(* Where a visit is. *)

\* What a step does to the visits in the workers' hands, and to the workers with one.
LEMMA HandsStep ==
    ASSUME TypeOK, PlaceInv
    PROVE  /\ SameHands => Held' = Held /\ Holders' = Holders
           /\ \A w \in Workers : Takes(w) =>
                  /\ Head(visitCh) \in Visits
                  /\ Held' = Held \cup {Head(visitCh)} /\ Holders' = Holders \cup {w}
           /\ \A w \in Workers : Releases(w) =>
                  /\ worker[w].visit \in Held
                  /\ Held' = Held \ {worker[w].visit} /\ Holders' = Holders \ {w}
<1>1. SameHands => Held' = Held /\ Holders' = Holders
  BY DEF SameHands, Held, Holders
<1>2. ASSUME NEW w \in Workers, Takes(w)
      PROVE  /\ Head(visitCh) \in Visits
             /\ Held' = Held \cup {Head(visitCh)} /\ Holders' = Holders \cup {w}
  <2>1. Head(visitCh) \in Visits /\ Head(visitCh) # NoVisit
    BY <1>2, HeadTailProperties, VisitLoggerAssumption DEF Takes, TypeOK
  <2>2. /\ worker[w].visit = NoVisit /\ worker'[w].visit = Head(visitCh)
        /\ \A x \in Workers \ {w} : worker'[x].visit = worker[x].visit
    BY <1>2 DEF Takes
  <2> HIDE <1>2
  <2>3. Holders' = Holders \cup {w}
    BY <2>1, <2>2 DEF Holders
  <2>4. Held' = Held \cup {Head(visitCh)}
    BY <2>1, <2>2 DEF Held
  <2> QED
    BY <2>1, <2>3, <2>4
<1>3. ASSUME NEW w \in Workers, Releases(w)
      PROVE  /\ worker[w].visit \in Held
             /\ Held' = Held \ {worker[w].visit} /\ Holders' = Holders \ {w}
  <2>1. /\ worker[w].visit # NoVisit /\ worker'[w].visit = NoVisit
        /\ \A x \in Workers \ {w} : worker'[x].visit = worker[x].visit
    BY <1>3, VisitLoggerAssumption DEF Releases
  <2>2. \A x \in Workers \ {w} : worker[x].visit # worker[w].visit
    BY <2>1 DEF PlaceInv
  <2> QED
    BY <2>1, <2>2 DEF Held, Holders
<1> QED
  BY <1>1, <1>2, <1>3

LEMMA PlaceStep ==
    ASSUME TypeOK, WorkerInv, MainInv, PlaceInv, [Next]_vars
    PROVE  PlaceInv'
<1>1. visitCh \in Seq(Visits)
  BY DEF TypeOK
<1>2. CASE Quiet \/ Closes
  <2>1. SameHandlers /\ SameHands /\ UNCHANGED <<visitCh, clicks>>
    BY <1>2 DEF Quiet, Closes, tables
  <2>2. Held' = Held
    BY <2>1, HandsStep
  <2> QED
    BY <2>1, <2>2 DEF PlaceInv, SameHandlers, SameHands, Queued
<1>3. ASSUME NEW v \in Visits, Accepts(v)
      PROVE  PlaceInv'
  <2>1. v \notin Logged
    BY <1>3 DEF Accepts, Logged
  <2>2. v \notin Queued /\ v \notin Held /\ v \notin clicks
    BY <2>1 DEF PlaceInv
  <2>3. Held' = Held /\ Queued' = Queued \cup {v} /\ Logged' = Logged \cup {v} /\ clicks' = clicks
    BY <1>1, <1>3, HandsStep, QueueRange DEF Accepts, Queued, tables
  <2>4. \A i, j \in 1..Len(visitCh') : visitCh'[i] = visitCh'[j] => i = j
    BY <1>1, <1>3, <2>2, QueueDistinct DEF PlaceInv, Accepts, Queued
  <2>5. \A w, x \in Workers : worker'[w].visit = worker'[x].visit /\ worker'[w].visit # NoVisit
                                 => w = x
    BY <1>3 DEF PlaceInv, Accepts, SameHands
  <2> QED
    BY <2>2, <2>3, <2>4, <2>5 DEF PlaceInv
<1>4. ASSUME NEW v \in Visits, Drops(v)
      PROVE  PlaceInv'
  <2>1. Held' = Held /\ Queued' = Queued /\ Logged' = Logged /\ clicks' = clicks
    BY <1>4, HandsStep DEF Drops, Queued, tables
  <2> QED
    BY <1>4, <2>1 DEF PlaceInv, Drops, SameHands
<1>5. ASSUME NEW w \in Workers, Takes(w)
      PROVE  PlaceInv'
  <2> DEFINE v == Head(visitCh)
  <2>1. /\ Held' = Held \cup {v} /\ Logged' = Logged /\ clicks' = clicks
        /\ Queued = {v} \cup Queued' /\ v \notin Queued'
    BY <1>1, <1>5, HandsStep, QueueRange, QueueDistinct
    DEF Takes, SameHandlers, Queued, PlaceInv, tables
  <2>2. \A i, j \in 1..Len(visitCh') : visitCh'[i] = visitCh'[j] => i = j
    BY <1>1, <1>5, QueueDistinct DEF PlaceInv, Takes
  <2>3. \A x \in Workers : worker[x].visit # v
    BY <1>1, <1>5, <2>1, HeadTailProperties, VisitLoggerAssumption DEF PlaceInv, Takes, Held
  <2>4. \A x, y \in Workers : worker'[x].visit = worker'[y].visit /\ worker'[x].visit # NoVisit
                                 => x = y
    BY <1>5, <2>3 DEF PlaceInv, Takes
  <2> QED
    BY <2>1, <2>2, <2>4 DEF PlaceInv
<1>6. ASSUME NEW w \in Workers, Releases(w)
      PROVE  PlaceInv'
  <2> DEFINE v == worker[w].visit
  <2>1. /\ Held' = Held \ {v} /\ Logged' = Logged /\ Queued' = Queued /\ v \in Held
        /\ clicks' = clicks \/ clicks' = clicks \cup {v}
    BY <1>6, HandsStep DEF Releases, SameHandlers, Queued
  <2>2. \A x, y \in Workers : worker'[x].visit = worker'[y].visit /\ worker'[x].visit # NoVisit
                                 => x = y
    BY <1>6 DEF PlaceInv, Releases
  <2> QED
    BY <1>6, <2>1, <2>2 DEF PlaceInv, Releases
<1> QED
  BY <1>2, <1>3, <1>4, <1>5, <1>6, StepKinds

-----------------------------------------------------------------------------
(* What a shutdown loses. *)

LEMMA LossStep ==
    ASSUME TypeOK, WorkerInv, MainInv, PlaceInv, LossInv, [Next]_vars
    PROVE  LossInv'
<1>1. visitCh \in Seq(Visits)
  BY DEF TypeOK
<1>2. ~poolOpen => closed /\ visitCh = <<>>
  BY DEF MainInv, WorkerInv
<1>3. /\ IsFiniteSet(Gone) /\ IsFiniteSet(Holders) /\ IsFiniteSet(Workers)
      /\ Cardinality(Gone) \in Nat /\ Cardinality(Holders) \in Nat /\ Cardinality(Workers) \in Nat
  <2>1. Gone \subseteq Visits /\ Holders \subseteq Workers
    BY DEF Gone, Logged, Holders
  <2> QED
    BY <2>1, FS_Subset, FS_CardinalityType, VisitLoggerAssumption
<1>4. CASE Quiet
  <2>1. /\ poolOpen' = poolOpen /\ Holders' = Holders /\ Held' = Held
        /\ Queued' = Queued /\ Logged' = Logged /\ clicks' = clicks /\ refused \subseteq refused'
    BY <1>4, HandsStep DEF Quiet, SameHandlers, Queued
  <2>2. Gone' \subseteq Gone
    BY <2>1 DEF Gone
  <2>3. Cardinality(Gone') <= Cardinality(Gone) /\ Cardinality(Gone') \in Nat
    BY <1>3, <2>2, FS_Subset, FS_CardinalityType
  <2> QED
    BY <1>3, <2>1, <2>2, <2>3 DEF LossInv
<1>5. CASE Closes
  <2>1. /\ poolOpen /\ ~poolOpen' /\ Holders' = Holders /\ Held' = Held
        /\ Queued' = Queued /\ Logged' = Logged /\ clicks' = clicks /\ refused' = refused
    BY <1>5, HandsStep DEF Closes, SameHandlers, Queued, tables
  <2>2. Gone' = {} /\ Cardinality(Gone') = 0
    BY <2>1, FS_EmptySet DEF Gone, LossInv
  <2>3. PICK x \in Workers : worker[x].pc = "exited"
    BY <1>5 DEF Closes, MainInv
  <2>4. Holders \subseteq Workers /\ x \notin Holders
    BY <2>3 DEF WorkerInv, Holders
  <2>5. Cardinality(Holders) < Cardinality(Workers)
    BY <1>3, <2>3, <2>4, FS_Subset
  <2> QED
    BY <1>3, <2>1, <2>2, <2>5 DEF LossInv
<1>6. ASSUME NEW v \in Visits, Accepts(v)
      PROVE  LossInv'
  <2>1. poolOpen /\ poolOpen'
    BY <1>2, <1>6 DEF Accepts
  <2>2. Held' = Held /\ Queued' = Queued \cup {v} /\ Logged' = Logged \cup {v}
    BY <1>1, <1>6, HandsStep, QueueRange DEF Accepts, Queued
  <2>3. Gone' = {}
    BY <1>6, <2>1, <2>2 DEF Gone, LossInv, Accepts, tables
  <2> QED
    BY <2>1, <2>3 DEF LossInv
<1>7. ASSUME NEW v \in Visits, Drops(v)
      PROVE  LossInv'
  <2>1. Gone' = Gone /\ Holders' = Holders /\ poolOpen' = poolOpen
    BY <1>7, HandsStep DEF Drops, Queued, Gone, tables
  <2> QED
    BY <2>1 DEF LossInv
<1>8. ASSUME NEW w \in Workers, Takes(w)
      PROVE  LossInv'
  <2>1. poolOpen /\ poolOpen'
    BY <1>2, <1>8 DEF Takes
  <2>2. /\ Held' = Held \cup {Head(visitCh)} /\ Queued = {Head(visitCh)} \cup Queued'
        /\ Logged' = Logged /\ clicks' = clicks /\ refused' = refused
    BY <1>1, <1>8, HandsStep, QueueRange DEF Takes, SameHandlers, Queued, tables
  <2>3. Gone' = {}
    BY <2>1, <2>2 DEF Gone, LossInv
  <2> QED
    BY <2>1, <2>3 DEF LossInv
<1>9. ASSUME NEW w \in Workers, Releases(w)
      PROVE  LossInv'
  <2> DEFINE v == worker[w].visit
  <2>1. /\ Held' = Held \ {v} /\ Holders' = Holders \ {w} /\ w \in Holders
        /\ Queued' = Queued /\ Logged' = Logged /\ poolOpen' = poolOpen
    BY <1>9, HandsStep, VisitLoggerAssumption DEF Releases, SameHandlers, Queued, Holders
  <2>2. CASE v \in clicks' \/ v \in refused'
    <3>1. Gone' \subseteq Gone
      BY <1>9, <2>1, <2>2 DEF Releases, Gone
    <3>2. /\ Cardinality(Gone') <= Cardinality(Gone) /\ Cardinality(Gone') \in Nat
          /\ Cardinality(Holders \ {w}) = Cardinality(Holders) - 1
      BY <1>3, <2>1, <3>1, FS_Subset, FS_CardinalityType, FS_RemoveElement
    <3> QED
      BY <1>3, <2>1, <3>1, <3>2 DEF LossInv
  <2>3. CASE ~(v \in clicks' \/ v \in refused')
    <3>1. ~poolOpen /\ clicks' = clicks /\ refused' = refused
      BY <1>9, <2>3 DEF Releases
    <3>2. Gone' \subseteq Gone \cup {v}
      BY <2>1, <3>1 DEF Gone
    <3>3. /\ IsFiniteSet(Gone \cup {v})
          /\ Cardinality(Gone \cup {v}) \in Nat
          /\ Cardinality(Gone \cup {v}) <= Cardinality(Gone) + 1
      BY <1>3, UnionBound, FS_Singleton
    <3>4. Cardinality(Gone') <= Cardinality(Gone) + 1 /\ Cardinality(Gone') \in Nat
      BY <1>3, <3>2, <3>3, FS_Subset, FS_CardinalityType
    <3>5. Cardinality(Holders \ {w}) = Cardinality(Holders) - 1
      BY <1>3, <2>1, FS_RemoveElement
    <3> QED
      BY <1>3, <2>1, <3>1, <3>4, <3>5 DEF LossInv
  <2> QED
    BY <2>2, <2>3
<1> QED
  BY <1>4, <1>5, <1>6, <1>7, <1>8, <1>9, StepKinds

-----------------------------------------------------------------------------
(* The safety properties. *)

LEMMA LoggerInit == Init => LoggerInv
<1> SUFFICES ASSUME Init
             PROVE  LoggerInv
  OBVIOUS
<1> USE DEF Init
<1>1. TypeOK
  <2>1. visitCh \in Seq(Visits) /\ Len(visitCh) <= BufSize
    BY VisitLoggerAssumption, EmptySeq
  <2>2. [pc |-> "recv", visit |-> NoVisit] \in WorkerType
    BY DEF WorkerType
  <2>3. worker \in [Workers -> WorkerType]
    BY <2>2
  <2> QED
    BY <2>1, <2>3 DEF TypeOK, MainType, HandlerType
<1>2. Queued = {} /\ Held = {} /\ Logged = {} /\ Len(visitCh) = 0
  BY EmptySeq DEF Queued, Range, Held, Logged
<1>3. WorkerInv /\ MainInv /\ PlaceInv
  BY <1>2 DEF WorkerInv, MainInv, PlaceInv, CloseReturned
<1>4. LossInv
  BY <1>2 DEF LossInv, Gone
<1> QED
  BY <1>1, <1>3, <1>4 DEF LoggerInv

LEMMA LoggerInvariant == Spec => []LoggerInv
<1>1. LoggerInv /\ [Next]_vars => LoggerInv'
  BY TypeStep, WorkerStep, MainStep, PlaceStep, LossStep DEF LoggerInv
<1> QED
  BY <1>1, LoggerInit, PTL DEF Spec

\* Every variable keeps its type, and no send makes the buffer longer than its capacity.
THEOREM TypeCorrect == Spec => []TypeOK
<1>1. LoggerInv => TypeOK
  BY DEF LoggerInv
<1> QED
  BY <1>1, LoggerInvariant, PTL

\* The send on the closed channel, which panics, needs an error of Serve: after a signal
\* main closes the logger only once the last handler has returned.
THEOREM SignalNeverPanics == Spec => []PanicNeedsServeError
<1>1. LoggerInv => PanicNeedsServeError
  BY DEF LoggerInv, MainInv, PanicNeedsServeError
<1> QED
  BY <1>1, LoggerInvariant, PTL

\* When Close returns the buffer is empty and a worker has nothing in its hand.
THEOREM CloseDrainsBuffer == Spec => []CloseDrains
<1>1. LoggerInv => CloseDrains
  BY DEF LoggerInv, MainInv, WorkerInv, CloseDrains
<1> QED
  BY <1>1, LoggerInvariant, PTL

\* A shutdown that ends has lost less accepted visits than there are workers, besides those
\* the database refused: however many visits were in the buffer when it began.
THEOREM LossIsBounded == Spec => []ShutdownLossBounded
<1>1. ASSUME LoggerInv, main = "exited"
      PROVE  Cardinality(Lost) < Cardinality(Workers)
  <2> USE DEF LoggerInv
  <2>1. ~poolOpen
    BY <1>1 DEF MainInv
  <2>2. visitCh = <<>>
    BY <1>1, <2>1 DEF MainInv, WorkerInv
  <2>3. Queued = {}
    BY <2>2, EmptySeq DEF Queued, Range
  <2>4. Lost \subseteq Gone \cup Held
    BY <2>3 DEF Lost, Gone, Logged
  <2>5. IsFiniteSet(Gone) /\ IsFiniteSet(Held) /\ Cardinality(Held) <= Cardinality(Holders)
    <3>1. Gone \subseteq Visits
      BY DEF Gone, Logged
    <3> QED
      BY <1>1, <3>1, HeldCardinality, FS_Subset, VisitLoggerAssumption
  <2>6. /\ IsFiniteSet(Gone \cup Held)
        /\ Cardinality(Gone \cup Held) <= Cardinality(Gone) + Cardinality(Held)
    BY <2>5, UnionBound
  <2>7. Cardinality(Lost) <= Cardinality(Gone \cup Held)
    BY <2>4, <2>6, FS_Subset
  <2>8. Cardinality(Gone) + Cardinality(Holders) < Cardinality(Workers)
    BY <1>1, <2>1 DEF LossInv
  <2>9. /\ Cardinality(Lost) \in Nat /\ Cardinality(Gone \cup Held) \in Nat
        /\ Cardinality(Gone) \in Nat /\ Cardinality(Held) \in Nat
        /\ Cardinality(Holders) \in Nat /\ Cardinality(Workers) \in Nat
    BY <1>1, <2>4, <2>5, <2>6, HeldCardinality, FS_Subset, FS_CardinalityType,
       VisitLoggerAssumption
  <2> QED
    BY <2>5, <2>6, <2>7, <2>8, <2>9
<1>2. LoggerInv => ShutdownLossBounded
  BY <1>1 DEF ShutdownLossBounded
<1> QED
  BY <1>2, LoggerInvariant, PTL

-----------------------------------------------------------------------------
(* The refinement of VisitPromise. *)

Pending == Queued \cup Held

\* The promise's status of each visit, by the sets it is in.
StatusOf(v) == IF v \in Dropped THEN "dropped"
               ELSE IF v \notin Logged THEN "new"
               ELSE IF v \in Pending THEN "pending"
               ELSE IF v \in clicks THEN "written" ELSE "lost"

Abstract == [v \in Visits |-> Status(v)]

LEMMA StatusIs == Abstract = [v \in Visits |-> StatusOf(v)]
<1>1. ASSUME NEW v \in Visits
      PROVE  Status(v) = StatusOf(v)
  <2>1. (v \in Dropped <=> handler[v] = "dropped") /\ (v \in Logged <=> handler[v] = "logged")
    BY DEF Dropped, Logged
  <2>2. v \in Pending <=> v \in Range(visitCh) \cup Held
    BY DEF Pending, Queued
  <2>3. CASE handler[v] = "dropped"
    BY <2>1, <2>3 DEF Status, StatusOf
  <2>4. CASE handler[v] # "dropped" /\ handler[v] # "logged"
    BY <2>1, <2>4 DEF Status, StatusOf
  <2>5. CASE handler[v] = "logged"
    BY <2>1, <2>2, <2>5 DEF Status, StatusOf
  <2> QED
    BY <2>3, <2>4, <2>5
<1> QED
  BY <1>1 DEF Abstract

LEMMA StatusIsNext == (Abstract = [v \in Visits |-> StatusOf(v)])'
  BY StatusIs, PTL

\* A step that changes the status of one visit alone.
LEMMA OneStatus ==
    ASSUME NEW u \in Visits, NEW s,
           StatusOf(u)' = s,
           \A x \in Visits \ {u} : StatusOf(x)' = StatusOf(x)
    PROVE  Abstract' = [Abstract EXCEPT ![u] = s]
  BY StatusIs, StatusIsNext

\* The pending visits of the promise are those in the buffer and in the workers' hands.
LEMMA PendingCount ==
    ASSUME TypeOK, PlaceInv
    PROVE  /\ {v \in Visits : Abstract[v] = "pending"} = Pending
           /\ IsFiniteSet(Pending)
           /\ Len(visitCh) <= Cardinality(Pending)
           /\ Cardinality(Pending) <= Len(visitCh) + Cardinality(Workers)
<1>1. \A v \in Visits : Abstract[v] = StatusOf(v)
  BY StatusIs
<1>2. Pending \subseteq Logged /\ Logged \cap Dropped = {} /\ Logged \subseteq Visits
  BY DEF PlaceInv, Pending, Logged, Dropped
<1>3. {v \in Visits : Abstract[v] = "pending"} = Pending
  BY <1>1, <1>2 DEF StatusOf
<1>4. visitCh \in Seq(Visits) /\ Len(visitCh) \in Nat
  BY LenProperties DEF TypeOK
<1>5. IsFiniteSet(Queued) /\ Cardinality(Queued) = Len(visitCh)
  BY <1>4, QueueCardinality DEF Queued, PlaceInv
<1>6. /\ IsFiniteSet(Held) /\ Cardinality(Held) <= Cardinality(Workers)
      /\ Cardinality(Held) \in Nat /\ Cardinality(Workers) \in Nat
  <2>1. /\ IsFiniteSet(Held) /\ IsFiniteSet(Holders) /\ IsFiniteSet(Workers)
        /\ Cardinality(Held) <= Cardinality(Holders)
        /\ Cardinality(Holders) <= Cardinality(Workers)
    BY HeldCardinality, VisitLoggerAssumption
  <2> QED
    BY <2>1, FS_CardinalityType
<1>7. /\ IsFiniteSet(Pending) /\ Cardinality(Pending) \in Nat
      /\ Cardinality(Pending) <= Cardinality(Queued) + Cardinality(Held)
  BY <1>5, <1>6, UnionBound DEF Pending
<1>8. Cardinality(Queued) <= Cardinality(Pending)
  BY <1>7, FS_Subset DEF Pending
<1> QED
  BY <1>3, <1>4, <1>5, <1>6, <1>7, <1>8

\* VisitPromise counts with an instance of Cardinality of its own.
LEMMA PromiseCardinality == ASSUME NEW S PROVE Promise!Cardinality(S) = Cardinality(S)
  BY DEF Promise!Cardinality, Cardinality

\* Every step of the logger is a step of the promise, or stutters.
LEMMA PromiseStep ==
    ASSUME LoggerInv, [Next]_vars
    PROVE  [Promise!Next]_<<Abstract, poolOpen>>
<1> USE DEF LoggerInv
<1>1. /\ \A v \in Visits : Abstract[v] = StatusOf(v)
      /\ Abstract' = [v \in Visits |-> StatusOf(v)']
  BY StatusIs, StatusIsNext
<1>2. /\ visitCh \in Seq(Visits) /\ Len(visitCh) \in Nat /\ BufSize \in Nat
      /\ IsFiniteSet(Workers) /\ Cardinality(Workers) \in Nat
      /\ IsFiniteSet(Pending) /\ Cardinality(Pending) \in Nat
      /\ \A v \in Pending : v \in Logged \ clicks
      /\ \A v \in Logged : v \notin Dropped
  BY PendingCount, LenProperties, FS_CardinalityType, VisitLoggerAssumption
  DEF TypeOK, PlaceInv, Pending, Logged, Dropped
<1>3. CASE Quiet
  <2>1. /\ UNCHANGED <<Logged, Dropped, clicks, poolOpen>> /\ Held' = Held /\ Queued' = Queued
    BY <1>3, HandsStep DEF Quiet, SameHandlers, Queued
  <2>2. \A v \in Visits : StatusOf(v)' = StatusOf(v)
    BY <2>1 DEF StatusOf, Pending
  <2>3. Abstract' = Abstract
    BY <1>1, <2>2, StatusIs
  <2> QED
    BY <2>1, <2>3
<1>4. CASE Closes
  <2>1. /\ UNCHANGED <<Logged, Dropped, clicks>> /\ Held' = Held /\ Queued' = Queued
        /\ poolOpen /\ poolOpen' = FALSE
    BY <1>4, HandsStep DEF Closes, SameHandlers, Queued, tables, TypeOK
  <2>2. \A v \in Visits : StatusOf(v)' = StatusOf(v)
    BY <2>1 DEF StatusOf, Pending
  <2>3. Abstract' = Abstract
    BY <1>1, <2>2, StatusIs
  <2> QED
    BY <2>1, <2>3 DEF Promise!Next, Promise!Close, Abstract
<1>5. ASSUME NEW v \in Visits, Accepts(v)
      PROVE  Promise!Accept(v)
  <2>1. /\ v \notin Logged /\ v \notin Dropped
        /\ Logged' = Logged \cup {v} /\ Dropped' = Dropped /\ clicks' = clicks
        /\ poolOpen' = poolOpen /\ Pending' = Pending \cup {v}
    BY <1>2, <1>5, HandsStep, QueueRange
    DEF Accepts, Logged, Dropped, Pending, Queued, tables
  <2>2. Abstract[v] = "new" /\ StatusOf(v)' = "pending"
    BY <1>1, <2>1 DEF StatusOf
  <2>3. \A u \in Visits \ {v} : StatusOf(u)' = StatusOf(u)
    BY <2>1 DEF StatusOf
  <2>4. Abstract' = [Abstract EXCEPT ![v] = "pending"]
    BY <2>2, <2>3, OneStatus
  <2>5. Cardinality(Pending) < BufSize + Cardinality(Workers)
    BY <1>2, <1>5, PendingCount DEF Accepts
  <2>6. Promise!Cardinality(Promise!Pending) = Cardinality(Pending)
    BY PendingCount, PromiseCardinality DEF Promise!Pending, Abstract
  <2> QED
    BY <2>1, <2>2, <2>4, <2>5, <2>6, PromiseCardinality DEF Promise!Accept, Promise!Become, Abstract
<1>6. ASSUME NEW v \in Visits, Drops(v)
      PROVE  Promise!Drop(v)
  <2>1. /\ v \notin Logged /\ v \notin Dropped
        /\ Logged' = Logged /\ Dropped' = Dropped \cup {v} /\ clicks' = clicks
        /\ poolOpen' = poolOpen /\ Pending' = Pending
    BY <1>6, HandsStep DEF Drops, Logged, Dropped, Pending, Queued, tables
  <2>2. Abstract[v] = "new" /\ StatusOf(v)' = "dropped"
    BY <1>1, <2>1 DEF StatusOf
  <2>3. \A u \in Visits \ {v} : StatusOf(u)' = StatusOf(u)
    BY <2>1 DEF StatusOf
  <2>4. Abstract' = [Abstract EXCEPT ![v] = "dropped"]
    BY <2>2, <2>3, OneStatus
  <2>5. Cardinality(Pending) >= BufSize
    BY <1>2, <1>6, PendingCount DEF Drops
  <2>6. Promise!Cardinality(Promise!Pending) = Cardinality(Pending)
    BY PendingCount, PromiseCardinality DEF Promise!Pending, Abstract
  <2> QED
    BY <2>1, <2>2, <2>4, <2>5, <2>6 DEF Promise!Drop, Promise!Become, Abstract
<1>7. ASSUME NEW w \in Workers, Takes(w)
      PROVE  UNCHANGED <<Abstract, poolOpen>>
  <2>1. /\ UNCHANGED <<Logged, Dropped, clicks, poolOpen>> /\ Pending' = Pending
    BY <1>2, <1>7, HandsStep, QueueRange
    DEF Takes, SameHandlers, Pending, Queued, tables
  <2>2. \A v \in Visits : StatusOf(v)' = StatusOf(v)
    BY <2>1 DEF StatusOf
  <2>3. Abstract' = Abstract
    BY <1>1, <2>2, StatusIs
  <2> QED
    BY <2>1, <2>3
<1>8. ASSUME NEW w \in Workers, Releases(w)
      PROVE  \E v \in Visits : Promise!Write(v) \/ Promise!Lose(v)
  <2> PICK v \in Visits : v = worker[w].visit
    BY <1>8 DEF Releases
  <2>1. /\ UNCHANGED <<Logged, Dropped, poolOpen>>
        /\ v \in Pending /\ Pending' = Pending \ {v}
    BY <1>8, HandsStep DEF Releases, SameHandlers, Pending, Queued, PlaceInv
  <2>2. /\ v \in Logged /\ v \notin clicks /\ v \notin Dropped
    BY <1>2, <2>1
  <2>3. clicks' \ {v} = clicks \ {v}
    BY <1>8 DEF Releases
  <2>4. Abstract[v] = "pending"
    BY <1>1, <2>1, <2>2 DEF StatusOf
  <2>5. \A u \in Visits \ {v} : StatusOf(u)' = StatusOf(u)
    BY <2>1, <2>3 DEF StatusOf
  <2>6. CASE v \in clicks'
    <3>1. StatusOf(v)' = "written"
      BY <2>1, <2>2, <2>6 DEF StatusOf
    <3>2. Abstract' = [Abstract EXCEPT ![v] = "written"]
      BY <2>1, <2>5, <3>1, OneStatus
    <3>3. Promise!Write(v)
      BY <2>1, <2>4, <3>2 DEF Promise!Write, Promise!Become, Abstract
    <3> QED
      BY <2>1, <3>3
  <2>7. CASE v \notin clicks'
    <3>1. StatusOf(v)' = "lost"
      BY <2>1, <2>2, <2>7 DEF StatusOf
    <3>2. Abstract' = [Abstract EXCEPT ![v] = "lost"]
      BY <2>1, <2>5, <3>1, OneStatus
    <3>3. ~poolOpen \/ "db" \in Faults
      BY <1>8, <2>7 DEF Releases
    <3>4. Promise!Lose(v)
      BY <2>1, <2>4, <3>2, <3>3 DEF Promise!Lose, Promise!Become, Abstract
    <3> QED
      BY <2>1, <3>4
  <2> QED
    BY <2>6, <2>7
<1> QED
  BY <1>3, <1>4, <1>5, <1>6, <1>7, <1>8, StepKinds DEF Promise!Next

\* The logger implements VisitPromise: it drops a visit only when as many as the buffer
\* holds are pending, never writes one twice, and loses an accepted one only to a failing
\* database or after the pool was closed.
THEOREM LoggerKeepsPromise == Spec => KeepsPromise
<1>1. Init => Promise!Init
  <2> SUFFICES ASSUME Init
               PROVE  Promise!Init
    OBVIOUS
  <2>1. Dropped = {} /\ Logged = {}
    BY DEF Init, Dropped, Logged
  <2>2. Abstract = [v \in Visits |-> "new"]
    BY <2>1, StatusIs DEF StatusOf
  <2> QED
    BY <2>2 DEF Promise!Init, Abstract, Init
<1>2. LoggerInv /\ [Next]_vars => [Promise!Next]_<<[v \in Visits |-> Status(v)], poolOpen>>
  BY PromiseStep DEF Abstract
<1> QED
  BY <1>1, <1>2, LoggerInvariant, PTL DEF Spec, KeepsPromise, Promise!Spec
=============================================================================
