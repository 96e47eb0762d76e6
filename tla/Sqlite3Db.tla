----------------------------- MODULE Sqlite3Db ------------------------------
(***************************************************************************)
(* Queries and transactions over the pool of SQLite connections (rukh/db). *)
(* A coroutine runs single queries (Sqlite3Db::executeQuery) and calls on  *)
(* one ScopedTransaction; the SQL runs as jobs on the thread pool.  A      *)
(* transaction that is not ended gives its connection back through         *)
(* abandonFn, a job that nobody awaits.                                    *)
(*                                                                         *)
(* The connection pool is module AsyncPool, the thread pool what module    *)
(* Future promises of it, with the queue as full as it likes to be.  Of    *)
(* SQL only BEGIN, COMMIT and ROLLBACK matter, and of a connection whether *)
(* a transaction is open on it.  Definitions marked "seeded fault" are not *)
(* part of the model.                                                      *)
(***************************************************************************)
EXTENDS Integers, Sequences, FiniteSets, Sqlite3DbLimits

VARIABLES
  available, waiters, slot, handing,  \* connectionPool_, see AsyncPool
  wants,       \* what a coroutine in acquire() wants the connection for
  query,       \* the connection of an executeQuery() outside a transaction
  conn, ended, \* conn_ and ended_ of the coroutine's transaction
  op, phase,   \* the SQL it awaits, and how far that is
  abandonJob, abandonPhase,  \* its abandonFn on the thread pool
  inTxn        \* SQLite has a transaction open on the connection

poolVars == <<available, waiters, slot, handing>>
opVars == <<op, phase>>
abandonVars == <<abandonJob, abandonPhase>>
vars == <<poolVars, wants, query, conn, ended, opVars, abandonVars, inTxn>>

JobOf(c) == <<"abandon", c>>
Users == Coroutines \cup {JobOf(c) : c \in Coroutines}

Holding == [u \in Users |->
  IF u \in Coroutines THEN {query[u], conn[u]} \ {NoConn}
  ELSE {abandonJob[c] : c \in {c \in Coroutines : u = JobOf(c)}} \ {NoConn}]

Pool == INSTANCE AsyncPool WITH
  Items <- Connections, Clients <- Users, NoItem <- NoConn, MaxHeld <- 2, holding <- Holding

Init ==
  /\ wants = [c \in Coroutines |-> "none"]
  /\ query = [c \in Coroutines |-> NoConn]
  /\ conn = [c \in Coroutines |-> NoConn]
  /\ ended = [c \in Coroutines |-> FALSE]
  /\ op = [c \in Coroutines |-> "none"]
  /\ phase = [c \in Coroutines |-> "none"]
  /\ abandonJob = [c \in Coroutines |-> NoConn]
  /\ abandonPhase = [c \in Coroutines |-> "none"]
  /\ inTxn = [k \in Connections |-> FALSE]
  /\ Pool!Init

\* The coroutine runs application code: it is in no call of the database.
Ready(c) == ~Pool!Busy(c) /\ op[c] = "none" /\ query[c] = NoConn
HasTransaction(c) == conn[c] # NoConn

-----------------------------------------------------------------------------
(* Sqlite3Transaction::abandon(), called by both destructors *)

\* fireAndForget() drops the job when the queue is full.
\* Bound: one abandonFn of a coroutine at a time.
FireAbandonFn(c) ==
  /\ abandonJob[c] = NoConn /\ ~Pool!Busy(JobOf(c))
  /\ \/ /\ abandonJob' = [abandonJob EXCEPT ![c] = conn[c]]
        /\ abandonPhase' = [abandonPhase EXCEPT ![c] = "queued"]
     \/ "fireAndForget" \in MeetFullQueue /\ UNCHANGED abandonVars

AbandonUnlessEnded(c) == IF ended[c] THEN UNCHANGED abandonVars ELSE FireAbandonFn(c)

\* abandonFn: ROLLBACK, whatever comes of it, ...
AbandonStart(c) ==
  /\ abandonPhase[c] = "queued"
  /\ abandonPhase' = [abandonPhase EXCEPT ![c] = "running"]
  /\ UNCHANGED <<poolVars, wants, query, conn, ended, opVars, abandonJob, inTxn>>

AbandonRollback(c) ==
  /\ abandonPhase[c] = "running"
  /\ inTxn' = [inTxn EXCEPT ![abandonJob[c]] = FALSE]
  /\ abandonPhase' = [abandonPhase EXCEPT ![c] = "releasing"]
  /\ UNCHANGED <<poolVars, wants, query, conn, ended, opVars, abandonJob>>

\* ... and the connection goes back.
AbandonRelease(c) ==
  /\ abandonPhase[c] = "releasing"
  /\ Pool!PutBack(JobOf(c), abandonJob[c])
  /\ abandonJob' = [abandonJob EXCEPT ![c] = NoConn]
  /\ abandonPhase' = [abandonPhase EXCEPT ![c] = "none"]
  /\ UNCHANGED <<wants, query, conn, ended, opVars, inTxn>>

-----------------------------------------------------------------------------
(* Getting a connection: executeQuery(), acquireTransaction() *)

MayWant(c, w) ==
  /\ Ready(c)
  /\ CASE w = "query" -> HasTransaction(c) => "nested" \in Calls
       [] w = "transaction" -> HasTransaction(c) => "assign" \in Calls

\* A new ScopedTransaction is moved over the one the coroutine has, if any;
\* that destroys the old Sqlite3Transaction.
Got(c, w, k) ==
  \/ /\ w = "query"
     /\ query' = [query EXCEPT ![c] = k]
     /\ UNCHANGED <<conn, ended, abandonVars>>
  \/ /\ w = "transaction"
     /\ conn' = [conn EXCEPT ![c] = k]
     /\ ended' = [ended EXCEPT ![c] = FALSE]
     /\ IF HasTransaction(c) THEN AbandonUnlessEnded(c) ELSE UNCHANGED abandonVars
     /\ UNCHANGED query

AcquireFree(c, w) ==
  /\ MayWant(c, w)
  /\ \E k \in Connections : Pool!TakeFree(k) /\ Got(c, w, k)
  /\ UNCHANGED <<wants, opVars, inTxn>>

AcquireWait(c, w) ==
  /\ MayWant(c, w)
  /\ Pool!Enlist(c)
  /\ wants' = [wants EXCEPT ![c] = w]
  /\ UNCHANGED <<query, conn, ended, opVars, abandonVars, inTxn>>

AcquireResume(c) ==
  /\ \E k \in Connections : Pool!TakeGranted(c, k) /\ Got(c, wants[c], k)
  /\ wants' = [wants EXCEPT ![c] = "none"]
  /\ UNCHANGED <<opVars, inTxn>>

HandOver(h) ==
  /\ Pool!HandOver(h)
  /\ UNCHANGED <<wants, query, conn, ended, opVars, abandonVars, inTxn>>

-----------------------------------------------------------------------------
(* SQL on the thread pool *)

TransactionCalls == {"begin", "execute", "commit", "rollback"}

Start(c, o) ==
  /\ op' = [op EXCEPT ![c] = o]
  /\ phase' = [phase EXCEPT ![c] = "queued"]

\* begin() and executeQuery() throw on an ended transaction, commit() and
\* rollback() return an error; a full queue makes submit() throw.  None of
\* these changes anything here.
CallTransaction(c, o) ==
  /\ Ready(c) /\ HasTransaction(c) /\ ~ended[c]
  /\ Start(c, o)
  /\ UNCHANGED <<poolVars, wants, query, conn, ended, abandonVars, inTxn>>

SubmitQuery(c) ==
  /\ query[c] # NoConn /\ op[c] = "none"
  /\ Start(c, "query")
  /\ UNCHANGED <<poolVars, wants, query, conn, ended, abandonVars, inTxn>>

\* ConnectionReleaseGuard, on the way out of executeQuery() ...
KeepQuery(c) ==  \* seeded fault
  /\ query' = [query EXCEPT ![c] = NoConn]
  /\ UNCHANGED poolVars
ReleaseQuery(c) ==
  /\ Pool!PutBack(c, query[c])
  /\ query' = [query EXCEPT ![c] = NoConn]

\* ... which is also the way of the exception that a full queue makes.
SubmitThrows(c) ==
  /\ "submit" \in MeetFullQueue /\ query[c] # NoConn /\ op[c] = "none"
  /\ ReleaseQuery(c)
  /\ UNCHANGED <<wants, conn, ended, opVars, abandonVars, inTxn>>

ConnOf(c) == IF op[c] = "query" THEN query[c] ELSE conn[c]

JobStart(c) ==
  /\ phase[c] = "queued"
  /\ phase' = [phase EXCEPT ![c] = "running"]
  /\ UNCHANGED <<poolVars, wants, query, conn, ended, op, abandonVars, inTxn>>

\* Whether SQLite has a transaction open after the statement, and whether the
\* statement succeeded.  BEGIN fails inside a transaction, COMMIT and ROLLBACK
\* outside one; COMMIT may fail and leave it open, and a failing statement may
\* roll it back.
Outcomes(o, open) ==
  CASE o = "begin" -> {<<open, FALSE>>} \cup (IF open THEN {} ELSE {<<TRUE, TRUE>>})
    [] o = "commit" -> {<<open, FALSE>>} \cup (IF open THEN {<<FALSE, TRUE>>} ELSE {})
    [] o = "rollback" -> {<<FALSE, open>>}
    [] o \in {"execute", "query"} -> {<<open, TRUE>>, <<open, FALSE>>, <<FALSE, FALSE>>}

JobEnd(c) ==
  /\ phase[c] = "running"
  /\ \E r \in Outcomes(op[c], inTxn[ConnOf(c)]) :
       /\ inTxn' = [inTxn EXCEPT ![ConnOf(c)] = r[1]]
       /\ phase' = [phase EXCEPT ![c] = IF r[2] THEN "succeeded" ELSE "failed"]
  /\ UNCHANGED <<poolVars, wants, query, conn, ended, op, abandonVars>>

\* commit() and rollback() end the transaction only if the statement succeeded.
EndsAnyway(c) == op[c] \in {"commit", "rollback"}  \* seeded fault
Ends(c) == op[c] \in {"commit", "rollback"} /\ phase[c] = "succeeded"

CallReturns(c) ==
  /\ phase[c] \in {"succeeded", "failed"}
  /\ ended' = [ended EXCEPT ![c] = @ \/ Ends(c)]
  /\ op' = [op EXCEPT ![c] = "none"]
  /\ phase' = [phase EXCEPT ![c] = "none"]
  /\ IF op[c] = "query" THEN ReleaseQuery(c) ELSE UNCHANGED <<poolVars, query>>
  /\ UNCHANGED <<wants, conn, abandonVars, inTxn>>

-----------------------------------------------------------------------------
(* The end of a transaction *)

\* abandon() called by the application.
Abandon(c) ==
  /\ Ready(c) /\ HasTransaction(c) /\ ~ended[c]
  /\ FireAbandonFn(c)
  /\ ended' = [ended EXCEPT ![c] = TRUE]
  /\ UNCHANGED <<poolVars, wants, query, conn, opVars, inTxn>>

ReleaseAndAbandon(c) ==  \* seeded fault
  /\ Ready(c) /\ HasTransaction(c)
  /\ IF ended[c] THEN Pool!PutBack(c, conn[c]) ELSE UNCHANGED poolVars
  /\ FireAbandonFn(c)
  /\ conn' = [conn EXCEPT ![c] = NoConn]
  /\ UNCHANGED <<wants, query, ended, opVars, inTxn>>

\* ~ScopedTransaction() releases an ended transaction and abandons any other.
ScopeExit(c) ==
  /\ Ready(c) /\ HasTransaction(c)
  /\ IF ended[c] THEN Pool!PutBack(c, conn[c]) ELSE UNCHANGED poolVars
  /\ AbandonUnlessEnded(c)
  /\ conn' = [conn EXCEPT ![c] = NoConn]
  /\ UNCHANGED <<wants, query, ended, opVars, inTxn>>

-----------------------------------------------------------------------------
Next ==
  \/ \E c \in Coroutines :
       \/ \E w \in {"query", "transaction"} : AcquireFree(c, w) \/ AcquireWait(c, w)
       \/ AcquireResume(c)
       \/ \E o \in TransactionCalls : CallTransaction(c, o)
       \/ SubmitQuery(c) \/ SubmitThrows(c) \/ JobStart(c) \/ JobEnd(c) \/ CallReturns(c)
       \/ ScopeExit(c)
       \/ AbandonStart(c) \/ AbandonRollback(c) \/ AbandonRelease(c)
  \/ \E h \in handing : HandOver(h)

\* Applications that leave abandoning a transaction to its destructor, ...
Spec == Init /\ [][Next]_vars

\* ... and those that also call abandon() themselves.
AbandonSpec == Init /\ [][Next \/ \E c \in Coroutines : Abandon(c)]_vars

\* Threads and executors run on; a coroutine leaves the scope of a transaction
\* sooner or later, however many calls it makes (hence strong fairness).
Fairness ==
  /\ \A c \in Coroutines :
       /\ WF_vars(AcquireResume(c)) /\ WF_vars(SubmitQuery(c) \/ SubmitThrows(c))
       /\ WF_vars(JobStart(c)) /\ WF_vars(JobEnd(c)) /\ WF_vars(CallReturns(c))
       /\ SF_vars(ScopeExit(c))
       /\ WF_vars(AbandonStart(c)) /\ WF_vars(AbandonRollback(c)) /\ WF_vars(AbandonRelease(c))
  /\ \A u \in Users : WF_vars(\E h \in handing : h.by = u /\ HandOver(h))

FairSpec == Spec /\ Fairness

-----------------------------------------------------------------------------
(* Properties *)

\* "a guarantee that a connection is not touched by two threads
\* simultaneously": of the jobs that use a connection, one runs at a time.
Touching(k) ==
  {c \in Coroutines : phase[c] = "running" /\ ConnOf(c) = k}
    \cup {JobOf(c) : c \in {c \in Coroutines : abandonPhase[c] = "running" /\ abandonJob[c] = k}}
NotTouchedByTwo == \A k \in Connections : Cardinality(Touching(k)) <= 1

\* A connection in the pool, or on its way to the next coroutine, has no
\* transaction open: nobody inherits the uncommitted work of another, however
\* COMMIT failed and whatever the destructors did.
PooledAreClean ==
  \A k \in Connections :
    inTxn[k] => /\ \A i \in 1..Len(available) : available[i] # k
                /\ \A h \in handing : h.item # k
                /\ \A c \in Coroutines : slot[c] # k

\* The database uses the pool as the pool is meant to be used, giving back what
\* it holds, once; and the pool keeps its promises: however acquire(), release()
\* and abandonFn interleave, no connection is lost or in two places, and none
\* lies free while a coroutine waits.
UsesPoolProperly == Pool!Spec /\ []Pool!Conservation /\ []Pool!NoIdleItem

\* A coroutine that waits for a connection gets one.
ClientsServed == \A c \in Coroutines : Pool!Waiting(c) ~> ~Pool!Waiting(c)

=============================================================================
