----------------------------- MODULE MCDatabase -----------------------------
(* The layers of database access, each in behaviours of its own: records and *)
(* relations, the building of one query, and connections and transactions.   *)
EXTENDS ActiveRecord, TLC

CONSTANTS Columns, Prepared, MaxCalls,
          Connections, NoConn, Third  \* one more coroutine that uses connections

VARIABLES kind, query, sub, asked, calls, sent,
          available, waiters, slot, handing, wants, single, conn, ended, op, phase,
          abandonJob, abandonPhase, inTxn
queryVars == <<kind, query, sub, asked, calls, sent>>
connVars == <<available, waiters, slot, handing, wants, single, conn, ended, op, phase,
              abandonJob, abandonPhase, inTxn>>
Q == INSTANCE OrmQuery
DB == INSTANCE Sqlite3Db WITH
  Coroutines <- Coroutines \cup {Third}, Calls <- {"assign", "nested"},
  MeetFullQueue <- {"submit", "fireAndForget"}, query <- single

\* A self-referential relation of each mode and one between two models.
MCRelations ==
  [mode : Modes, selfRef : {TRUE}] \cup {[mode |-> "NONE", selfRef |-> FALSE]}

\* One column of each treatment on insert and on update.
MCColumns ==
  <<[name |-> "id", pk |-> TRUE, generate |-> "DB_INCREMENT", update |-> "OFF"],
    [name |-> "code", pk |-> FALSE, generate |-> "OFF", update |-> "LOCKED"],
    [name |-> "made", pk |-> FALSE, generate |-> "DB_NOW", update |-> "OFF"],
    [name |-> "note", pk |-> FALSE, generate |-> "CUSTOM", update |-> "CUSTOM"]>>

Symmetric == Permutations(Coroutines) \cup Permutations(Keys) \cup Permutations(Connections)

\* One layer works, the others rest.
NoRecords == Init /\ work = Records /\ \A c, d \in Coroutines : obj[c] = obj[d]
NoQuery(k) == kind = k /\ query = 0 /\ sub = 0 /\ asked = 0 /\ calls = 0 /\ sent = 0
NoConnections ==
  /\ available = 0 /\ waiters = 0 /\ slot = 0 /\ handing = 0 /\ wants = 0 /\ single = 0 /\ conn = 0
  /\ ended = 0 /\ op = 0 /\ phase = 0 /\ abandonJob = 0 /\ abandonPhase = 0 /\ inTxn = 0
MCInit ==
  \/ Init /\ NoQuery("records") /\ NoConnections
  \/ NoRecords /\ Q!Init /\ NoConnections
  \/ NoRecords /\ NoQuery("connections") /\ DB!Init
MCNext ==
  \/ kind = "records" /\ Next /\ UNCHANGED <<queryVars, connVars>>
  \/ kind \notin {"records", "connections"} /\ Q!Next /\ UNCHANGED <<vars, connVars>>
  \/ kind = "connections" /\ DB!Next /\ UNCHANGED <<vars, queryVars>>
MCSpec == MCInit /\ [][MCNext]_<<vars, queryVars, connVars>>

\* PlaceholdersBound of OrmQuery: every "?" sent is bound to the value given for it.
PlaceholdersBound == kind \notin {"records", "connections"} => Q!PlaceholdersBound

\* WhereMeansTheCalls of OrmQuery: the condition sent is what where() and orWhere() asked for.
WhereMeansTheCalls == kind \notin {"records", "connections"} => Q!WhereMeansTheCalls

\* NotTouchedByTwo of Sqlite3Db: no two threads use a connection at a time.
NotTouchedByTwo == kind = "connections" => DB!NotTouchedByTwo

\* PooledAreClean of Sqlite3Db: no connection in the pool has a transaction open.
PooledAreClean == kind = "connections" => DB!PooledAreClean
=============================================================================
