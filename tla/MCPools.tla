------------------------------ MODULE MCPools -------------------------------
(* The two pools that coroutines wait for, each in behaviours of its own: the *)
(* threads of ThreadPool and the connections of Sqlite3Db.                    *)
EXTENDS ThreadPool, Sqlite3DbLimits

VARIABLES scene, available, waiters, slot, handing, wants, query, conn, ended, op, phase,
          abandonJob, abandonPhase, inTxn
connVars == <<available, waiters, slot, handing, wants, query, conn, ended, op, phase,
              abandonJob, abandonPhase, inTxn>>
DB == INSTANCE Sqlite3Db

\* The pool that is not looked at is at rest: no connection is asked for, or the
\* threads have been joined before any job came.  No fair step of it is enabled.
Joined ==
  /\ jobQueue = <<>> /\ stop = "joined" /\ worker = [w \in Workers |-> "exited"]
  /\ jpc = [j \in Jobs |-> "none"] /\ co = [j \in Jobs |-> "idle"] /\ result = [j \in Jobs |-> "none"]
  /\ hasExecutor = [j \in Jobs |-> FALSE] /\ done = [j \in Jobs |-> FALSE]
  /\ caller = [j \in Jobs |-> FALSE] /\ flag = [j \in Jobs |-> FALSE] /\ posted = [j \in Jobs |-> 0]

MCInit ==
  /\ DB!Init
  /\ \/ scene = "threads" /\ Init
     \/ scene = "connections" /\ Joined
MCNext ==
  \/ scene = "threads" /\ Next /\ UNCHANGED <<scene, connVars>>
  \/ scene = "connections" /\ DB!Next /\ UNCHANGED <<scene, vars>>
MCSpec == MCInit /\ [][MCNext]_<<scene, vars, connVars>> /\ Fairness /\ DB!Fairness

\* UsesPoolProperly of Sqlite3Db: a refinement of AsyncPool, and its promises.
UsesPoolProperly == DB!UsesPoolProperly

\* ClientsServed of Sqlite3Db: whoever waits for a connection gets one.
ClientsServed == DB!ClientsServed
=============================================================================
