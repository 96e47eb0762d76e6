----------------------------- MODULE MCExecutor -----------------------------
(***************************************************************************)
(* Instances of Executor: the accept loop acc on fd 3 and two connections, *)
(* which come again, on the same fd, after they have ended.                *)
(***************************************************************************)
EXTENDS Executor, TLC

CONSTANTS acc, c1, c2

TheirFds == (acc :> 3) @@ (c1 :> 4) @@ (c2 :> 5)

Connections(o1, o2) == (acc :> {}) @@ (c1 :> o1) @@ (c2 :> o2)
AndStop(w) == [w EXCEPT ![acc] = {Stops}]

\* Socket I/O of a connection, and each of the other suspensions by two of
\* them at a time.
SafetyWorkloads ==
  {AndStop(Connections({"read", "write"}, {})),
   AndStop(Connections({"pool", "file"}, {})),
   Connections({"pool"}, {"pool"}),
   Connections({"file", "splice"}, {"file", "splice"}),
   Connections({"event"}, {"event"}),
   Connections({"wakein"}, {"wakein"})}
LivenessWorkloads == {AndStop(Connections({"read", "file", "pool"}, {}))}
WakeInWorkload == {Connections({"wakein"}, {})}
=============================================================================
