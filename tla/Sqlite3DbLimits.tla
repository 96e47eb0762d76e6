-------------------------- MODULE Sqlite3DbLimits ---------------------------
(* What the database (module Sqlite3Db) is opened with, and how it is used.  *)
EXTENDS FiniteSets

CONSTANTS
  Connections,
  Coroutines,
  NoConn,
  Calls,         \* which optional calls the application makes, of OptionalCalls
  MeetFullQueue  \* which uses of the thread pool may find its queue full

\* "nested": executeQuery() on the database inside a transaction; "assign": a
\* new ScopedTransaction moved over one that is still there.
OptionalCalls == {"assign", "nested"}

ASSUME Sqlite3DbAssumption ==
  /\ IsFiniteSet(Connections) /\ NoConn \notin Connections
  /\ \A c \in Coroutines : <<"abandon", c>> \notin Coroutines  \* see JobOf
  /\ Calls \subseteq OptionalCalls
  /\ MeetFullQueue \subseteq {"submit", "fireAndForget"}
=============================================================================
