---------------------------- MODULE MCSqlite3Db -----------------------------
(* Instances of Sqlite3Db with one connection, whose values are in the cfgs. *)
EXTENDS Sqlite3Db
=============================================================================
