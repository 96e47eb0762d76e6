---------------------------- MODULE ActiveRecord ----------------------------
(***************************************************************************)
(* The records of the ORM (orm/ActiveRecord.hpp, Relations.hpp and the     *)
(* executing methods of SelectQuery.hpp): objects that stand for rows, and *)
(* many-to-many relations stored in a through table.  Several coroutines   *)
(* work on one database; every statement is atomic and a coroutine that    *)
(* awaits a statement may be overtaken by the others before its next one.  *)
(*                                                                         *)
(* A row has a generated id that is never used again (AUTOINCREMENT), a    *)
(* unique key and a nullable foreign key to a row of the same table, 0 for *)
(* NULL.  A behaviour works either on records or on one relation.          *)
(* Definitions marked "seeded fault" are not part of the model.            *)
(***************************************************************************)
EXTENDS Integers, FiniteSets

CONSTANTS
  Coroutines,
  Keys,        \* values of the unique column
  Parents,     \* values of the foreign key, 0 among them
  MaxId,       \* bound: rows inserted
  Things,      \* primary keys of the related objects, numbers
  Relations,   \* relations as records [mode, selfRef]
  Records      \* the model value for a behaviour without a relation

\* SymmetryMode
Modes == {"NONE", "SINGLE_ROW", "DOUBLE_ROW", "DB_SINGLE_ROW", "DB_DOUBLE_ROW"}

ASSUME ActiveRecordAssumption ==
  /\ MaxId \in Nat /\ 0 \in Parents /\ Parents \subseteq 0..MaxId
  /\ Things \subseteq Nat
  /\ Relations \subseteq [mode : Modes, selfRef : BOOLEAN]
  /\ \A r \in Relations : r.selfRef \/ r.mode = "NONE"   \* isValid()

VARIABLES
  work,     \* Records or the relation
  rows,     \* the table: a function from the ids in use to [key, parent]
  nextId,   \* the last id given
  obj,      \* the object of each coroutine: [id, key, parent, persisted]
  pc,       \* what each coroutine awaits next
  result,   \* of its last getOneOrCreate(): "none", "found", "created" or "threw"
  watched,  \* ghost: since its look found no row, the row is "absent", "came" or is "gone" again
  erased,   \* ghost: who destroyed a row through its object
  through,  \* the through table: a function from <<pkA, pkB>> to its data
  raced     \* ghost: a pair's rows changed between exists() and the upsert that follows

recordVars == <<rows, nextId, obj, result, erased>>
relationVars == <<through, raced>>
vars == <<work, rows, nextId, obj, pc, result, watched, erased, through, raced>>

Idle == [at |-> "idle"]
NewObject(k, p) == [id |-> 0, key |-> k, parent |-> p, persisted |-> FALSE]

Init ==
  /\ work \in {Records} \cup Relations
  /\ rows = <<>> /\ nextId = 0
  /\ obj \in [Coroutines -> {NewObject(k, 0) : k \in Keys}]
  /\ pc = [c \in Coroutines |-> Idle]
  /\ result = [c \in Coroutines |-> "none"]
  /\ watched = [c \in Coroutines |-> "absent"]
  /\ erased = [i \in 1..MaxId |-> {}]
  /\ through = <<>> /\ raced = FALSE

-----------------------------------------------------------------------------
(* The statements, as the database executes them *)

\* hydrateModelRow(): the object of a row counts as persisted.
Hydrate(i, table) == [id |-> i, key |-> table[i].key, parent |-> table[i].parent, persisted |-> TRUE]

KeyTaken(k, but) == \E i \in DOMAIN rows \ but : rows[i].key = k
WithKey(k) == {i \in DOMAIN rows : rows[i].key = k}
Row(o) == [key |-> o.key, parent |-> o.parent]

\* INSERT ... RETURNING: the id is the database's.
Insert(c, o) ==
  /\ nextId < MaxId /\ ~KeyTaken(o.key, {})
  /\ nextId' = nextId + 1
  /\ rows' = [i \in DOMAIN rows \cup {nextId'} |-> IF i = nextId' THEN Row(o) ELSE rows[i]]
  /\ obj' = [obj EXCEPT ![c] = Hydrate(nextId', rows')]

Works(c) == work = Records /\ pc[c] = Idle

-----------------------------------------------------------------------------
(* Records *)

\* The caller makes a new object or changes the fields of the one it has.
Assign(c) ==
  /\ Works(c)
  /\ \E k \in Keys, p \in Parents : obj' = [obj EXCEPT ![c].key = k, ![c].parent = p]
  /\ UNCHANGED <<work, rows, nextId, pc, result, erased, relationVars>>
NewObj(c) ==
  /\ Works(c)
  /\ \E k \in Keys : obj' = [obj EXCEPT ![c] = NewObject(k, 0)]
  /\ UNCHANGED <<work, rows, nextId, pc, result, erased, relationVars>>

\* save() of an object that is not persisted.  A taken key is an error and
\* leaves the object alone.
SaveInserts(c) ==
  /\ Works(c) /\ ~obj[c].persisted
  /\ Insert(c, obj[c])
  /\ UNCHANGED <<work, pc, result, erased, relationVars>>

\* save() of one that is: UPDATE by primary key, which may hit no row.
SaveUpdates(c) ==
  /\ Works(c) /\ obj[c].persisted
  /\ obj[c].id \in DOMAIN rows /\ ~KeyTaken(obj[c].key, {obj[c].id})
  /\ rows' = [rows EXCEPT ![obj[c].id] = Row(obj[c])]
  /\ obj' = [obj EXCEPT ![c] = Hydrate(@.id, rows')]
  /\ UNCHANGED <<work, nextId, pc, result, erased, relationVars>>

\* upsert() with the key as conflict field: on a conflict the row that has the
\* key is updated and becomes the object's, or nothing happens and no row
\* comes back.
UpsertInserts(c) ==
  /\ Works(c)
  /\ Insert(c, obj[c])
  /\ UNCHANGED <<work, pc, result, erased, relationVars>>
UpsertUpdates(c) ==
  /\ Works(c)
  /\ \E i \in WithKey(obj[c].key) :
       /\ rows' = [rows EXCEPT ![i] = Row(obj[c])]
       /\ obj' = [obj EXCEPT ![c] = Hydrate(i, rows')]
  /\ UNCHANGED <<work, nextId, pc, result, erased, relationVars>>

DestroyKeepsPersisted(c) ==  \* seeded fault
  /\ Works(c) /\ obj[c].id # 0
  /\ rows' = [i \in DOMAIN rows \ {obj[c].id} |-> rows[i]]
  /\ erased' = IF obj[c].id \in DOMAIN rows THEN [erased EXCEPT ![obj[c].id] = {c}] ELSE erased
  /\ obj' = [obj EXCEPT ![c] = IF @.id \in DOMAIN rows THEN Hydrate(@.id, rows) ELSE @]
  /\ UNCHANGED <<work, nextId, pc, result, relationVars>>
\* DELETE by primary key; an object that is destroyed twice stays unpersisted.
Destroy(c) ==
  /\ Works(c) /\ obj[c].id # 0
  /\ rows' = [i \in DOMAIN rows \ {obj[c].id} |-> rows[i]]
  /\ erased' = IF obj[c].id \in DOMAIN rows THEN [erased EXCEPT ![obj[c].id] = {c}] ELSE erased
  /\ obj' = [obj EXCEPT ![c] = [(IF @.id \in DOMAIN rows THEN Hydrate(@.id, rows) ELSE @) EXCEPT !.persisted = FALSE]]
  /\ UNCHANGED <<work, nextId, pc, result, relationVars>>

\* reload() and find(): a missing row leaves the object alone.
Reload(c) ==
  /\ Works(c)
  /\ \E i \in DOMAIN rows \cap (Parents \cup {obj[c].id}) : obj' = [obj EXCEPT ![c] = Hydrate(i, rows)]
  /\ UNCHANGED <<work, rows, nextId, pc, result, erased, relationVars>>

\* The bulk operations change rows without touching the objects.
BulkUpdate(c) ==
  /\ Works(c)
  /\ \E p, q \in Parents :
       rows' = [i \in DOMAIN rows |-> IF rows[i].parent = p THEN [rows[i] EXCEPT !.parent = q] ELSE rows[i]]
  /\ UNCHANGED <<work, nextId, obj, pc, result, erased, relationVars>>
BulkDestroy(c) ==
  /\ Works(c)
  /\ \E p \in Parents : rows' = [i \in {i \in DOMAIN rows : rows[i].parent # p} |-> rows[i]]
  /\ UNCHANGED <<work, nextId, obj, pc, result, erased, relationVars>>

\* getOneOrCreate(): look, insert, and look again when somebody was faster.
Return(c, r) == pc' = [pc EXCEPT ![c] = Idle] /\ result' = [result EXCEPT ![c] = r]
Found(c, k) ==
  /\ \E i \in WithKey(k) : obj' = [obj EXCEPT ![c] = Hydrate(i, rows)]
  /\ Return(c, "found")

GetOneOrCreate(c) ==
  /\ Works(c)
  /\ \E k \in Keys : \/ Found(c, k)
                     \/ /\ WithKey(k) = {}
                        /\ pc' = [pc EXCEPT ![c] = [at |-> "create", key |-> k]]
                        /\ result' = [result EXCEPT ![c] = "none"]
                        /\ UNCHANGED obj
  /\ UNCHANGED <<work, rows, nextId, erased, relationVars>>

\* The second look is for a taken key; another error is returned (StatementFails).
LookAgain(c) == pc' = [pc EXCEPT ![c].at = "lookAgain"] /\ UNCHANGED <<result, rows, nextId, obj>>
CreateRetriesAnyError(c) ==  \* seeded fault
  /\ pc[c].at = "create"
  /\ \/ Insert(c, NewObject(pc[c].key, 0)) /\ Return(c, "created")
     \/ LookAgain(c)
  /\ UNCHANGED <<work, erased, relationVars>>
Create(c) ==
  /\ pc[c].at = "create"
  /\ \/ Insert(c, NewObject(pc[c].key, 0)) /\ Return(c, "created")
     \/ KeyTaken(pc[c].key, {}) /\ LookAgain(c)
  /\ UNCHANGED <<work, erased, relationVars>>

\* getOne() throws when there is no row.
CreateRetry(c) ==
  /\ pc[c].at = "lookAgain"
  /\ \/ Found(c, pc[c].key)
     \/ WithKey(pc[c].key) = {} /\ Return(c, "threw") /\ UNCHANGED obj
  /\ UNCHANGED <<work, rows, nextId, erased, relationVars>>

\* The ghost follows the row with the asked key through everybody's statements.
Watching(c) == pc[c].at \in {"create", "lookAgain"}
Watch ==
  watched' = [c \in Coroutines |->
    CASE Watching(c) -> IF \E i \in DOMAIN rows' : rows'[i].key = pc[c].key THEN "came"
                        ELSE IF watched[c] = "came" THEN "gone" ELSE watched[c]
      [] ~Watching(c) /\ Watching(c)' -> "absent"
      [] OTHER -> watched[c]]

\* related() and ref(): a null foreign key refers to nothing.
Ref(i) == IF rows[i].parent = 0 THEN {} ELSE {rows[i].parent} \cap DOMAIN rows
Related(i) == {j \in DOMAIN rows : rows[j].parent = i}

-----------------------------------------------------------------------------
(* Many-to-many relations.  getManyToManyRelation() tells which side of the  *)
(* through table the caller is on; in a self-referential relation the caller *)
(* is always A.                                                              *)

Mirror(t) == <<t[2], t[1]>>
Ordered(t) == IF t[1] < t[2] THEN t ELSE Mirror(t)
CallerIsA(side) == work.selfRef \/ side = "A"
Either(t) == {t, Mirror(t)} \cap DOMAIN through

Relates(c) == work # Records /\ pc[c] = Idle

\* ON CONFLICT (pkA, pkB) DO NOTHING, DO UPDATE SET data; with DB_DOUBLE_ROW a
\* trigger of the database keeps the mirrored row.
Stored(ts) == IF work.mode = "DB_DOUBLE_ROW" THEN ts \cup {Mirror(t) : t \in ts} ELSE ts
AddRows(ts, d) ==
  through' = [t \in DOMAIN through \cup Stored(ts) |-> IF t \in DOMAIN through THEN through[t] ELSE d]
SetRows(ts, d) ==
  through' = [t \in DOMAIN through \cup Stored(ts) |-> IF t \in Stored(ts) THEN d ELSE through[t]]

\* addRelation(): single-row relations are stored in the order of the keys.
RowToAdd(x, y, side) ==
  IF work.mode \in {"SINGLE_ROW", "DB_SINGLE_ROW"} THEN Ordered(<<x, y>>)
  ELSE IF CallerIsA(side) THEN <<x, y>> ELSE <<y, x>>
RowsToAdd(x, y, side) ==
  IF work.mode = "DOUBLE_ROW" THEN {<<x, y>>, <<y, x>>} ELSE {RowToAdd(x, y, side)}

AddRelation(c) ==
  /\ Relates(c) /\ work.mode # "SINGLE_ROW"
  /\ \E x, y \in Things, side \in {"A", "B"} : AddRows(RowsToAdd(x, y, side), 0)
  /\ UNCHANGED <<work, recordVars, pc, raced>>

\* With SINGLE_ROW it asks first whether either order is there.
AddRelationExists(c) ==
  /\ Relates(c) /\ work.mode = "SINGLE_ROW"
  /\ \E x, y \in Things :
       /\ Either(<<x, y>>) = {}
       /\ pc' = [pc EXCEPT ![c] = [at |-> "add", row |-> RowToAdd(x, y, "A"), seen |-> {}]]
  /\ UNCHANGED <<work, recordVars, through, raced>>
AddRelationUpsert(c) ==
  /\ pc[c].at = "add"
  /\ AddRows({pc[c].row}, 0)
  /\ pc' = [pc EXCEPT ![c] = Idle]
  /\ raced' = (raced \/ Either(pc[c].row) # pc[c].seen)
  /\ UNCHANGED <<work, recordVars>>

\* upsertRelationThrough(): as given, ordered, or both rows, ...
RowsToUpsert(t) ==
  CASE work.mode = "DB_SINGLE_ROW" -> {Ordered(t)}
    [] work.mode = "DOUBLE_ROW" -> {t, Mirror(t)}
    [] OTHER -> {t}
UpsertRelationThrough(c) ==
  /\ Relates(c) /\ work.mode # "SINGLE_ROW"
  /\ \E x, y \in Things, d \in {0, 1} : SetRows(RowsToUpsert(<<x, y>>), d)
  /\ UNCHANGED <<work, recordVars, pc, raced>>

\* ... or, with SINGLE_ROW, the order that exists(): two statements.
OrderInUse(t) == IF Mirror(t) \in DOMAIN through THEN Mirror(t) ELSE t
ThroughExists(c) ==
  /\ Relates(c) /\ work.mode = "SINGLE_ROW"
  /\ \E x, y \in Things, d \in {0, 1} :
       pc' = [pc EXCEPT ![c] = [at |-> "upsert", row |-> OrderInUse(<<x, y>>), data |-> d, seen |-> Either(<<x, y>>)]]
  /\ UNCHANGED <<work, recordVars, through, raced>>
ThroughUpsert(c) ==
  /\ pc[c].at = "upsert"
  /\ SetRows({pc[c].row}, pc[c].data)
  /\ pc' = [pc EXCEPT ![c] = Idle]
  /\ raced' = (raced \/ Either(pc[c].row) # pc[c].seen)
  /\ UNCHANGED <<work, recordVars>>

\* removeRelation(): both orders when the relation is symmetric; the trigger
\* does it for DB_DOUBLE_ROW.
RowsAsGiven(x, y, side) == {IF CallerIsA(side) THEN <<x, y>> ELSE <<y, x>>}  \* seeded fault
RowsToRemove(x, y, side) ==
  IF work.mode \in {"NONE", "DB_DOUBLE_ROW"} THEN Stored({IF CallerIsA(side) THEN <<x, y>> ELSE <<y, x>>})
  ELSE {<<x, y>>, <<y, x>>}
RemoveRelation(c) ==
  /\ Relates(c)
  /\ \E x, y \in Things, side \in {"A", "B"} :
       through' = [t \in DOMAIN through \ RowsToRemove(x, y, side) |-> through[t]]
  /\ UNCHANGED <<work, recordVars, pc, raced>>

\* manyRelated(): joins the other side of the rows whose own side is the
\* caller.  For single-row relations the second pair of predicates is the same
\* as the first.
ForwardIgnored(side, reciprocal) == TRUE  \* seeded fault
Forward(side, reciprocal) == IF work.selfRef THEN ~reciprocal ELSE side = "A"
ManyRelated(x, side, reciprocal) ==
  LET rowsOf == {t \in DOMAIN through : t[IF Forward(side, reciprocal) THEN 1 ELSE 2] = x}
  IN {t[IF Forward(side, reciprocal) THEN 2 ELSE 1] : t \in rowsOf}

\* A statement fails: the operation returns the error and changes nothing more.
StatementFails(c) ==
  /\ pc[c] # Idle
  /\ pc' = [pc EXCEPT ![c] = Idle]
  /\ UNCHANGED <<work, recordVars, through, raced>>

-----------------------------------------------------------------------------
Next ==
  /\ \E c \in Coroutines :
       \/ Assign(c) \/ NewObj(c) \/ SaveInserts(c) \/ SaveUpdates(c) \/ UpsertInserts(c) \/ UpsertUpdates(c)
       \/ Destroy(c) \/ Reload(c) \/ BulkUpdate(c) \/ BulkDestroy(c)
       \/ GetOneOrCreate(c) \/ Create(c) \/ CreateRetry(c)
       \/ AddRelation(c) \/ AddRelationExists(c) \/ AddRelationUpsert(c) \/ UpsertRelationThrough(c)
       \/ ThroughExists(c) \/ ThroughUpsert(c) \/ RemoveRelation(c) \/ StatementFails(c)
  /\ Watch

Spec == Init /\ [][Next]_vars

-----------------------------------------------------------------------------
(* Properties *)

\* persisted_ follows the row through saves, upserts, destroys and reloads of
\* several objects of it: an object that is not persisted has no row, so
\* save() never stores a second copy, and a persisted one whose row is gone
\* lost it to somebody else, so save() never updates what it has itself
\* destroyed.
PersistedTracksRow ==
  \A c \in Coroutines :
    /\ obj[c].id # 0 /\ ~obj[c].persisted => obj[c].id \notin DOMAIN rows
    /\ obj[c].persisted => erased[obj[c].id] # {c}

\* getOneOrCreate() finds or creates a row whatever happens between its
\* statements.  It throws only when it was overtaken twice: while it was running
\* somebody stored the row it had not found, and somebody removed it again.
ThrowsWhenOvertaken ==
  \A c \in Coroutines : result[c] = "threw" => watched[c] = "gone"

\* Symmetric relations keep their storage rule under every interleaving: two
\* equal rows for DOUBLE_ROW, ordered keys for DB_SINGLE_ROW, one row per pair
\* for SINGLE_ROW unless the pair changed between exists() and the upsert.
\* What is related to itself has a single row in every mode.
SymmetryKept ==
  work # Records =>
    CASE work.mode = "DOUBLE_ROW" ->
           \A t \in DOMAIN through : Mirror(t) \in DOMAIN through /\ through[Mirror(t)] = through[t]
      [] work.mode = "DB_SINGLE_ROW" -> \A t \in DOMAIN through : t[1] <= t[2]
      [] work.mode = "SINGLE_ROW" ->
           raced \/ \A t \in DOMAIN through : t[1] = t[2] \/ Mirror(t) \notin DOMAIN through
      [] OTHER -> TRUE

\* The two ends of a relation agree: whoever I follow has me among the
\* followers, the users who like a post are those whose likes hold the post,
\* and a row is related to what it refers to.
EndsAgree ==
  /\ work # Records /\ work.mode \notin {"SINGLE_ROW", "DB_SINGLE_ROW"} =>
       \A x, y \in Things :
         /\ work.mode = "NONE" => (y \in ManyRelated(x, "A", FALSE) <=> x \in ManyRelated(y, "B", TRUE))
         /\ work.mode # "NONE" => (y \in ManyRelated(x, "A", FALSE) <=> x \in ManyRelated(y, "A", FALSE))
  /\ \A i, j \in DOMAIN rows : (i \in Ref(j) <=> j \in Related(i))

\* "SINGLE_ROW: A single row is stored per relation.  The ORM queries the
\* mirrored relation at read time": both ends see a stored relation.
MirroredRelationQueried ==
  work # Records /\ work.mode = "SINGLE_ROW" =>
    \A t \in DOMAIN through : t[2] \in ManyRelated(t[1], "A", FALSE) /\ t[1] \in ManyRelated(t[2], "A", FALSE)
=============================================================================
