------------------------- MODULE ActiveRecordProofs -------------------------
(***************************************************************************)
(* Proofs about records and relations for any coroutines, keys, rows and   *)
(* related objects.  A behaviour works on records or on one relation, so   *)
(* the invariant has a part for each.                                      *)
(***************************************************************************)
EXTENDS ActiveRecord, TLAPS

ObjectType == [id : Nat, key : Keys, parent : Parents, persisted : BOOLEAN]
RowType == [key : Keys, parent : Parents]

\* Ids are given in order and never again; a row that is there was not
\* destroyed; an object knows ids that were given.
RecordsOK ==
  /\ nextId \in 0..MaxId
  /\ DOMAIN rows \subseteq 1..nextId
  /\ \A i \in DOMAIN rows : rows[i] \in RowType
  /\ obj \in [Coroutines -> ObjectType]
  /\ \A c \in Coroutines : obj[c].id <= nextId
  /\ DOMAIN erased = 1..MaxId
  /\ \A i \in 1..MaxId : i \in DOMAIN rows \/ i > nextId => erased[i] = {}

\* persisted_ tells whether the object had a row when it was last seen.
Tracked ==
  \A c \in Coroutines :
    /\ obj[c].id # 0 /\ ~obj[c].persisted => obj[c].id \notin DOMAIN rows
    /\ obj[c].persisted => obj[c].id # 0 /\ erased[obj[c].id] # {c}

\* Where a coroutine is tells what it works on.  With SINGLE_ROW the row to be
\* stored is one that was found, or the pair had none.
AwaitsOK(v) ==
  \/ v = Idle
  \/ work = Records /\ v.at \in {"create", "lookAgain"} /\ v.key \in Keys /\ v = [at |-> v.at, key |-> v.key]
  \/ /\ work # Records /\ work.mode = "SINGLE_ROW" /\ v.at \in {"add", "upsert"}
     /\ \E x, y \in Things : v.row = <<x, y>>
     /\ v.seen \subseteq {v.row, Mirror(v.row)}
     /\ v.seen # {} => v.row \in v.seen
Awaits == DOMAIN pc = Coroutines /\ \A c \in Coroutines : AwaitsOK(pc[c])

\* The through table holds pairs, under the rule of the relation's mode.
RelationOK ==
  /\ work \in {Records} \cup Relations
  /\ DOMAIN through \subseteq Things \X Things
  /\ work # Records =>
       /\ work.mode = "DOUBLE_ROW" =>
            \A t \in DOMAIN through : Mirror(t) \in DOMAIN through /\ through[Mirror(t)] = through[t]
       /\ work.mode = "DB_DOUBLE_ROW" => \A t \in DOMAIN through : Mirror(t) \in DOMAIN through
       /\ work.mode = "DB_SINGLE_ROW" => \A t \in DOMAIN through : t[1] <= t[2]
       /\ work.mode = "SINGLE_ROW" =>
            raced \/ \A t \in DOMAIN through : t[1] = t[2] \/ Mirror(t) \notin DOMAIN through

IInv == RecordsOK /\ Tracked /\ Awaits /\ RelationOK

-----------------------------------------------------------------------------
\* Nobody has done anything and the tables are empty.
LEMMA InitHolds == Init => IInv
<1> SUFFICES ASSUME Init PROVE IInv
  OBVIOUS
<1>1. /\ DOMAIN rows = {} /\ nextId = 0 /\ DOMAIN through = {} /\ work \in {Records} \cup Relations
      /\ DOMAIN pc = Coroutines /\ \A c \in Coroutines : pc[c] = Idle
      /\ DOMAIN erased = 1..MaxId /\ \A i \in 1..MaxId : erased[i] = {}
  BY DEF Init
<1>2. obj \in [Coroutines -> {NewObject(k, 0) : k \in Keys}]
  BY DEF Init
<1>3. \A k \in Keys : NewObject(k, 0) \in ObjectType /\ NewObject(k, 0).id = 0 /\ ~NewObject(k, 0).persisted
  BY ActiveRecordAssumption DEF NewObject, ObjectType
<1>4. obj \in [Coroutines -> ObjectType] /\ \A c \in Coroutines : obj[c].id = 0 /\ ~obj[c].persisted
  BY <1>2, <1>3
<1>5. RecordsOK
  BY <1>1, <1>4, ActiveRecordAssumption DEF RecordsOK
<1>6. Tracked
  BY <1>4 DEF Tracked
<1>8. Awaits
  BY <1>1 DEF Awaits, AwaitsOK
<1>9. RelationOK
  BY <1>1 DEF RelationOK
<1> QED BY <1>5, <1>6, <1>8, <1>9 DEF IInv

\* A statement on the table that leaves one coroutine with the object o: new
\* rows have new ids, and only rows that go are marked as erased.
LEMMA TableStep ==
  ASSUME IInv, NEW c \in Coroutines,
         NEW o \in ObjectType, obj' = [obj EXCEPT ![c] = o], o.id <= nextId',
         nextId' \in nextId..MaxId, DOMAIN rows' \subseteq 1..nextId',
         \A i \in DOMAIN rows' : rows'[i] \in RowType /\ (i \in DOMAIN rows \/ i > nextId),
         DOMAIN erased' = 1..MaxId,
         \A i \in 1..MaxId : \/ erased'[i] = erased[i]
                             \/ erased'[i] = {c} /\ i \in DOMAIN rows /\ i \notin DOMAIN rows',
         o.id # 0 /\ ~o.persisted => o.id \notin DOMAIN rows',
         o.persisted => \/ o.id \in DOMAIN rows'
                        \/ obj[c].persisted /\ obj[c].id = o.id /\ UNCHANGED erased
  PROVE  RecordsOK' /\ Tracked'
<1>1. nextId \in Nat /\ nextId' \in Nat /\ nextId' <= MaxId /\ nextId <= nextId' /\ MaxId \in Nat
  BY ActiveRecordAssumption DEF IInv, RecordsOK
<1>2. obj' \in [Coroutines -> ObjectType] /\ \A d \in Coroutines : obj'[d] = IF d = c THEN o ELSE obj[d]
  <2>1. obj \in [Coroutines -> ObjectType]
    BY DEF IInv, RecordsOK
  <2> QED BY <2>1
<1>3. \A d \in Coroutines : obj[d].id \in Nat /\ obj[d].id <= nextId
  BY DEF IInv, RecordsOK, ObjectType
<1>4. \A i \in 1..MaxId : i \in DOMAIN rows' \/ i > nextId' => erased'[i] = {}
  <2> SUFFICES ASSUME NEW i \in 1..MaxId, i \in DOMAIN rows' \/ i > nextId' PROVE erased'[i] = {}
    OBVIOUS
  <2>1. i \in DOMAIN rows \/ i > nextId
    BY <1>1
  <2>2. erased[i] = {}
    BY <2>1 DEF IInv, RecordsOK
  <2>3. erased'[i] = erased[i]
    <3>1. i \in DOMAIN rows => i <= nextId
      BY DEF IInv, RecordsOK
    <3> QED BY <3>1, <1>1
  <2> QED BY <2>2, <2>3
<1>5. RecordsOK'
  <2>1. \A d \in Coroutines : obj'[d].id <= nextId'
    BY <1>1, <1>2, <1>3
  <2> QED BY <1>1, <1>2, <1>4, <2>1 DEF RecordsOK
<1>6. Tracked'
  <2> SUFFICES ASSUME NEW d \in Coroutines
               PROVE  /\ obj'[d].id # 0 /\ ~obj'[d].persisted => obj'[d].id \notin DOMAIN rows'
                      /\ obj'[d].persisted => obj'[d].id # 0 /\ erased'[obj'[d].id] # {d}
    BY DEF Tracked
  <2>1. CASE d # c
    <3>1. obj'[d] = obj[d]
      BY <1>2, <2>1
    <3>2. ASSUME obj[d].id # 0, ~obj[d].persisted PROVE obj[d].id \notin DOMAIN rows'
      <4>1. obj[d].id \notin DOMAIN rows
        BY <3>2 DEF IInv, Tracked
      <4> QED BY <4>1, <1>1, <1>3
    <3>3. ASSUME obj[d].persisted PROVE obj[d].id # 0 /\ erased'[obj[d].id] # {d}
      <4>1. obj[d].id # 0 /\ erased[obj[d].id] # {d}
        BY <3>3 DEF IInv, Tracked
      <4>2. obj[d].id \in 1..MaxId
        BY <1>1, <1>3, <4>1
      <4> QED BY <2>1, <4>1, <4>2
    <3> QED BY <3>1, <3>2, <3>3
  <2>2. CASE d = c
    <3>1. obj'[d] = o
      BY <1>2, <2>2
    <3>2. ASSUME o.persisted PROVE o.id # 0 /\ erased'[o.id] # {c}
      <4>1. CASE o.id \in DOMAIN rows'
        <5>1. o.id \in 1..MaxId
          BY <1>1, <4>1
        <5> QED BY <1>4, <4>1, <5>1
      <4>2. CASE obj[c].persisted /\ obj[c].id = o.id /\ UNCHANGED erased
        BY <4>2 DEF IInv, Tracked
      <4> QED BY <3>2, <4>1, <4>2
    <3> QED BY <2>2, <3>1, <3>2
  <2> QED BY <2>1, <2>2
<1> QED BY <1>5, <1>6

\* A relation stays as it is when its table does.
LEMMA RelationStays == ASSUME IInv, UNCHANGED <<work, through, raced>> PROVE RelationOK'
  BY DEF IInv, RelationOK, Mirror

\* Coroutines that do not move may await what they awaited.
LEMMA AwaitsStay == ASSUME IInv, UNCHANGED <<work, pc>> PROVE Awaits'
  BY DEF IInv, Awaits, AwaitsOK, Mirror, Idle

\* Steps on a relation leave the records alone.
LEMMA RecordsStay == ASSUME IInv, UNCHANGED recordVars PROVE (RecordsOK /\ Tracked)'
  BY DEF IInv, RecordsOK, Tracked, recordVars

\* A coroutine goes to await v.
LEMMA AwaitsNext ==
  ASSUME IInv, NEW c \in Coroutines, NEW v, AwaitsOK(v), pc' = [pc EXCEPT ![c] = v], UNCHANGED work
  PROVE  Awaits'
<1>1. DOMAIN pc' = Coroutines /\ \A d \in Coroutines : pc'[d] = IF d = c THEN v ELSE pc[d]
  BY DEF IInv, Awaits
<1>2. \A w : AwaitsOK(w) => AwaitsOK(w)'
  BY DEF AwaitsOK, Mirror, Idle
<1>3. \A d \in Coroutines : AwaitsOK(pc'[d])
  BY <1>1 DEF IInv, Awaits
<1>4. \A d \in Coroutines : AwaitsOK(pc[d])'
  BY <1>3 DEF AwaitsOK, Mirror, Idle
<1> QED BY <1>1, <1>4 DEF Awaits

-----------------------------------------------------------------------------
\* What a coroutine has in its hands.
LEMMA Facts ==
  ASSUME IInv, NEW c \in Coroutines
  PROVE  /\ obj \in [Coroutines -> ObjectType] /\ obj[c] \in ObjectType
         /\ obj[c].id \in Nat /\ obj[c].id <= nextId /\ obj[c].key \in Keys /\ obj[c].parent \in Parents
         /\ nextId \in Nat /\ nextId <= MaxId /\ MaxId \in Nat /\ nextId \in nextId..MaxId
         /\ DOMAIN rows \subseteq 1..nextId /\ \A i \in DOMAIN rows : rows[i] \in RowType
         /\ DOMAIN erased = 1..MaxId
<1>1. obj \in [Coroutines -> ObjectType] /\ obj[c].id <= nextId /\ nextId \in 0..MaxId /\ MaxId \in Nat
  BY ActiveRecordAssumption DEF IInv, RecordsOK
<1>2. obj[c] \in ObjectType
  BY <1>1
<1>3. obj[c].id \in Nat /\ obj[c].key \in Keys /\ obj[c].parent \in Parents
  BY <1>2 DEF ObjectType
<1> QED BY <1>1, <1>2, <1>3 DEF IInv, RecordsOK

\* The object of a row.
LEMMA Hydrated ==
  ASSUME NEW table, NEW i \in Nat, table[i] \in RowType
  PROVE  /\ Hydrate(i, table) \in ObjectType
         /\ Hydrate(i, table).id = i /\ Hydrate(i, table).persisted = TRUE
  BY DEF Hydrate, ObjectType, RowType

\* The row of an object.
LEMMA RowTyped == ASSUME NEW o, o.key \in Keys, o.parent \in Parents PROVE Row(o) \in RowType
  BY DEF Row, RowType

\* INSERT gives the object a row of its own.
LEMMA InsertStep ==
  ASSUME IInv, NEW c \in Coroutines, NEW o, o.key \in Keys, o.parent \in Parents, Insert(c, o), UNCHANGED erased
  PROVE  RecordsOK' /\ Tracked' /\ nextId' = nextId + 1 /\ nextId' \in nextId..MaxId
<1> DEFINE n == nextId'
<1>1. /\ nextId < MaxId /\ n = nextId + 1
      /\ rows' = [i \in DOMAIN rows \cup {n} |-> IF i = n THEN Row(o) ELSE rows[i]]
      /\ obj' = [obj EXCEPT ![c] = Hydrate(n, rows')]
  BY DEF Insert
<1>2. n \in nextId..MaxId /\ n \in Nat /\ n \in 1..n /\ n > nextId /\ \A i \in 1..nextId : i \in 1..n /\ i # n
  BY <1>1, Facts
<1> HIDE DEF n
<1>3. rows'[n] \in RowType /\ n \in DOMAIN rows'
  BY <1>1, RowTyped
<1>4. /\ Hydrate(n, rows') \in ObjectType
      /\ Hydrate(n, rows').id = n /\ Hydrate(n, rows').persisted = TRUE
  BY <1>2, <1>3, Hydrated
<1>5. /\ DOMAIN rows' \subseteq 1..n
      /\ \A i \in DOMAIN rows' : rows'[i] \in RowType /\ (i \in DOMAIN rows \/ i > nextId)
  <2>1. DOMAIN rows \subseteq 1..nextId /\ \A i \in DOMAIN rows : rows[i] \in RowType
    BY Facts
  <2> QED BY <1>1, <1>2, <1>3, <2>1
<1>6. DOMAIN erased' = 1..MaxId /\ \A i \in 1..MaxId : erased'[i] = erased[i]
  BY Facts
<1>7. RecordsOK' /\ Tracked'
  <2> DEFINE h == Hydrate(n, rows')
  <2>1. h \in ObjectType /\ obj' = [obj EXCEPT ![c] = h] /\ h.id <= n /\ h.persisted /\ h.id \in DOMAIN rows'
    BY <1>1, <1>2, <1>3, <1>4
  <2> HIDE DEF h
  <2> QED BY <1>2, <1>5, <1>6, <2>1, TableStep DEF n
<1> QED BY <1>1, <1>2, <1>7 DEF n

\* A step that takes over the row i, of a table with the same ids.
LEMMA HydrateStep ==
  ASSUME IInv, NEW c \in Coroutines, NEW i \in DOMAIN rows, obj' = [obj EXCEPT ![c] = Hydrate(i, rows')],
         DOMAIN rows' = DOMAIN rows, \A j \in DOMAIN rows : rows'[j] \in RowType,
         UNCHANGED <<nextId, erased>>
  PROVE  RecordsOK' /\ Tracked'
<1> DEFINE h == Hydrate(i, rows')
<1>1. i \in Nat /\ i <= nextId /\ i # 0
  BY Facts
<1>2. h \in ObjectType /\ h.id = i /\ h.persisted
  BY <1>1, Hydrated
<1>3. DOMAIN erased' = 1..MaxId /\ nextId' \in nextId..MaxId /\ DOMAIN rows' \subseteq 1..nextId'
  BY Facts
<1>4. obj' = [obj EXCEPT ![c] = h] /\ h.id <= nextId' /\ h.id \in DOMAIN rows'
  BY <1>1, <1>2
<1> HIDE DEF h
<1> QED BY <1>2, <1>3, <1>4, TableStep

\* A step that touches no row changes only the caller's object, to one with
\* the same row or none.
LEMMA ObjectStep ==
  ASSUME IInv, NEW c \in Coroutines, NEW o \in ObjectType, obj' = [obj EXCEPT ![c] = o],
         \/ o.id = 0 /\ ~o.persisted
         \/ o.id = obj[c].id /\ o.persisted = obj[c].persisted,
         UNCHANGED <<rows, nextId, erased>>
  PROVE  RecordsOK' /\ Tracked'
<1>1. o.id <= nextId' /\ DOMAIN erased' = 1..MaxId /\ nextId' \in nextId..MaxId /\ DOMAIN rows' \subseteq 1..nextId'
  BY Facts
<1>2. o.id # 0 /\ ~o.persisted => o.id \notin DOMAIN rows'
  BY DEF IInv, Tracked
<1>3. \A i \in DOMAIN rows' : rows'[i] \in RowType
  BY Facts
<1> QED BY <1>1, <1>2, <1>3, TableStep

\* Assign, NewObj, save(), upsert(), destroy(), reload() and the bulk
\* operations: one statement, after which the coroutine is idle again.
LEMMA StatementStep ==
  ASSUME IInv, NEW c \in Coroutines,
         \/ Assign(c) \/ NewObj(c) \/ SaveInserts(c) \/ SaveUpdates(c) \/ UpsertInserts(c) \/ UpsertUpdates(c)
         \/ Destroy(c) \/ Reload(c) \/ BulkUpdate(c) \/ BulkDestroy(c)
  PROVE  IInv'
<1> SUFFICES RecordsOK' /\ Tracked'
  <2>1. UNCHANGED <<work, pc, through, raced>>
    BY DEF Assign, NewObj, SaveInserts, SaveUpdates, UpsertInserts, UpsertUpdates, Destroy, Reload,
           BulkUpdate, BulkDestroy, relationVars
  <2> QED BY <2>1, RelationStays, AwaitsStay DEF IInv
<1>f. /\ obj \in [Coroutines -> ObjectType] /\ obj[c] \in ObjectType
      /\ obj[c].id \in Nat /\ obj[c].id <= nextId /\ obj[c].key \in Keys /\ obj[c].parent \in Parents
      /\ nextId \in Nat /\ nextId <= MaxId /\ MaxId \in Nat /\ nextId \in nextId..MaxId
      /\ DOMAIN rows \subseteq 1..nextId /\ \A i \in DOMAIN rows : rows[i] \in RowType
      /\ DOMAIN erased = 1..MaxId
  BY Facts
<1>1. CASE Assign(c)
  <2> PICK k \in Keys, p \in Parents : obj' = [obj EXCEPT ![c].key = k, ![c].parent = p]
    BY <1>1 DEF Assign
  <2> DEFINE o == [[obj[c] EXCEPT !.key = k] EXCEPT !.parent = p]
  <2>1. o \in ObjectType /\ o.id = obj[c].id /\ o.persisted = obj[c].persisted
    BY <1>f DEF ObjectType
  <2>2. obj' = [obj EXCEPT ![c] = o]
    BY <1>f DEF ObjectType
  <2> HIDE DEF o
  <2>3. UNCHANGED <<rows, nextId, erased>>
    BY <1>1 DEF Assign
  <2> QED BY <1>f, <2>1, <2>2, <2>3, ObjectStep
<1>2. CASE NewObj(c)
  <2> PICK k \in Keys : obj' = [obj EXCEPT ![c] = NewObject(k, 0)]
    BY <1>2 DEF NewObj
  <2>1. NewObject(k, 0) \in ObjectType /\ NewObject(k, 0).id = 0 /\ ~NewObject(k, 0).persisted
    BY ActiveRecordAssumption DEF NewObject, ObjectType
  <2>2. UNCHANGED <<rows, nextId, erased>>
    BY <1>2 DEF NewObj
  <2> QED BY <1>f, <2>1, <2>2, ObjectStep
<1>3. CASE SaveInserts(c) \/ UpsertInserts(c)
  BY <1>3, <1>f, InsertStep DEF SaveInserts, UpsertInserts
<1>4. CASE SaveUpdates(c)
  <2>1. /\ obj[c].id \in DOMAIN rows
        /\ rows' = [rows EXCEPT ![obj[c].id] = Row(obj[c])]
        /\ obj' = [obj EXCEPT ![c] = Hydrate(obj[c].id, rows')]
        /\ UNCHANGED <<nextId, erased>>
    BY <1>4 DEF SaveUpdates
  <2>2. Row(obj[c]) \in RowType
    BY <1>f, RowTyped
  <2>3. DOMAIN rows' = DOMAIN rows /\ \A j \in DOMAIN rows : rows'[j] \in RowType
    BY <1>f, <2>1, <2>2
  <2> QED BY <1>f, <2>1, <2>3, HydrateStep
<1>5. CASE UpsertUpdates(c)
  <2> PICK i \in WithKey(obj[c].key) : /\ rows' = [rows EXCEPT ![i] = Row(obj[c])]
                                       /\ obj' = [obj EXCEPT ![c] = Hydrate(i, rows')]
    BY <1>5 DEF UpsertUpdates
  <2>1. i \in DOMAIN rows /\ UNCHANGED <<nextId, erased>>
    BY <1>5 DEF WithKey, UpsertUpdates
  <2>2. Row(obj[c]) \in RowType
    BY <1>f, RowTyped
  <2>3. DOMAIN rows' = DOMAIN rows /\ \A j \in DOMAIN rows : rows'[j] \in RowType
    BY <1>f, <2>1, <2>2
  <2> QED BY <1>f, <2>1, <2>3, HydrateStep
<1>6. CASE Destroy(c)
  <2> DEFINE i == obj[c].id
             b == IF i \in DOMAIN rows THEN Hydrate(i, rows) ELSE obj[c]
             o == [b EXCEPT !.persisted = FALSE]
  <2>1. /\ i # 0 /\ rows' = [j \in DOMAIN rows \ {i} |-> rows[j]]
        /\ erased' = IF i \in DOMAIN rows THEN [erased EXCEPT ![i] = {c}] ELSE erased
        /\ obj' = [obj EXCEPT ![c] = o] /\ UNCHANGED nextId
    BY <1>6 DEF Destroy
  <2>2. b \in ObjectType /\ b.id = i
    BY <1>f, Hydrated
  <2> HIDE DEF b
  <2>3. o \in ObjectType /\ o.id = i /\ o.persisted = FALSE
    BY <2>2 DEF ObjectType
  <2> HIDE DEF o
  <2>4. /\ DOMAIN rows' = DOMAIN rows \ {i}
        /\ \A j \in DOMAIN rows' : rows'[j] \in RowType /\ j \in DOMAIN rows
    BY <1>f, <2>1
  <2>5. i \in 1..MaxId
    BY <1>f, <2>1
  <2>6. /\ DOMAIN erased' = 1..MaxId
        /\ \A j \in 1..MaxId : \/ erased'[j] = erased[j]
                               \/ erased'[j] = {c} /\ j \in DOMAIN rows /\ j \notin DOMAIN rows'
    <3>1. CASE i \in DOMAIN rows
      BY <1>f, <2>1, <2>4, <2>5, <3>1
    <3>2. CASE i \notin DOMAIN rows
      BY <1>f, <2>1, <3>2
    <3> QED BY <3>1, <3>2
  <2>7. o.id <= nextId' /\ DOMAIN rows' \subseteq 1..nextId' /\ o.id \notin DOMAIN rows' /\ nextId' \in nextId..MaxId
    BY <1>f, <2>1, <2>3, <2>4
  <2> QED BY <2>1, <2>3, <2>4, <2>6, <2>7, TableStep
<1>7. CASE Reload(c)
  <2> PICK i \in DOMAIN rows \cap (Parents \cup {obj[c].id}) : obj' = [obj EXCEPT ![c] = Hydrate(i, rows)]
    BY <1>7 DEF Reload
  <2>1. UNCHANGED <<rows, nextId, erased>> /\ i \in DOMAIN rows
    BY <1>7 DEF Reload
  <2> QED BY <1>f, <2>1, HydrateStep
<1>8. ASSUME obj' = obj, UNCHANGED <<nextId, erased>>, DOMAIN rows' \subseteq DOMAIN rows,
             \A i \in DOMAIN rows' : rows'[i] \in RowType
      PROVE  RecordsOK' /\ Tracked'
  <2>1. obj' = [obj EXCEPT ![c] = obj[c]]
    BY <1>f, <1>8
  <2>2. obj[c].id # 0 /\ ~obj[c].persisted => obj[c].id \notin DOMAIN rows'
    BY <1>8 DEF IInv, Tracked
  <2>3. obj[c].id <= nextId' /\ DOMAIN rows' \subseteq 1..nextId' /\ nextId' \in nextId..MaxId /\ DOMAIN erased' = 1..MaxId
    BY <1>f, <1>8
  <2> QED BY <1>f, <1>8, <2>1, <2>2, <2>3, TableStep
<1>9. CASE BulkUpdate(c)
  <2> PICK p \in Parents, q \in Parents :
        rows' = [i \in DOMAIN rows |-> IF rows[i].parent = p THEN [rows[i] EXCEPT !.parent = q] ELSE rows[i]]
    BY <1>9 DEF BulkUpdate
  <2>1. \A i \in DOMAIN rows : [rows[i] EXCEPT !.parent = q] \in RowType
    BY <1>f DEF RowType
  <2>2. DOMAIN rows' = DOMAIN rows /\ \A i \in DOMAIN rows' : rows'[i] \in RowType
    BY <1>f, <2>1
  <2>3. UNCHANGED <<obj, nextId, erased>>
    BY <1>9 DEF BulkUpdate
  <2> QED BY <1>8, <1>f, <2>2, <2>3
<1>10. CASE BulkDestroy(c)
  <2> PICK p \in Parents : rows' = [i \in {i \in DOMAIN rows : rows[i].parent # p} |-> rows[i]]
    BY <1>10 DEF BulkDestroy
  <2>1. DOMAIN rows' \subseteq DOMAIN rows /\ \A i \in DOMAIN rows' : rows'[i] \in RowType
    BY <1>f
  <2>2. UNCHANGED <<obj, nextId, erased>>
    BY <1>10 DEF BulkDestroy
  <2> QED BY <1>8, <1>f, <2>1, <2>2
<1> QED BY <1>1, <1>2, <1>3, <1>4, <1>5, <1>6, <1>7, <1>9, <1>10

\* getOneOrCreate() has found a row, or looks and finds none.
LEMMA FoundStep ==
  ASSUME IInv, NEW c \in Coroutines, NEW k, Found(c, k),
         UNCHANGED <<work, rows, nextId, erased, through, raced>>
  PROVE  IInv'
<1> PICK i \in WithKey(k) : obj' = [obj EXCEPT ![c] = Hydrate(i, rows)] /\ pc' = [pc EXCEPT ![c] = Idle]
  BY DEF Found, Return
<1>1. i \in DOMAIN rows /\ \A j \in DOMAIN rows : rows[j] \in RowType
  BY DEF WithKey, IInv, RecordsOK
<1>2. RecordsOK' /\ Tracked'
  BY <1>1, HydrateStep
<1>4. AwaitsOK(Idle)
  BY DEF AwaitsOK
<1>5. Awaits'
  BY <1>4, AwaitsNext
<1>6. RelationOK'
  BY RelationStays
<1> QED BY <1>2, <1>5, <1>6 DEF IInv

\* It goes on, returns or gives up without having touched the table.
LEMMA GoOnStep ==
  ASSUME IInv, NEW c \in Coroutines, NEW v, AwaitsOK(v), pc' = [pc EXCEPT ![c] = v],
         UNCHANGED <<work, rows, nextId, obj, erased, through, raced>>
  PROVE  IInv'
<1>1. RecordsOK' /\ Tracked'
  BY DEF IInv, RecordsOK, Tracked
<1>3. Awaits'
  BY AwaitsNext
<1>4. RelationOK'
  BY RelationStays
<1> QED BY <1>1, <1>3, <1>4 DEF IInv

\* What a coroutine that runs it awaits has two fields.
LEMMA CallFields ==
  ASSUME IInv, NEW c \in Coroutines, pc[c].at = "create"
  PROVE  [pc[c] EXCEPT !.at = "lookAgain"] = [at |-> "lookAgain", key |-> pc[c].key]
<1>1. pc[c] = [at |-> pc[c].at, key |-> pc[c].key]
  BY DEF IInv, Awaits, AwaitsOK, Idle
<1> QED BY <1>1

\* The statements of getOneOrCreate().
LEMMA GetOneOrCreateStep ==
  ASSUME IInv, NEW c \in Coroutines, GetOneOrCreate(c) \/ Create(c) \/ CreateRetry(c)
  PROVE  IInv'
<1>i. AwaitsOK(Idle)
  BY DEF AwaitsOK
<1>1. CASE GetOneOrCreate(c)
  <2>1. work = Records /\ UNCHANGED <<work, rows, nextId, erased, through, raced>>
    BY <1>1 DEF GetOneOrCreate, Works, relationVars
  <2> PICK k \in Keys : \/ Found(c, k)
                        \/ pc' = [pc EXCEPT ![c] = [at |-> "create", key |-> k]] /\ UNCHANGED obj
    BY <1>1 DEF GetOneOrCreate
  <2>2. CASE Found(c, k)
    BY <2>1, <2>2, FoundStep
  <2>3. CASE pc' = [pc EXCEPT ![c] = [at |-> "create", key |-> k]] /\ UNCHANGED obj
    <3> DEFINE v == [at |-> "create", key |-> k]
    <3>1. AwaitsOK(v)
      BY <2>1 DEF AwaitsOK
    <3>2. pc' = [pc EXCEPT ![c] = v] /\ UNCHANGED obj
      BY <2>3
    <3> HIDE DEF v
    <3> QED BY <2>1, <3>1, <3>2, GoOnStep
  <2> QED BY <2>2, <2>3
<1>2. CASE Create(c)
  <2>1. pc[c].at = "create" /\ UNCHANGED <<work, erased, through, raced>>
    BY <1>2 DEF Create, relationVars
  <2>2. work = Records /\ pc[c].key \in Keys
    <3>1. AwaitsOK(pc[c])
      BY DEF IInv, Awaits
    <3> QED BY <2>1, <3>1 DEF AwaitsOK, Idle
  <2>3. CASE Insert(c, NewObject(pc[c].key, 0)) /\ Return(c, "created")
    <3>1. NewObject(pc[c].key, 0).key \in Keys /\ NewObject(pc[c].key, 0).parent \in Parents
      BY <2>2, ActiveRecordAssumption DEF NewObject
    <3>2. RecordsOK' /\ Tracked'
      BY <2>1, <2>3, <3>1, InsertStep
    <3>3. pc' = [pc EXCEPT ![c] = Idle]
      BY <2>3 DEF Return
    <3>5. Awaits'
      BY <1>i, <2>1, <3>3, AwaitsNext
    <3>6. RelationOK'
      BY <2>1, RelationStays
    <3> QED BY <3>2, <3>5, <3>6 DEF IInv
  <2>4. CASE LookAgain(c)
    <3> DEFINE v == [pc[c] EXCEPT !.at = "lookAgain"]
    <3>1. pc' = [pc EXCEPT ![c] = v] /\ UNCHANGED <<rows, nextId, obj>>
      BY <2>4 DEF LookAgain
    <3>2. v = [at |-> "lookAgain", key |-> pc[c].key]
      BY <2>1, CallFields
    <3> HIDE DEF v
    <3>3. AwaitsOK(v)
      BY <2>2, <3>2 DEF AwaitsOK
    <3> QED BY <2>1, <3>1, <3>3, GoOnStep
  <2> QED BY <1>2, <2>3, <2>4 DEF Create
<1>3. CASE CreateRetry(c)
  <2>1. UNCHANGED <<work, rows, nextId, erased, through, raced>>
    BY <1>3 DEF CreateRetry, relationVars
  <2>2. CASE Found(c, pc[c].key)
    BY <2>1, <2>2, FoundStep
  <2>3. CASE Return(c, "threw") /\ UNCHANGED obj
    BY <1>i, <2>1, <2>3, GoOnStep DEF Return
  <2> QED BY <1>3, <2>2, <2>3 DEF CreateRetry
<1> QED BY <1>1, <1>2, <1>3

-----------------------------------------------------------------------------
\* A pair and its mirror image.
LEMMA Mirrored ==
  ASSUME NEW x, NEW y
  PROVE  /\ <<x, y>>[1] = x /\ <<x, y>>[2] = y
         /\ Mirror(<<x, y>>) = <<y, x>> /\ Mirror(Mirror(<<x, y>>)) = <<x, y>>
         /\ x # y => Mirror(<<x, y>>) # <<x, y>>
  BY DEF Mirror

\* The rows of the through table are such pairs.
LEMMA RowIsPair ==
  ASSUME IInv, NEW t \in DOMAIN through
  PROVE  \E x, y \in Things : t = <<x, y>>
  BY DEF IInv, RelationOK

\* What a step on the through table must see to: it stores pairs, and the rule
\* of the mode holds again.
LEMMA ThroughStep ==
  ASSUME IInv, work # Records, UNCHANGED <<work, recordVars>>, Awaits',
         DOMAIN through' \subseteq Things \X Things,
         work.mode = "DOUBLE_ROW" =>
           \A t \in DOMAIN through' : Mirror(t) \in DOMAIN through' /\ through'[Mirror(t)] = through'[t],
         work.mode = "DB_DOUBLE_ROW" => \A t \in DOMAIN through' : Mirror(t) \in DOMAIN through',
         work.mode = "DB_SINGLE_ROW" => \A t \in DOMAIN through' : t[1] <= t[2],
         work.mode = "SINGLE_ROW" =>
           raced' \/ \A t \in DOMAIN through' : t[1] = t[2] \/ Mirror(t) \notin DOMAIN through'
  PROVE  IInv'
<1>1. RelationOK'
  BY DEF IInv, RelationOK, Mirror
<1>2. (RecordsOK /\ Tracked)'
  BY RecordsStay
<1> QED BY <1>1, <1>2 DEF IInv

\* Rows ts are stored, those that are there with their data or with new.
LEMMA StoreStep ==
  ASSUME IInv, work # Records, UNCHANGED <<work, recordVars, pc, raced>>, work.mode # "SINGLE_ROW",
         NEW ts \in SUBSET (Things \X Things), NEW d, AddRows(ts, d) \/ SetRows(ts, d),
         work.mode = "DOUBLE_ROW" => \A t \in ts : Mirror(t) \in ts,
         work.mode = "DB_SINGLE_ROW" => \A t \in ts : t[1] <= t[2]
  PROVE  IInv'
<1> DEFINE S == Stored(ts)
<1>0. Awaits'
  BY AwaitsStay
<1>1. /\ DOMAIN through' = DOMAIN through \cup S
      /\ \/ \A t \in DOMAIN through' : through'[t] = IF t \in DOMAIN through THEN through[t] ELSE d
         \/ \A t \in DOMAIN through' : through'[t] = IF t \in S THEN d ELSE through[t]
  BY DEF AddRows, SetRows
<1>2. \A t \in Things \X Things : Mirror(t) \in Things \X Things /\ Mirror(Mirror(t)) = t
  BY DEF Mirror
<1>3. S \in SUBSET (Things \X Things) /\ (work.mode # "DB_DOUBLE_ROW" => S = ts)
  BY <1>2 DEF Stored
<1>4. work.mode = "DB_DOUBLE_ROW" => \A t \in S : Mirror(t) \in S
  BY <1>2 DEF Stored
<1> HIDE DEF S
<1>5. DOMAIN through' \subseteq Things \X Things
  BY <1>1, <1>3 DEF IInv, RelationOK
<1>6. ASSUME work.mode = "DOUBLE_ROW", NEW t \in DOMAIN through'
      PROVE  Mirror(t) \in DOMAIN through' /\ through'[Mirror(t)] = through'[t]
  <2>1. t \in DOMAIN through => Mirror(t) \in DOMAIN through /\ through[Mirror(t)] = through[t]
    BY <1>6 DEF IInv, RelationOK
  <2>2. Mirror(t) \in DOMAIN through => t \in DOMAIN through
    <3>1. Mirror(Mirror(t)) = t
      BY <1>2, <1>5
    <3> QED BY <1>6, <3>1 DEF IInv, RelationOK
  <2>3. t \in S <=> Mirror(t) \in S
    <3>1. Mirror(Mirror(t)) = t
      BY <1>2, <1>5
    <3> QED BY <1>3, <1>6, <3>1
  <2> QED BY <1>1, <2>1, <2>2, <2>3
<1>7. work.mode = "DB_DOUBLE_ROW" => \A t \in DOMAIN through' : Mirror(t) \in DOMAIN through'
  BY <1>1, <1>4 DEF IInv, RelationOK
<1>8. work.mode = "DB_SINGLE_ROW" => \A t \in DOMAIN through' : t[1] <= t[2]
  BY <1>1, <1>3 DEF IInv, RelationOK
<1> QED BY <1>0, <1>5, <1>6, <1>7, <1>8, ThroughStep

\* Two keys in order.
LEMMA OrderedPair ==
  ASSUME NEW x \in Things, NEW y \in Things
  PROVE  Ordered(<<x, y>>) \in {<<x, y>>, <<y, x>>} /\ Ordered(<<x, y>>)[1] <= Ordered(<<x, y>>)[2]
<1>1. x \in Nat /\ y \in Nat
  BY ActiveRecordAssumption
<1>2. CASE x < y
  <2>1. x <= y
    BY <1>1, <1>2
  <2>2. Ordered(<<x, y>>) = <<x, y>>
    BY <1>2, Mirrored DEF Ordered
  <2> QED BY <2>1, <2>2, Mirrored
<1>3. CASE ~(x < y)
  <2>1. y <= x
    BY <1>1, <1>3
  <2>2. Ordered(<<x, y>>) = <<y, x>>
    BY <1>3, Mirrored DEF Ordered
  <2> QED BY <2>1, <2>2, Mirrored
<1> QED BY <1>2, <1>3

\* addRelation() and upsertRelationThrough() in one statement.
LEMMA AddStep ==
  ASSUME IInv, NEW c \in Coroutines, AddRelation(c) \/ UpsertRelationThrough(c)
  PROVE  IInv'
<1>1. CASE AddRelation(c)
  <2>1. work # Records /\ work.mode # "SINGLE_ROW" /\ UNCHANGED <<work, recordVars, pc, raced>>
    BY <1>1 DEF AddRelation, Relates
  <2> PICK x \in Things, y \in Things, side \in {"A", "B"} : AddRows(RowsToAdd(x, y, side), 0)
    BY <1>1 DEF AddRelation
  <2> DEFINE ts == RowsToAdd(x, y, side)
  <2>2. work.mode = "DOUBLE_ROW" => ts = {<<x, y>>, <<y, x>>}
    BY DEF RowsToAdd
  <2>3. ASSUME work.mode = "DB_SINGLE_ROW" PROVE ts = {Ordered(<<x, y>>)}
    <3>1. RowToAdd(x, y, side) = Ordered(<<x, y>>)
      BY <2>3 DEF RowToAdd
    <3> QED BY <2>3, <3>1 DEF RowsToAdd
  <2>4. ts \in SUBSET {<<x, y>>, <<y, x>>}
    <3>1. RowToAdd(x, y, side) \in {<<x, y>>, <<y, x>>}
      BY OrderedPair DEF RowToAdd
    <3> QED BY <3>1 DEF RowsToAdd
  <2> HIDE DEF ts
  <2>5. ts \in SUBSET (Things \X Things)
    BY <2>4
  <2>6. work.mode = "DOUBLE_ROW" => \A t \in ts : Mirror(t) \in ts
    BY <2>2, Mirrored
  <2>7. work.mode = "DB_SINGLE_ROW" => \A t \in ts : t[1] <= t[2]
    BY <2>3, OrderedPair
  <2> QED BY <2>1, <2>5, <2>6, <2>7, StoreStep DEF ts
<1>2. CASE UpsertRelationThrough(c)
  <2>1. work # Records /\ work.mode # "SINGLE_ROW" /\ UNCHANGED <<work, recordVars, pc, raced>>
    BY <1>2 DEF UpsertRelationThrough, Relates
  <2> PICK x \in Things, y \in Things, d \in {0, 1} : SetRows(RowsToUpsert(<<x, y>>), d)
    BY <1>2 DEF UpsertRelationThrough
  <2> DEFINE ts == RowsToUpsert(<<x, y>>)
  <2>2. work.mode = "DOUBLE_ROW" => ts = {<<x, y>>, <<y, x>>}
    BY Mirrored DEF RowsToUpsert
  <2>3. work.mode = "DB_SINGLE_ROW" => ts = {Ordered(<<x, y>>)}
    BY DEF RowsToUpsert
  <2>4. ts \in SUBSET {<<x, y>>, <<y, x>>}
    BY OrderedPair, Mirrored DEF RowsToUpsert
  <2> HIDE DEF ts
  <2>5. ts \in SUBSET (Things \X Things)
    BY <2>4
  <2>6. work.mode = "DOUBLE_ROW" => \A t \in ts : Mirror(t) \in ts
    BY <2>2, Mirrored
  <2>7. work.mode = "DB_SINGLE_ROW" => \A t \in ts : t[1] <= t[2]
    BY <2>3, OrderedPair
  <2> QED BY <2>1, <2>5, <2>6, <2>7, StoreStep DEF ts
<1> QED BY <1>1, <1>2

\* addRelation() and upsertRelationThrough() with SINGLE_ROW: exists() ...
LEMMA ExistsStep ==
  ASSUME IInv, NEW c \in Coroutines, AddRelationExists(c) \/ ThroughExists(c)
  PROVE  IInv'
<1>1. /\ work # Records /\ work.mode = "SINGLE_ROW"
      /\ UNCHANGED <<work, rows, nextId, obj, result, erased, through, raced>>
  BY DEF AddRelationExists, ThroughExists, Relates, recordVars
<1>2. \E v : AwaitsOK(v) /\ pc' = [pc EXCEPT ![c] = v]
  <2>1. CASE AddRelationExists(c)
    <3> PICK x \in Things, y \in Things :
          pc' = [pc EXCEPT ![c] = [at |-> "add", row |-> RowToAdd(x, y, "A"), seen |-> {}]]
      BY <2>1 DEF AddRelationExists
    <3> DEFINE v == [at |-> "add", row |-> RowToAdd(x, y, "A"), seen |-> {}]
    <3>1. RowToAdd(x, y, "A") \in {<<x, y>>, <<y, x>>}
      BY <1>1, OrderedPair DEF RowToAdd
    <3>2. v.at = "add" /\ v.row = RowToAdd(x, y, "A") /\ v.seen = {}
      OBVIOUS
    <3>3. AwaitsOK(v)
      <4>1. \E a, b \in Things : RowToAdd(x, y, "A") = <<a, b>>
        BY <3>1
      <4> HIDE DEF v
      <4> QED BY <1>1, <3>2, <4>1 DEF AwaitsOK
    <3> QED BY <3>3
  <2>2. CASE ThroughExists(c)
    <3> PICK x \in Things, y \in Things, d \in {0, 1} :
          pc' = [pc EXCEPT ![c] = [at |-> "upsert", row |-> OrderInUse(<<x, y>>), data |-> d,
                                   seen |-> Either(<<x, y>>)]]
      BY <2>2 DEF ThroughExists
    <3> DEFINE t == <<x, y>>
               w == OrderInUse(t)
               v == [at |-> "upsert", row |-> w, data |-> d, seen |-> Either(t)]
    <3>1. v.at = "upsert" /\ v.row = w /\ v.seen = Either(t)
      OBVIOUS
    <3>2. Either(t) = {<<x, y>>, <<y, x>>} \cap DOMAIN through
      BY Mirrored DEF Either
    <3>3. w = IF <<y, x>> \in DOMAIN through THEN <<y, x>> ELSE <<x, y>>
      BY Mirrored DEF OrderInUse
    <3>4. {w, Mirror(w)} = {<<x, y>>, <<y, x>>}
      <4> HIDE DEF w
      <4> QED BY <3>3, Mirrored
    <3>5. pc' = [pc EXCEPT ![c] = v]
      OBVIOUS
    <3> HIDE DEF v, w
    <3>6. Either(t) \subseteq {w, Mirror(w)} /\ (Either(t) # {} => w \in Either(t))
      BY <3>2, <3>3, <3>4
    <3>7. \E a, b \in Things : w = <<a, b>>
      BY <3>3
    <3> HIDE DEF t
    <3>8. AwaitsOK(v)
      BY <1>1, <3>1, <3>6, <3>7 DEF AwaitsOK
    <3> QED BY <3>5, <3>8
  <2> QED BY <2>1, <2>2
<1> PICK v : AwaitsOK(v) /\ pc' = [pc EXCEPT ![c] = v]
  BY <1>2
<1> QED BY <1>1, GoOnStep

\* ... and the statement that follows: if nothing has happened to the pair
\* since, the row that is stored is not the mirror image of another.
LEMMA UpsertStep ==
  ASSUME IInv, NEW c \in Coroutines, AddRelationUpsert(c) \/ ThroughUpsert(c)
  PROVE  IInv'
<1> DEFINE w == pc[c].row
<1>1. /\ pc[c].at \in {"add", "upsert"}
      /\ pc' = [pc EXCEPT ![c] = Idle]
      /\ raced' = (raced \/ Either(w) # pc[c].seen)
      /\ UNCHANGED <<work, recordVars>>
  BY DEF AddRelationUpsert, ThroughUpsert
<1>2. /\ work # Records /\ work.mode = "SINGLE_ROW"
      /\ \E x, y \in Things : w = <<x, y>>
      /\ pc[c].seen \subseteq {w, Mirror(w)} /\ (pc[c].seen # {} => w \in pc[c].seen)
  <2>1. AwaitsOK(pc[c])
    BY DEF IInv, Awaits
  <2> QED BY <1>1, <2>1 DEF AwaitsOK, Idle
<1>3. DOMAIN through' = DOMAIN through \cup {w}
  BY <1>2 DEF AddRelationUpsert, ThroughUpsert, AddRows, SetRows, Stored
<1> PICK x \in Things, y \in Things : w = <<x, y>>
  BY <1>2
<1> HIDE DEF w
<1>4. DOMAIN through' \subseteq Things \X Things
  BY <1>3 DEF IInv, RelationOK
<1>5. ASSUME ~raced', NEW t \in DOMAIN through', t[1] # t[2] PROVE Mirror(t) \notin DOMAIN through'
  <2>1. ~raced /\ Either(w) = pc[c].seen
    BY <1>1, <1>5
  <2>2. \A u \in DOMAIN through : u[1] = u[2] \/ Mirror(u) \notin DOMAIN through
    BY <1>2, <2>1 DEF IInv, RelationOK
  <2>3. w[1] # w[2] => Mirror(w) # w
    BY Mirrored
  <2>4. w[1] # w[2] => Mirror(w) \notin DOMAIN through
    <3> SUFFICES ASSUME w[1] # w[2], Mirror(w) \in DOMAIN through PROVE FALSE
      OBVIOUS
    <3>1. Mirror(w) \in pc[c].seen
      BY <2>1 DEF Either
    <3>2. w \in Either(w)
      BY <1>2, <2>1, <3>1
    <3>3. w \in DOMAIN through
      BY <3>2 DEF Either
    <3> QED BY <2>2, <3>3
  <2>5. CASE t = w
    BY <1>3, <1>5, <2>3, <2>4, <2>5
  <2>6. CASE t \in DOMAIN through /\ t # w
    <3>1. Mirror(t) # w
      <4> PICK a \in Things, b \in Things : t = <<a, b>>
        BY <2>6, RowIsPair
      <4>1. Mirror(Mirror(t)) = t /\ Mirror(t) = <<b, a>> /\ a # b
        BY <1>5, Mirrored
      <4>2. w = Mirror(t) => w[1] # w[2]
        BY <4>1, Mirrored
      <4> QED BY <2>4, <2>6, <4>1, <4>2
    <3> QED BY <1>3, <1>5, <2>2, <2>6, <3>1
  <2> QED BY <1>3, <2>5, <2>6
<1>6. Awaits'
  <2>1. AwaitsOK(Idle)
    BY DEF AwaitsOK
  <2> QED BY <1>1, <2>1, AwaitsNext
<1> QED BY <1>1, <1>2, <1>4, <1>5, <1>6, ThroughStep

\* removeRelation().
LEMMA RemoveStep == ASSUME IInv, NEW c \in Coroutines, RemoveRelation(c) PROVE IInv'
<1>1. work # Records /\ UNCHANGED <<work, recordVars, pc, raced>>
  BY DEF RemoveRelation, Relates
<1> PICK x \in Things, y \in Things, side \in {"A", "B"} :
      through' = [t \in DOMAIN through \ RowsToRemove(x, y, side) |-> through[t]]
  BY DEF RemoveRelation
<1> DEFINE R == RowsToRemove(x, y, side)
<1>2. DOMAIN through' = DOMAIN through \ R /\ \A t \in DOMAIN through' : through'[t] = through[t]
  OBVIOUS
<1>3. ASSUME work.mode \in {"DOUBLE_ROW", "DB_DOUBLE_ROW"} PROVE R = {<<x, y>>, <<y, x>>}
  BY <1>3, Mirrored DEF RowsToRemove, Stored
<1> HIDE DEF R
<1>4. DOMAIN through' \subseteq Things \X Things
  BY <1>2 DEF IInv, RelationOK
<1>5. ASSUME work.mode \in {"DOUBLE_ROW", "DB_DOUBLE_ROW"}, NEW t \in DOMAIN through'
      PROVE  Mirror(t) \in DOMAIN through'
  <2>1. Mirror(t) \in DOMAIN through
    BY <1>1, <1>2, <1>5 DEF IInv, RelationOK
  <2>2. Mirror(t) \notin R
    <3>1. Mirror(Mirror(t)) = t
      <4> PICK a \in Things, b \in Things : t = <<a, b>>
        BY <1>2, RowIsPair
      <4> QED BY Mirrored
    <3> QED BY <1>2, <1>3, <1>5, <3>1, Mirrored
  <2> QED BY <1>2, <2>1, <2>2
<1>6. work.mode = "DOUBLE_ROW" =>
        \A t \in DOMAIN through' : Mirror(t) \in DOMAIN through' /\ through'[Mirror(t)] = through'[t]
  BY <1>1, <1>2, <1>5 DEF IInv, RelationOK
<1>7. work.mode = "DB_SINGLE_ROW" => \A t \in DOMAIN through' : t[1] <= t[2]
  BY <1>1, <1>2 DEF IInv, RelationOK
<1>8. work.mode = "SINGLE_ROW" =>
        raced' \/ \A t \in DOMAIN through' : t[1] = t[2] \/ Mirror(t) \notin DOMAIN through'
  BY <1>1, <1>2 DEF IInv, RelationOK
<1>9. Awaits'
  BY <1>1, AwaitsStay
<1> QED BY <1>1, <1>4, <1>5, <1>6, <1>7, <1>8, <1>9, ThroughStep

\* Every statement keeps the invariant, and so does one that fails.
LEMMA Step == ASSUME IInv, [Next]_vars PROVE IInv'
<1>1. CASE UNCHANGED vars
  <2>1. UNCHANGED <<work, pc, recordVars, through, raced>>
    BY <1>1 DEF vars, recordVars
  <2> QED BY <2>1, RecordsStay, AwaitsStay, RelationStays DEF IInv
<1>2. ASSUME NEW c \in Coroutines, StatementFails(c) PROVE IInv'
  <2>1. AwaitsOK(Idle)
    BY DEF AwaitsOK
  <2>2. pc' = [pc EXCEPT ![c] = Idle] /\ UNCHANGED <<work, rows, nextId, obj, result, erased, through, raced>>
    BY <1>2 DEF StatementFails, recordVars
  <2> QED BY <2>1, <2>2, GoOnStep
<1> QED
  BY <1>1, <1>2, StatementStep, GetOneOrCreateStep, AddStep, ExistsStep, UpsertStep, RemoveStep DEF Next

\* The invariant holds throughout.
LEMMA Invariance == Spec => []IInv
<1>1. IInv /\ [Next]_vars => IInv'
  BY Step
<1> QED BY <1>1, InitHolds, PTL DEF Spec

-----------------------------------------------------------------------------
(* What getOneOrCreate() reports                                             *)

\* While it runs, the ghost tells whether the row is there; the second look
\* comes after the row has come.
Settled ==
  /\ result = [d \in Coroutines |-> result[d]] /\ DOMAIN pc = Coroutines
  /\ \A c \in Coroutines :
       /\ watched[c] \in {"absent", "came", "gone"}
       /\ result[c] = "threw" => watched[c] = "gone" /\ ~Watching(c)
       /\ Watching(c) => (watched[c] = "came" <=> WithKey(pc[c].key) # {})
       /\ pc[c].at = "lookAgain" => watched[c] # "absent"

\* What a step means for a coroutine: it is somebody else's, the look that finds
\* nothing, the insert that finds the key taken, an end, or the second look that
\* finds nothing.
Moved(c) ==
  \/ UNCHANGED <<pc[c], result[c]>>
  \/ ~Watching(c) /\ ~Watching(c)' /\ UNCHANGED result[c]
  \/ ~Watching(c) /\ pc'[c].at = "create" /\ WithKey(pc'[c].key) = {} /\ UNCHANGED rows /\ result'[c] # "threw"
  \/ /\ pc[c].at = "create" /\ pc'[c].at = "lookAgain" /\ pc'[c].key = pc[c].key
     /\ WithKey(pc[c].key) # {} /\ UNCHANGED <<rows, result[c]>>
  \/ pc'[c] = Idle /\ result'[c] # "threw"
  \/ pc'[c] = Idle /\ UNCHANGED result[c]
  \/ pc[c].at = "lookAgain" /\ WithKey(pc[c].key) = {} /\ UNCHANGED rows /\ pc'[c] = Idle

\* Every step is one of these for everybody.
LEMMA Moves ==
  ASSUME IInv, Settled, Next
  PROVE  result' = [d \in Coroutines |-> result'[d]] /\ DOMAIN pc' = Coroutines /\ \A d \in Coroutines : Moved(d)
<1> PICK c \in Coroutines :
      \/ Assign(c) \/ NewObj(c) \/ SaveInserts(c) \/ SaveUpdates(c) \/ UpsertInserts(c) \/ UpsertUpdates(c)
      \/ Destroy(c) \/ Reload(c) \/ BulkUpdate(c) \/ BulkDestroy(c)
      \/ GetOneOrCreate(c) \/ Create(c) \/ CreateRetry(c)
      \/ AddRelation(c) \/ AddRelationExists(c) \/ AddRelationUpsert(c) \/ UpsertRelationThrough(c)
      \/ ThroughExists(c) \/ ThroughUpsert(c) \/ RemoveRelation(c) \/ StatementFails(c)
  BY DEF Next
<1>d. result = [d \in Coroutines |-> result[d]] /\ DOMAIN pc = Coroutines
  BY DEF Settled
<1>0. ASSUME UNCHANGED <<pc, result>>
      PROVE  result' = [d \in Coroutines |-> result'[d]] /\ DOMAIN pc' = Coroutines /\ \A d \in Coroutines : Moved(d)
  BY <1>0, <1>d DEF Moved
<1>1. ASSUME NEW v, NEW r, pc' = [pc EXCEPT ![c] = v], result' = [result EXCEPT ![c] = r],
             pc'[c] = v => (result'[c] = r => Moved(c))
      PROVE  result' = [d \in Coroutines |-> result'[d]] /\ DOMAIN pc' = Coroutines /\ \A d \in Coroutines : Moved(d)
  <2>1. result' = [d \in Coroutines |-> result'[d]] /\ DOMAIN pc' = Coroutines /\ pc'[c] = v /\ result'[c] = r
    BY <1>1, <1>d
  <2>2. \A d \in Coroutines \ {c} : UNCHANGED <<pc[d], result[d]>>
    BY <1>1, <1>d
  <2>3. \A d \in Coroutines \ {c} : Moved(d)
    BY <2>2 DEF Moved
  <2> QED BY <1>1, <2>1, <2>3
<1>2. ASSUME NEW v, pc' = [pc EXCEPT ![c] = v], UNCHANGED result, pc'[c] = v => Moved(c)
      PROVE  result' = [d \in Coroutines |-> result'[d]] /\ DOMAIN pc' = Coroutines /\ \A d \in Coroutines : Moved(d)
  <2>1. result' = [result EXCEPT ![c] = result[c]]
    BY <1>2, <1>d
  <2> QED BY <1>1, <1>2, <2>1
<1>3. CASE \/ Assign(c) \/ NewObj(c) \/ SaveInserts(c) \/ SaveUpdates(c) \/ UpsertInserts(c) \/ UpsertUpdates(c)
           \/ Destroy(c) \/ Reload(c) \/ BulkUpdate(c) \/ BulkDestroy(c)
           \/ AddRelation(c) \/ UpsertRelationThrough(c) \/ RemoveRelation(c)
  <2>1. CASE AddRelation(c) \/ UpsertRelationThrough(c) \/ RemoveRelation(c)
    <3>1. UNCHANGED <<pc, result>>
      BY <2>1 DEF AddRelation, UpsertRelationThrough, RemoveRelation, recordVars
    <3> QED BY <1>0, <3>1
  <2>2. CASE ~(AddRelation(c) \/ UpsertRelationThrough(c) \/ RemoveRelation(c))
    <3>1. UNCHANGED <<pc, result>>
      BY <1>3, <2>2 DEF Assign, NewObj, SaveInserts, SaveUpdates, UpsertInserts, UpsertUpdates, Destroy, Reload,
                        BulkUpdate, BulkDestroy
    <3> QED BY <1>0, <3>1
  <2> QED BY <2>1, <2>2
<1>4. CASE AddRelationExists(c) \/ ThroughExists(c)
  <2>1. pc[c] = Idle /\ UNCHANGED result
    BY <1>4 DEF AddRelationExists, ThroughExists, Relates, recordVars
  <2>a. \E row, data, seen : \/ pc' = [pc EXCEPT ![c] = [at |-> "add", row |-> row, seen |-> seen]]
                            \/ pc' = [pc EXCEPT ![c] = [at |-> "upsert", row |-> row, data |-> data, seen |-> seen]]
    BY <1>4 DEF AddRelationExists, ThroughExists
  <2> PICK row, data, seen : \/ pc' = [pc EXCEPT ![c] = [at |-> "add", row |-> row, seen |-> seen]]
                             \/ pc' = [pc EXCEPT ![c] = [at |-> "upsert", row |-> row, data |-> data, seen |-> seen]]
    BY <2>a
  <2>b. [at |-> "add", row |-> row, seen |-> seen].at = "add"
    OBVIOUS
  <2>c. [at |-> "upsert", row |-> row, data |-> data, seen |-> seen].at = "upsert"
    OBVIOUS
  <2> PICK v : pc' = [pc EXCEPT ![c] = v] /\ v.at \in {"add", "upsert"}
    BY <2>b, <2>c
  <2>2. pc'[c] = v => Moved(c)
    BY <2>1 DEF Moved, Watching, Idle
  <2> QED BY <1>2, <2>1, <2>2
<1>5. CASE AddRelationUpsert(c) \/ ThroughUpsert(c) \/ StatementFails(c)
  <2>1. UNCHANGED result /\ pc' = [pc EXCEPT ![c] = Idle]
    BY <1>5 DEF AddRelationUpsert, ThroughUpsert, StatementFails, recordVars
  <2>2. pc'[c] = Idle => Moved(c)
    BY <2>1 DEF Moved
  <2> QED BY <1>2, <2>1, <2>2
<1>6. ASSUME NEW r, Return(c, r), r # "threw"
      PROVE  result' = [d \in Coroutines |-> result'[d]] /\ DOMAIN pc' = Coroutines /\ \A d \in Coroutines : Moved(d)
  <2>1. pc' = [pc EXCEPT ![c] = Idle] /\ result' = [result EXCEPT ![c] = r]
    BY <1>6 DEF Return
  <2>2. pc'[c] = Idle => (result'[c] = r => Moved(c))
    BY <1>6 DEF Moved
  <2> QED BY <1>1, <2>1, <2>2
<1>7. CASE GetOneOrCreate(c)
  <2>0. pc[c] = Idle /\ UNCHANGED rows
    BY <1>7 DEF GetOneOrCreate, Works
  <2> PICK k \in Keys : \/ Found(c, k)
                        \/ /\ WithKey(k) = {} /\ pc' = [pc EXCEPT ![c] = [at |-> "create", key |-> k]]
                           /\ result' = [result EXCEPT ![c] = "none"]
    BY <1>7 DEF GetOneOrCreate
  <2>1. CASE Found(c, k)
    BY <1>6, <2>1 DEF Found
  <2>2. CASE /\ WithKey(k) = {} /\ pc' = [pc EXCEPT ![c] = [at |-> "create", key |-> k]]
             /\ result' = [result EXCEPT ![c] = "none"]
    <3>1. PICK v : v = [at |-> "create", key |-> k]
      OBVIOUS
    <3>2. v.at = "create" /\ v.key = k
      BY <3>1
    <3>3. pc'[c] = v => (result'[c] = "none" => Moved(c))
      BY <2>0, <2>2, <3>2 DEF Moved, Watching, Idle
    <3> QED BY <1>1, <2>2, <3>1, <3>3
  <2> QED BY <2>1, <2>2
<1>8. CASE Create(c)
  <2>1. CASE Return(c, "created")
    BY <1>6, <2>1
  <2>2. CASE KeyTaken(pc[c].key, {}) /\ LookAgain(c)
    <3>1. PICK v : v = [pc[c] EXCEPT !.at = "lookAgain"]
      OBVIOUS
    <3>2. pc[c].at = "create" /\ pc' = [pc EXCEPT ![c] = v] /\ UNCHANGED <<result, rows>>
      BY <1>8, <2>2, <3>1 DEF Create, LookAgain
    <3>3. v = [at |-> "lookAgain", key |-> pc[c].key]
      BY <3>1, <3>2, CallFields
    <3>4. v.at = "lookAgain" /\ v.key = pc[c].key
      BY <3>3
    <3>5. WithKey(pc[c].key) # {}
      BY <2>2 DEF KeyTaken, WithKey
    <3>6. pc'[c] = v => Moved(c)
      BY <3>2, <3>4, <3>5 DEF Moved
    <3> QED BY <1>2, <3>2, <3>6
  <2> QED BY <1>8, <2>1, <2>2 DEF Create
<1>9. CASE CreateRetry(c)
  <2>1. CASE Found(c, pc[c].key)
    BY <1>6, <2>1 DEF Found
  <2>2. CASE WithKey(pc[c].key) = {} /\ Return(c, "threw")
    <3>1. /\ pc[c].at = "lookAgain" /\ pc' = [pc EXCEPT ![c] = Idle] /\ result' = [result EXCEPT ![c] = "threw"]
          /\ UNCHANGED rows
      BY <1>9, <2>2 DEF CreateRetry, Return
    <3>2. pc'[c] = Idle => (result'[c] = "threw" => Moved(c))
      BY <2>2, <3>1 DEF Moved
    <3> QED BY <1>1, <3>1, <3>2
  <2> QED BY <1>9, <2>1, <2>2 DEF CreateRetry
<1> QED BY <1>3, <1>4, <1>5, <1>7, <1>8, <1>9

\* So a throw is reported only after the row has come and gone.
LEMMA SettledStep == ASSUME IInv, Settled, [Next]_vars PROVE Settled'
<1>1. CASE UNCHANGED vars
  BY <1>1 DEF Settled, vars, Watching, WithKey
<1>2. CASE Next
  <2>1. result' = [d \in Coroutines |-> result'[d]] /\ DOMAIN pc' = Coroutines /\ \A d \in Coroutines : Moved(d)
    BY <1>2, Moves
  <2> SUFFICES ASSUME NEW c \in Coroutines
               PROVE  /\ watched'[c] \in {"absent", "came", "gone"}
                      /\ result'[c] = "threw" => watched'[c] = "gone" /\ ~Watching(c)'
                      /\ Watching(c)' => (watched'[c] = "came" <=> WithKey(pc[c].key)' # {})
                      /\ pc'[c].at = "lookAgain" => watched'[c] # "absent"
    BY <2>1 DEF Settled
  <2>2. /\ watched[c] \in {"absent", "came", "gone"}
        /\ result[c] = "threw" => watched[c] = "gone" /\ ~Watching(c)
        /\ Watching(c) => (watched[c] = "came" <=> WithKey(pc[c].key) # {})
        /\ pc[c].at = "lookAgain" => watched[c] # "absent"
    BY DEF Settled
  <2>3. PICK there : there = {i \in DOMAIN rows' : rows'[i].key = pc[c].key}
    OBVIOUS
  <2>4. /\ Watching(c) /\ there # {} => watched'[c] = "came"
        /\ Watching(c) /\ there = {} => watched'[c] = IF watched[c] = "came" THEN "gone" ELSE watched[c]
        /\ ~Watching(c) /\ Watching(c)' => watched'[c] = "absent"
        /\ ~Watching(c) /\ ~Watching(c)' => watched'[c] = watched[c]
    BY <1>2, <2>3 DEF Next, Watch
  <2>5. pc'[c].key = pc[c].key => WithKey(pc[c].key)' = there
    BY <2>3 DEF WithKey
  <2>6. UNCHANGED rows => there = WithKey(pc[c].key)
    BY <2>3 DEF WithKey
  <2>7. UNCHANGED rows => WithKey(pc[c].key)' = WithKey(pc'[c].key)
    BY DEF WithKey
  <2>8. Watching(c) <=> pc[c].at \in {"create", "lookAgain"}
    BY DEF Watching
  <2>9. Watching(c)' <=> pc'[c].at \in {"create", "lookAgain"}
    BY DEF Watching
  <2>10. Idle.at = "idle"
    BY DEF Idle
  <2>11. Moved(c)
    BY <2>1
  <2>12. watched'[c] \in {"absent", "came", "gone"}
    BY <2>2, <2>4
  <2>13. CASE UNCHANGED <<pc[c], result[c]>>
    BY <2>2, <2>4, <2>5, <2>8, <2>9, <2>12, <2>13
  <2>14. CASE ~Watching(c) /\ ~Watching(c)' /\ UNCHANGED result[c]
    BY <2>2, <2>4, <2>9, <2>12, <2>14
  <2>15. CASE ~Watching(c) /\ pc'[c].at = "create" /\ WithKey(pc'[c].key) = {} /\ UNCHANGED rows /\ result'[c] # "threw"
    BY <2>4, <2>7, <2>9, <2>12, <2>15
  <2>16. CASE /\ pc[c].at = "create" /\ pc'[c].at = "lookAgain" /\ pc'[c].key = pc[c].key
              /\ WithKey(pc[c].key) # {} /\ UNCHANGED <<rows, result[c]>>
    BY <2>2, <2>4, <2>5, <2>6, <2>8, <2>9, <2>12, <2>16
  <2>17. CASE pc'[c] = Idle /\ result'[c] # "threw"
    BY <2>9, <2>10, <2>12, <2>17
  <2>18. CASE pc'[c] = Idle /\ UNCHANGED result[c]
    BY <2>2, <2>4, <2>9, <2>10, <2>12, <2>18
  <2>19. CASE pc[c].at = "lookAgain" /\ WithKey(pc[c].key) = {} /\ UNCHANGED rows /\ pc'[c] = Idle
    BY <2>2, <2>4, <2>6, <2>8, <2>9, <2>10, <2>12, <2>19
  <2> QED BY <2>11, <2>13, <2>14, <2>15, <2>16, <2>17, <2>18, <2>19 DEF Moved
<1> QED BY <1>1, <1>2

-----------------------------------------------------------------------------
\* However coroutines save, upsert, destroy, reload and bulk-change the rows
\* of one table, an object that is not persisted has no row, and none that is
\* lost its row to its own destroy() (persisted_ in insert(), update(),
\* upsert(), destroy() and reload() of ActiveRecord.hpp).
THEOREM PersistedIsTrue == Spec => []PersistedTracksRow
<1>1. IInv => PersistedTracksRow
  BY DEF IInv, Tracked, PersistedTracksRow
<1> QED BY <1>1, Invariance, PTL

\* However many coroutines run getOneOrCreate() at a time among saves, destroys
\* and bulk changes, one that throws was overtaken twice: its row was stored
\* after it had looked and was removed before it looked again (SelectQuery.hpp).
THEOREM ThrowsAreExplained == Spec => []ThrowsWhenOvertaken
<1>1. Init => Settled
  <2> SUFFICES ASSUME Init PROVE Settled
    OBVIOUS
  <2>1. /\ result = [d \in Coroutines |-> result[d]] /\ DOMAIN pc = Coroutines
        /\ \A c \in Coroutines : result[c] = "none" /\ pc[c] = Idle /\ watched[c] = "absent"
    BY DEF Init
  <2> QED BY <2>1 DEF Settled, Watching, Idle
<1>2. IInv /\ Settled /\ [Next]_vars => Settled'
  BY SettledStep
<1>3. Settled => ThrowsWhenOvertaken
  BY DEF Settled, ThrowsWhenOvertaken
<1> QED BY <1>1, <1>2, <1>3, Invariance, PTL DEF Spec

\* addRelation(), upsertRelationThrough() and removeRelation() keep the rule of
\* every SymmetryMode, with SINGLE_ROW until a pair changes between the two
\* statements of one of them.
THEOREM SymmetryIsKept == Spec => []SymmetryKept
<1>1. IInv => SymmetryKept
  BY DEF IInv, RelationOK, SymmetryKept
<1> QED BY <1>1, Invariance, PTL

\* manyRelated() from either end and related() and ref() give the same pairs.
THEOREM EndsDoAgree == Spec => []EndsAgree
<1>1. ASSUME IInv PROVE EndsAgree
  <2>1. ASSUME NEW i \in DOMAIN rows, NEW j \in DOMAIN rows PROVE (i \in Ref(j) <=> j \in Related(i))
    <3>1. i # 0
      BY <1>1 DEF IInv, RecordsOK
    <3> QED BY <3>1 DEF Ref, Related
  <2>2. ASSUME work # Records, NEW x \in Things, NEW y \in Things, work.mode = "NONE"
        PROVE  (y \in ManyRelated(x, "A", FALSE) <=> x \in ManyRelated(y, "B", TRUE))
    <3>1. Forward("A", FALSE) = TRUE /\ Forward("B", TRUE) = FALSE
      BY DEF Forward
    <3>2. y \in ManyRelated(x, "A", FALSE) <=> \E t \in DOMAIN through : t[1] = x /\ t[2] = y
      BY <3>1 DEF ManyRelated
    <3>3. x \in ManyRelated(y, "B", TRUE) <=> \E t \in DOMAIN through : t[2] = y /\ t[1] = x
      BY <3>1 DEF ManyRelated
    <3> QED BY <3>2, <3>3
  <2>3. ASSUME work # Records, NEW x \in Things, NEW y \in Things, work.mode \in {"DOUBLE_ROW", "DB_DOUBLE_ROW"}
        PROVE  (y \in ManyRelated(x, "A", FALSE) <=> x \in ManyRelated(y, "A", FALSE))
    <3>1. Forward("A", FALSE) = TRUE
      BY DEF Forward
    <3>2. ASSUME NEW a \in Things, NEW b \in Things
          PROVE  b \in ManyRelated(a, "A", FALSE) <=> <<a, b>> \in DOMAIN through
      <4>1. b \in ManyRelated(a, "A", FALSE) <=> \E t \in DOMAIN through : t[1] = a /\ t[2] = b
        BY <3>1 DEF ManyRelated
      <4>2. (\E t \in DOMAIN through : t[1] = a /\ t[2] = b) <=> <<a, b>> \in DOMAIN through
        BY <1>1, <2>3 DEF IInv, RelationOK
      <4> QED BY <4>1, <4>2
    <3>3. \A a, b \in Things : <<a, b>> \in DOMAIN through => <<b, a>> \in DOMAIN through
      <4>1. \A t \in DOMAIN through : Mirror(t) \in DOMAIN through
        BY <1>1, <2>3 DEF IInv, RelationOK
      <4> QED BY <4>1, Mirrored
    <3>4. y \in ManyRelated(x, "A", FALSE) <=> <<x, y>> \in DOMAIN through
      BY <3>2
    <3>5. x \in ManyRelated(y, "A", FALSE) <=> <<y, x>> \in DOMAIN through
      BY <3>2
    <3>6. <<x, y>> \in DOMAIN through <=> <<y, x>> \in DOMAIN through
      BY <3>3
    <3> QED BY <3>4, <3>5, <3>6
  <2>4. work # Records => work.mode \in Modes
    BY <1>1, ActiveRecordAssumption DEF IInv, RelationOK
  <2> QED BY <2>1, <2>2, <2>3, <2>4 DEF EndsAgree, Modes
<1> QED BY <1>1, Invariance, PTL
=============================================================================
