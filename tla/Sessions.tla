------------------------------ MODULE Sessions ------------------------------
(***************************************************************************)
(* SessionMiddleware with SessionHandle, Session and InMemorySessionStore  *)
(* (http/session/).  One store serves all worker threads; requests of any  *)
(* thread interleave at every use of it.  Each request works on a copy of  *)
(* the session that it saves as a whole.                                   *)
(*                                                                         *)
(* The data of a session are its keys and who set them, which stands for   *)
(* the value.  Definitions marked "seeded fault" are not part of the model.*)
(***************************************************************************)
EXTENDS Integers, FiniteSets

CONSTANTS
  Requests,   \* each is served once
  Ids,        \* session ids: what generateId() gives, in this order, 1..n
  Names,      \* the keys of a session
  NoRequest,
  TTL,        \* ttl_
  MaxTime     \* bound: the clock

VARIABLES
  now,      \* the clock, in units of the store's resolution
  store,    \* sessions_: a function from the ids in use to [data, at, invalid]
  given,    \* the last id generated
  handle,   \* each request: [at, id, loaded, data, dirty, invalid]
  serial,   \* ghost: the data of each id, had the requests come one by one in
            \* the order in which they used the store last
  changes,  \* ghost: how often the entry of each id was written or removed
  seen,     \* ghost: that number when a request loaded the session
  ops,      \* ghost: what a request did to its copy
  raced     \* ghost: ids whose entry somebody replaced without having seen it

vars == <<now, store, given, handle, serial, changes, seen, ops, raced>>

NoData == [k \in Names |-> NoRequest]
NewSession == [data |-> NoData, dirty |-> FALSE, invalid |-> FALSE]

Init ==
  /\ now = 0 /\ store = <<>> /\ given = 0
  /\ handle = [r \in Requests |-> [at |-> "new", id |-> 0, loaded |-> FALSE, session |-> NewSession]]
  /\ serial = [i \in Ids |-> NoData]
  /\ changes = [i \in Ids |-> 0]
  /\ seen = [r \in Requests |-> 0]
  /\ ops = [r \in Requests |-> <<>>]
  /\ raced = {}

Goto(r, at) == handle' = [handle EXCEPT ![r].at = at]
At(r, at) == handle[r].at = at

\* operator() up to next(): a cookie that sanitize() refuses counts as none.
Arrive(r) ==
  /\ At(r, "new")
  /\ \E id \in {0} \cup 1..given : handle' = [handle EXCEPT ![r].at = "handler", ![r].id = id]
  /\ UNCHANGED <<now, store, given, serial, changes, seen, ops, raced>>

-----------------------------------------------------------------------------
(* SessionHandle::get() and InMemorySessionStore::load() *)

Present(id) == id \in DOMAIN store
Expired(id) == now - store[id].at > TTL \/ store[id].invalid

GetsEmpty(r) == handle' = [handle EXCEPT ![r].at = "handler", ![r].loaded = TRUE, ![r].session = NewSession]

\* Without an id or an entry the session is a new one.
GetNew(r) ==
  /\ At(r, "handler") /\ ~handle[r].loaded
  /\ handle[r].id = 0 \/ ~Present(handle[r].id)
  /\ GetsEmpty(r)
  /\ seen' = [seen EXCEPT ![r] = IF handle[r].id = 0 THEN 0 ELSE changes[handle[r].id]]
  /\ UNCHANGED <<now, store, given, serial, changes, ops, raced>>

\* A live entry is copied; save() stores sessions that are dirty, so the copy
\* is dirty from the start.
GetStored(r) ==
  LET id == handle[r].id
  IN /\ At(r, "handler") /\ ~handle[r].loaded
     /\ id # 0 /\ Present(id) /\ ~Expired(id)
     /\ handle' = [handle EXCEPT ![r].loaded = TRUE,
                                 ![r].session = [data |-> store[id].data, dirty |-> TRUE, invalid |-> FALSE]]
     /\ seen' = [seen EXCEPT ![r] = changes[id]]
     /\ UNCHANGED <<now, store, given, serial, changes, ops, raced>>

\* An expired one is removed, after the lock has been given up and taken again.
FindExpired(r) ==
  /\ At(r, "handler") /\ ~handle[r].loaded
  /\ handle[r].id # 0 /\ Present(handle[r].id) /\ Expired(handle[r].id)
  /\ Goto(r, "expired")
  /\ seen' = [seen EXCEPT ![r] = changes[handle[r].id]]
  /\ UNCHANGED <<now, store, given, serial, changes, ops, raced>>

Overlooked(r, id) == IF changes[id] # seen[r] THEN raced \cup {id} ELSE raced
Remove(id) == [i \in DOMAIN store \ {id} |-> store[i]]
Put(id, s) == [i \in DOMAIN store \cup {id} |-> IF i = id THEN s ELSE store[i]]

EraseExpired(r) ==
  LET id == handle[r].id
  IN /\ At(r, "expired")
     /\ store' = Remove(id)
     /\ raced' = Overlooked(r, id)
     /\ serial' = [serial EXCEPT ![id] = NoData]
     /\ changes' = [changes EXCEPT ![id] = @ + 1]
     /\ seen' = [seen EXCEPT ![r] = changes[id] + 1]
     /\ GetsEmpty(r)
     /\ UNCHANGED <<now, given, ops>>

-----------------------------------------------------------------------------
(* The handler *)

Set(r) ==
  /\ At(r, "handler") /\ handle[r].loaded /\ ops[r] = <<>>
  /\ \E k \in Names :
       /\ handle' = [handle EXCEPT ![r].session.data[k] = r, ![r].session.dirty = TRUE]
       /\ ops' = [ops EXCEPT ![r] = [x \in {k} |-> r]]
  /\ UNCHANGED <<now, store, given, serial, changes, seen, raced>>

RemoveKey(r) ==
  /\ At(r, "handler") /\ handle[r].loaded /\ ops[r] = <<>>
  /\ \E k \in Names :
       /\ handle' = [handle EXCEPT ![r].session.data[k] = NoRequest, ![r].session.dirty = TRUE]
       /\ ops' = [ops EXCEPT ![r] = [x \in {k} |-> NoRequest]]
  /\ UNCHANGED <<now, store, given, serial, changes, seen, raced>>

Invalidate(r) ==
  /\ At(r, "handler") /\ handle[r].loaded
  /\ handle' = [handle EXCEPT ![r].session.invalid = TRUE]
  /\ UNCHANGED <<now, store, given, serial, changes, seen, ops, raced>>

-----------------------------------------------------------------------------
(* operator() after next() *)

\* The session was never asked for, is invalid but has no id, or is clean.
LeavesStore(r) ==
  LET h == handle[r]
  IN /\ At(r, "handler")
     /\ \/ ~h.loaded
        \/ h.session.invalid /\ h.id = 0
        \/ ~h.session.invalid /\ ~h.session.dirty
     /\ Goto(r, "done")
     /\ UNCHANGED <<now, store, given, serial, changes, seen, ops, raced>>

Destroy(r) ==
  LET id == handle[r].id
  IN /\ At(r, "handler") /\ handle[r].loaded
     /\ handle[r].session.invalid /\ id # 0
     /\ store' = Remove(id)
     /\ serial' = [serial EXCEPT ![id] = NoData]
     /\ changes' = [changes EXCEPT ![id] = @ + 1]
     /\ Goto(r, "done")
     /\ UNCHANGED <<now, given, seen, ops, raced>>

\* What a request did to its copy, done to these data.
Applied(done, data) == [k \in Names |-> IF k \in DOMAIN done THEN done[k] ELSE data[k]]

\* save(), under the id of the cookie or a new one.
Stored(r) == [data |-> handle[r].session.data, at |-> now, invalid |-> FALSE]
SaveNewOnly(r) ==  \* seeded fault
  LET h == handle[r]
      id == IF h.id = 0 THEN given + 1 ELSE h.id
  IN /\ At(r, "handler") /\ h.loaded
     /\ ~h.session.invalid /\ h.session.dirty
     /\ id \in Ids
     /\ given' = IF h.id = 0 THEN id ELSE given
     /\ store' = IF Present(id) THEN store ELSE Put(id, Stored(r))
     /\ raced' = Overlooked(r, id)
     /\ serial' = [serial EXCEPT ![id] = Applied(ops[r], @)]
     /\ changes' = [changes EXCEPT ![id] = @ + 1]
     /\ Goto(r, "done")
     /\ UNCHANGED <<now, seen, ops>>
Save(r) ==
  LET h == handle[r]
      id == IF h.id = 0 THEN given + 1 ELSE h.id
  IN /\ At(r, "handler") /\ h.loaded
     /\ ~h.session.invalid /\ h.session.dirty
     /\ id \in Ids
     /\ given' = IF h.id = 0 THEN id ELSE given
     /\ store' = Put(id, Stored(r))
     /\ raced' = Overlooked(r, id)
     /\ serial' = [serial EXCEPT ![id] = Applied(ops[r], @)]
     /\ changes' = [changes EXCEPT ![id] = @ + 1]
     /\ Goto(r, "done")
     /\ UNCHANGED <<now, seen, ops>>

Tick ==
  /\ now < MaxTime
  /\ now' = now + 1
  /\ UNCHANGED <<store, given, handle, serial, changes, seen, ops, raced>>

Next ==
  \/ \E r \in Requests :
       \/ Arrive(r) \/ GetNew(r) \/ GetStored(r) \/ FindExpired(r) \/ EraseExpired(r)
       \/ Set(r) \/ RemoveKey(r) \/ Invalidate(r)
       \/ LeavesStore(r) \/ Destroy(r) \/ Save(r)
  \/ Tick

Spec == Init /\ [][Next]_vars

-----------------------------------------------------------------------------
(* Properties *)

\* Every session in the store is what its requests would have left there one
\* by one, and one that was ended stays ended: neither the write-back of
\* sessions that were only read nor the removal of expired ones changes that.
\* The exception: an id whose entry somebody replaced or removed without having
\* seen its last change, where an update is lost or an ended session is back.
SessionsSerial ==
  \A id \in Ids \ raced : (IF Present(id) THEN store[id].data ELSE NoData) = serial[id]
=============================================================================
