----------------------------- MODULE AsyncPool ------------------------------
(***************************************************************************)
(* The bounded pool of connections (core/AsyncPool.hpp).  acquire() takes  *)
(* a free item or suspends the coroutine; release() gives the item to the  *)
(* coroutine that waits longest or puts it back.                           *)
(*                                                                         *)
(* acquire() keeps the mutex from its check until the coroutine is on the  *)
(* list of waiters, so it is one step and the second check in              *)
(* await_suspend(), under the same lock, never finds an item.  release()   *)
(* writes the slot and posts the coroutine after it has unlocked: two      *)
(* steps.  A client is whoever may hold items: a coroutine, or a job on    *)
(* the thread pool that was told to release one.                           *)
(***************************************************************************)
EXTENDS Integers, Sequences, FiniteSets

CONSTANTS
  Items,       \* what the pool was constructed with
  Clients,
  Coroutines,  \* the clients that call acquire()
  NoItem,      \* nullptr
  MaxHeld      \* bound: items a coroutine holds before it stops asking for more

VARIABLES
  available,  \* available_, used as a stack
  waiters,    \* waiters_, used as a queue
  slot,       \* AcquireAwaitable::result of each client, posted once it is set
  handing,    \* hand-overs between the unlock and the post
  holding     \* the items each client holds

vars == <<available, waiters, slot, handing, holding>>

\* What the pool takes for granted of its constants; a module that uses the
\* pool has to show it.
PoolConstants ==
  /\ IsFiniteSet(Items) /\ NoItem \notin Items
  /\ Coroutines \subseteq Clients

\* The constructor: every item is free.
Init ==
  /\ available \in {s \in [1..Cardinality(Items) -> Items] :
                      \A i, k \in DOMAIN s : s[i] = s[k] => i = k}
  /\ waiters = <<>>
  /\ slot = [c \in Clients |-> NoItem]
  /\ handing = {}
  /\ holding = [c \in Clients |-> {}]

\* A client inside acquire() or release() does nothing else.
Waiting(c) == \/ \E k \in 1..Len(waiters) : waiters[k] = c
              \/ slot[c] # NoItem
              \/ \E h \in handing : h.to = c
Busy(c) == Waiting(c) \/ \E h \in handing : h.by = c

-----------------------------------------------------------------------------
(* acquire() *)

TakeFree(i) ==
  /\ available # <<>> /\ i = available[Len(available)]
  /\ available' = SubSeq(available, 1, Len(available) - 1)
  /\ UNCHANGED <<waiters, slot, handing>>

Enlist(c) ==
  /\ available = <<>>
  /\ waiters' = Append(waiters, c)
  /\ UNCHANGED <<available, slot, handing>>

\* The posted coroutine is resumed and await_resume() returns the slot.
Posted(c) == slot[c] # NoItem
TakeGranted(c, i) ==
  /\ Posted(c) /\ i = slot[c]
  /\ slot' = [slot EXCEPT ![c] = NoItem]
  /\ UNCHANGED <<available, waiters, handing>>

MayAcquire(c) == ~Busy(c) /\ Cardinality(holding[c]) < MaxHeld

AcquireFree(c) ==
  /\ MayAcquire(c)
  /\ \E i \in Items : TakeFree(i) /\ holding' = [holding EXCEPT ![c] = @ \cup {i}]

AcquireWait(c) == MayAcquire(c) /\ Enlist(c) /\ UNCHANGED holding

AcquireResume(c) ==
  TakeGranted(c, slot[c]) /\ holding' = [holding EXCEPT ![c] = @ \cup {slot[c]}]

-----------------------------------------------------------------------------
(* release() *)

LongestWaiting == Head(waiters)
WithoutNobody == waiters  \* seeded fault
WithoutLongest == Tail(waiters)

\* Under the lock.
PutBack(c, i) ==
  \/ /\ waiters # <<>>
     /\ handing' = handing \cup {[by |-> c, item |-> i, to |-> LongestWaiting]}
     /\ waiters' = WithoutLongest
     /\ UNCHANGED <<available, slot>>
  \/ /\ waiters = <<>>
     /\ available' = Append(available, i)
     /\ UNCHANGED <<waiters, slot, handing>>

Release(c, i) ==
  /\ ~Busy(c) /\ i \in holding[c]
  /\ PutBack(c, i)
  /\ holding' = [holding EXCEPT ![c] = @ \ {i}]

\* After the unlock: the slot is written and the coroutine posted.
HandOver(h) ==
  /\ h \in handing
  /\ slot' = [slot EXCEPT ![h.to] = h.item]
  /\ handing' = handing \ {h}
  /\ UNCHANGED <<available, waiters>>

\* A coroutine may pass an item to a job, together with the duty to release it.
Pass(c, d, i) ==
  /\ ~Busy(c) /\ i \in holding[c] /\ d \notin Coroutines
  /\ holding' = [holding EXCEPT ![c] = @ \ {i}, ![d] = @ \cup {i}]
  /\ UNCHANGED <<available, waiters, slot, handing>>

-----------------------------------------------------------------------------
Next ==
  \/ \E c \in Coroutines : AcquireFree(c) \/ AcquireWait(c) \/ AcquireResume(c)
  \/ \E c \in Clients, i \in Items : Release(c, i)
  \/ \E h \in handing : HandOver(h) /\ UNCHANGED holding
  \/ \E c \in Coroutines, d \in Clients, i \in Items : Pass(c, d, i)

Spec == Init /\ [][Next]_vars

-----------------------------------------------------------------------------
(* Properties *)

\* Where an item is: free, on its way, granted or held.
Places(i) ==
  {<<"free", k>> : k \in {k \in 1..Len(available) : available[k] = i}}
    \cup {<<"handed", h>> : h \in {h \in handing : h.item = i}}
    \cup {<<"granted", c>> : c \in {c \in Clients : slot[c] = i}}
    \cup {<<"held", c>> : c \in {c \in Clients : i \in holding[c]}}

\* However acquire() and release() interleave, no item is lost and none is in
\* two places: two coroutines never get the same one.
Conservation == \A i \in Items : \E p \in Places(i) : Places(i) = {p}

\* A coroutine waits only while nothing is free: release() never puts an item
\* back past a waiter.
NoIdleItem == waiters # <<>> => available = <<>>

=============================================================================
