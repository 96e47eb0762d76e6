-------------------------- MODULE AsyncPoolProofs ---------------------------
(***************************************************************************)
(* Proofs about the pool of connections for any finite set of items and    *)
(* any clients.                                                            *)
(***************************************************************************)
EXTENDS AsyncPool, FiniteSetTheorems, SequenceTheorems, TLAPS

TypeOK ==
  /\ available \in Seq(Items)
  /\ waiters \in Seq(Coroutines)
  /\ slot \in [Clients -> Items \cup {NoItem}]
  /\ handing \in SUBSET [by : Clients, item : Items, to : Coroutines]
  /\ holding \in [Clients -> SUBSET Items]

\* Every item is somewhere, ...
Somewhere ==
  \A i \in Items :
    \/ \E k \in 1..Len(available) : available[k] = i
    \/ \E h \in handing : h.item = i
    \/ \E c \in Clients : slot[c] = i
    \/ \E c \in Clients : i \in holding[c]

\* ... at one place of its kind, ...
Once ==
  /\ \A k, n \in 1..Len(available) : available[k] = available[n] => k = n
  /\ \A g, h \in handing : g.item = h.item => g = h
  /\ \A c, d \in Clients : slot[c] = slot[d] /\ slot[c] # NoItem => c = d
  /\ \A c, d \in Clients : holding[c] \cap holding[d] # {} => c = d

\* ... and at no place of another kind.
Apart ==
  /\ \A k \in 1..Len(available) :
       /\ \A h \in handing : h.item # available[k]
       /\ \A c \in Clients : slot[c] # available[k] /\ available[k] \notin holding[c]
  /\ \A h \in handing, c \in Clients : slot[c] # h.item /\ h.item \notin holding[c]
  /\ \A c, d \in Clients : slot[c] \notin holding[d]

\* A coroutine waits in one place: on the list, for a hand-over that is under
\* way, or for its turn on the executor.  Nobody else waits.
WaitsOnce ==
  /\ \A k, n \in 1..Len(waiters) : waiters[k] = waiters[n] => k = n
  /\ \A k \in 1..Len(waiters) : slot[waiters[k]] = NoItem /\ \A h \in handing : h.to # waiters[k]
  /\ \A h \in handing : slot[h.to] = NoItem
  /\ \A g, h \in handing : g.to = h.to => g = h

IInv == TypeOK /\ Somewhere /\ Once /\ Apart /\ WaitsOnce /\ NoIdleItem

-----------------------------------------------------------------------------
\* acquire() pops the last item of available_.
LEMMA PopLast ==
  ASSUME NEW S, NEW q \in Seq(S), q # <<>>
  PROVE  /\ Len(q) \in Nat \ {0}
         /\ q[Len(q)] \in S
         /\ SubSeq(q, 1, Len(q) - 1) \in Seq(S)
         /\ Len(SubSeq(q, 1, Len(q) - 1)) = Len(q) - 1
         /\ \A k \in 1..Len(q) - 1 : SubSeq(q, 1, Len(q) - 1)[k] = q[k]
<1>1. Len(q) \in Nat \ {0} /\ q[Len(q)] \in S
  OBVIOUS
<1>2. \A k \in 1..Len(q) - 1 : q[k] \in S
  BY <1>1
<1> DEFINE n == Len(q) - 1
<1>3. n \in Nat /\ \A k \in 1..n : q[k] \in S
  BY <1>1, <1>2
<1> HIDE DEF n
<1>4. /\ SubSeq(q, 1, n) \in Seq(S)
      /\ Len(SubSeq(q, 1, n)) = IF 1 <= n THEN n - 1 + 1 ELSE 0
      /\ \A k \in 1..n - 1 + 1 : SubSeq(q, 1, n)[k] = q[1 + k - 1]
  BY <1>3, SubSeqProperties
<1>5. Len(SubSeq(q, 1, n)) = n /\ \A k \in 1..n : SubSeq(q, 1, n)[k] = q[k]
  BY <1>3, <1>4
<1> QED BY <1>1, <1>4, <1>5 DEF n

\* release() takes the first of waiters_, ...
LEMMA PopFirst ==
  ASSUME NEW S, NEW q \in Seq(S), q # <<>>
  PROVE  /\ Len(q) \in Nat \ {0}
         /\ Head(q) \in S /\ Head(q) = q[1]
         /\ Tail(q) \in Seq(S) /\ Len(Tail(q)) = Len(q) - 1
         /\ \A k \in 1..Len(q) - 1 : Tail(q)[k] = q[k + 1]
  OBVIOUS

\* ... and an item or a waiter is pushed at the back.
LEMMA PushLast ==
  ASSUME NEW S, NEW q \in Seq(S), NEW e \in S
  PROVE  /\ Append(q, e) \in Seq(S) /\ Len(Append(q, e)) = Len(q) + 1 /\ Len(q) \in Nat
         /\ \A k \in 1..Len(q) : Append(q, e)[k] = q[k]
         /\ Append(q, e)[Len(q) + 1] = e
  OBVIOUS

\* What Conservation says, kind by kind.
LEMMA PlacesCounted ==
  ASSUME TypeOK, PoolConstants, Somewhere, Once, Apart
  PROVE  Conservation
<1> SUFFICES ASSUME NEW i \in Items PROVE \E p \in Places(i) : Places(i) = {p}
  BY DEF Conservation
<1>0. i # NoItem
  BY DEF PoolConstants
<1>1. CASE \E k \in 1..Len(available) : available[k] = i
  <2> PICK k \in 1..Len(available) : available[k] = i
    BY <1>1
  <2>1. {n \in 1..Len(available) : available[n] = i} = {k}
    BY DEF Once
  <2>2. {h \in handing : h.item = i} = {} /\ {c \in Clients : slot[c] = i} = {}
        /\ {c \in Clients : i \in holding[c]} = {}
    BY DEF Apart
  <2>3. Places(i) = {<<"free", n>> : n \in {k}}
    BY <2>1, <2>2 DEF Places
  <2> QED BY <2>3
<1>2. CASE \E h \in handing : h.item = i
  <2> PICK h \in handing : h.item = i
    BY <1>2
  <2>1. {g \in handing : g.item = i} = {h}
    BY DEF Once
  <2>2. {n \in 1..Len(available) : available[n] = i} = {} /\ {c \in Clients : slot[c] = i} = {}
        /\ {c \in Clients : i \in holding[c]} = {}
    BY DEF Apart
  <2>3. Places(i) = {<<"handed", x>> : x \in {h}}
    BY <2>1, <2>2 DEF Places
  <2> QED BY <2>3
<1>3. CASE \E c \in Clients : slot[c] = i
  <2> PICK c \in Clients : slot[c] = i
    BY <1>3
  <2>1. {d \in Clients : slot[d] = i} = {c}
    BY <1>0 DEF Once
  <2>2. {n \in 1..Len(available) : available[n] = i} = {} /\ {h \in handing : h.item = i} = {}
        /\ {d \in Clients : i \in holding[d]} = {}
    BY DEF Apart
  <2>3. Places(i) = {<<"granted", x>> : x \in {c}}
    BY <2>1, <2>2 DEF Places
  <2> QED BY <2>3
<1>4. CASE \E c \in Clients : i \in holding[c]
  <2> PICK c \in Clients : i \in holding[c]
    BY <1>4
  <2>1. {d \in Clients : i \in holding[d]} = {c}
    BY DEF Once
  <2>2. {n \in 1..Len(available) : available[n] = i} = {} /\ {h \in handing : h.item = i} = {}
        /\ {d \in Clients : slot[d] = i} = {}
    BY DEF Apart
  <2>3. Places(i) = {<<"held", x>> : x \in {c}}
    BY <2>1, <2>2 DEF Places
  <2> QED BY <2>3
<1> QED BY <1>1, <1>2, <1>3, <1>4 DEF Somewhere

\* The constructor makes every item free once: an injection of 1..n into a set
\* of n items reaches all of them.
LEMMA InitHolds == ASSUME PoolConstants, Init PROVE IInv
<1>1. Cardinality(Items) \in Nat
  BY FS_CardinalityType DEF PoolConstants
<1>2. /\ available \in [1..Cardinality(Items) -> Items]
      /\ \A i, k \in 1..Cardinality(Items) : available[i] = available[k] => i = k
  BY DEF Init
<1>3. available \in Seq(Items) /\ Len(available) = Cardinality(Items)
  BY <1>1, <1>2
<1>4. \A i \in Items : \E k \in 1..Len(available) : available[k] = i
  <2>1. available \in Injection(1..Cardinality(Items), Items)
    BY <1>2 DEF Injection, IsInjective
  <2>2. Cardinality(1..Cardinality(Items)) = Cardinality(Items)
    BY <1>1, FS_Interval
  <2>3. available \in Surjection(1..Cardinality(Items), Items)
    BY <2>1, <2>2, FS_Injection DEF PoolConstants
  <2> QED BY <2>3, <1>3 DEF Surjection
<1>5. TypeOK
  BY <1>3 DEF Init, TypeOK
<1>6. Somewhere /\ Once /\ Apart
  BY <1>2, <1>3, <1>4 DEF Init, Somewhere, Once, Apart, PoolConstants
<1>7. WaitsOnce /\ NoIdleItem
  BY DEF Init, WaitsOnce, NoIdleItem
<1> QED BY <1>5, <1>6, <1>7 DEF IInv
-----------------------------------------------------------------------------
\* acquire() and await_resume(): an item goes from available_ or from the slot
\* to the caller.
LEMMA AcquireStep ==
  ASSUME PoolConstants, IInv, NEW c \in Coroutines, AcquireFree(c) \/ AcquireWait(c) \/ AcquireResume(c)
  PROVE  IInv'
<1> USE DEF PoolConstants
<1>c. c \in Clients
  OBVIOUS
<1>1. CASE AcquireFree(c)
  <2> PICK i \in Items : TakeFree(i) /\ holding' = [holding EXCEPT ![c] = @ \cup {i}]
    BY <1>1 DEF AcquireFree
  <2>1. /\ available # <<>> /\ i = available[Len(available)]
        /\ available' = SubSeq(available, 1, Len(available) - 1)
        /\ UNCHANGED <<waiters, slot, handing>>
    BY DEF TakeFree
  <2>2. /\ available' \in Seq(Items) /\ Len(available) \in Nat \ {0} /\ Len(available') = Len(available) - 1
        /\ \A k \in 1..Len(available') : available'[k] = available[k]
    BY <2>1, PopLast DEF IInv, TypeOK
  <2>3. TypeOK'
    BY <2>1, <2>2 DEF IInv, TypeOK
  <2>h. \A d \in Clients : holding'[d] = IF d = c THEN holding[c] \cup {i} ELSE holding[d]
    BY DEF IInv, TypeOK
  <2>4. Somewhere'
    <3> SUFFICES ASSUME NEW j \in Items
                 PROVE  \/ \E k \in 1..Len(available') : available'[k] = j
                        \/ \E h \in handing' : h.item = j
                        \/ \E d \in Clients : slot'[d] = j
                        \/ \E d \in Clients : j \in holding'[d]
      BY DEF Somewhere
    <3>1. CASE j = i
      BY <3>1, <2>h, <1>c
    <3>2. CASE j # i /\ \E k \in 1..Len(available) : available[k] = j
      BY <3>2, <2>1, <2>2
    <3>3. CASE \E d \in Clients : j \in holding[d]
      BY <3>3, <2>h
    <3> QED BY <3>1, <3>2, <3>3, <2>1 DEF IInv, Somewhere
  <2>5. Once'
    BY <2>1, <2>2, <1>c DEF IInv, TypeOK, Once, Apart
  <2>6. Apart'
    <3>1. \A k \in 1..Len(available') : k \in 1..Len(available) /\ available'[k] = available[k] /\ available[k] # i
      BY <2>1, <2>2 DEF IInv, Once
    <3>2. \A h \in handing : h.item # i
      BY <2>1, <2>2 DEF IInv, Apart
    <3>3. \A d \in Clients : slot[d] # i
      BY <2>1, <2>2 DEF IInv, Apart
    <3>4. \A j : \A d \in Clients : j # i => (j \in holding'[d] <=> j \in holding[d])
      BY <2>h
    <3>5. \A k \in 1..Len(available') :
            /\ \A h \in handing' : h.item # available'[k]
            /\ \A d \in Clients : slot'[d] # available'[k] /\ available'[k] \notin holding'[d]
      BY <3>1, <3>4, <2>1 DEF IInv, Apart
    <3>6. \A h \in handing', d \in Clients : slot'[d] # h.item /\ h.item \notin holding'[d]
      BY <3>2, <3>4, <2>1 DEF IInv, Apart
    <3>7. \A d, e \in Clients : slot'[d] \notin holding'[e]
      BY <3>3, <3>4, <2>1 DEF IInv, Apart
    <3> QED BY <3>5, <3>6, <3>7 DEF Apart
  <2>7. WaitsOnce' /\ NoIdleItem'
    BY <2>1 DEF IInv, WaitsOnce, NoIdleItem
  <2> QED BY <2>3, <2>4, <2>5, <2>6, <2>7 DEF IInv
<1>2. CASE AcquireWait(c)
  <2>1. /\ ~Busy(c) /\ available = <<>> /\ waiters' = Append(waiters, c)
        /\ UNCHANGED <<available, slot, handing, holding>>
    BY <1>2 DEF AcquireWait, MayAcquire, Enlist
  <2>2. /\ waiters' \in Seq(Coroutines) /\ Len(waiters') = Len(waiters) + 1 /\ Len(waiters) \in Nat
        /\ \A k \in 1..Len(waiters) : waiters'[k] = waiters[k]
        /\ waiters'[Len(waiters) + 1] = c
    BY <2>1, PushLast DEF IInv, TypeOK
  <2>3. TypeOK' /\ Somewhere' /\ Once' /\ Apart' /\ NoIdleItem'
    BY <2>1, <2>2 DEF IInv, TypeOK, Somewhere, Once, Apart, NoIdleItem
  <2>4. WaitsOnce'
    BY <2>1, <2>2, <1>c DEF IInv, TypeOK, WaitsOnce, Busy, Waiting
  <2> QED BY <2>3, <2>4 DEF IInv
<1>3. CASE AcquireResume(c)
  <2>1. /\ slot[c] # NoItem /\ slot' = [slot EXCEPT ![c] = NoItem]
        /\ holding' = [holding EXCEPT ![c] = @ \cup {slot[c]}]
        /\ UNCHANGED <<available, waiters, handing>>
    BY <1>3 DEF AcquireResume, TakeGranted, Posted
  <2>2. slot[c] \in Items
    BY <2>1, <1>c DEF IInv, TypeOK
  <2>3. TypeOK'
    BY <2>1, <2>2 DEF IInv, TypeOK
  <2>4. Somewhere'
    BY <2>1, <2>2, <1>c DEF IInv, TypeOK, Somewhere
  <2>5. Once'
    BY <2>1, <2>2, <1>c DEF IInv, TypeOK, Once, Apart
  <2>6. Apart'
    BY <2>1, <2>2, <1>c DEF IInv, TypeOK, Once, Apart
  <2>7. WaitsOnce' /\ NoIdleItem'
    BY <2>1, <1>c DEF IInv, TypeOK, WaitsOnce, NoIdleItem
  <2> QED BY <2>3, <2>4, <2>5, <2>6, <2>7 DEF IInv
<1> QED BY <1>1, <1>2, <1>3

\* release(): the item goes to the coroutine that waits longest or back to
\* available_; the hand-over is finished after the unlock.
LEMMA ReleaseStep ==
  ASSUME PoolConstants, IInv, NEW c \in Clients, NEW i \in Items, Release(c, i)
  PROVE  IInv'
<1> USE DEF PoolConstants
<1>1. /\ ~Busy(c) /\ i \in holding[c] /\ PutBack(c, i)
      /\ holding' = [holding EXCEPT ![c] = @ \ {i}]
  BY DEF Release
<1>2. CASE waiters # <<>>
  <2> DEFINE w == Head(waiters)
             g == [by |-> c, item |-> i, to |-> w]
  <2>1. handing' = handing \cup {g} /\ waiters' = Tail(waiters) /\ UNCHANGED <<available, slot>>
    BY <1>1, <1>2 DEF PutBack, LongestWaiting, WithoutLongest
  <2>2. /\ Len(waiters) \in Nat \ {0} /\ w \in Coroutines /\ w = waiters[1]
        /\ waiters' \in Seq(Coroutines) /\ Len(waiters') = Len(waiters) - 1
        /\ \A k \in 1..Len(waiters) - 1 : waiters'[k] = waiters[k + 1]
    BY <2>1, <1>2, PopFirst DEF IInv, TypeOK
  <2>3. g \in [by : Clients, item : Items, to : Coroutines] /\ g.item = i /\ g.to = w
    BY <2>2
  <2> HIDE DEF w, g
  <2>4. TypeOK'
    BY <2>1, <2>2, <2>3, <1>1 DEF IInv, TypeOK
  <2>5. Somewhere'
    BY <2>1, <2>3, <1>1 DEF IInv, TypeOK, Somewhere
  <2>6. Once'
    BY <2>1, <2>3, <1>1 DEF IInv, TypeOK, Once, Apart
  <2>7. Apart'
    BY <2>1, <2>3, <1>1 DEF IInv, TypeOK, Once, Apart
  <2>8. WaitsOnce'
    BY <2>1, <2>2, <2>3 DEF IInv, TypeOK, WaitsOnce
  <2>9. NoIdleItem'
    BY <2>1, <1>2 DEF IInv, NoIdleItem
  <2> QED BY <2>4, <2>5, <2>6, <2>7, <2>8, <2>9 DEF IInv
<1>3. CASE waiters = <<>>
  <2>1. available' = Append(available, i) /\ UNCHANGED <<waiters, slot, handing>>
    BY <1>1, <1>3 DEF PutBack
  <2>2. /\ available' \in Seq(Items) /\ Len(available') = Len(available) + 1 /\ Len(available) \in Nat
        /\ \A k \in 1..Len(available) : available'[k] = available[k]
        /\ available'[Len(available) + 1] = i
    BY <2>1, PushLast DEF IInv, TypeOK
  <2>3. TypeOK'
    BY <2>1, <2>2, <1>1 DEF IInv, TypeOK
  <2>4. Somewhere'
    <3> SUFFICES ASSUME NEW j \in Items
                 PROVE  \/ \E k \in 1..Len(available') : available'[k] = j
                        \/ \E h \in handing' : h.item = j
                        \/ \E d \in Clients : slot'[d] = j
                        \/ \E d \in Clients : j \in holding'[d]
      BY DEF Somewhere
    <3>1. CASE j = i
      BY <3>1, <2>2
    <3>2. CASE j # i
      BY <3>2, <2>1, <2>2, <1>1 DEF IInv, TypeOK, Somewhere
    <3> QED BY <3>1, <3>2
  <2>5. Once'
    BY <2>1, <2>2, <1>1 DEF IInv, TypeOK, Once, Apart
  <2>6. Apart'
    BY <2>1, <2>2, <1>1 DEF IInv, TypeOK, Once, Apart
  <2>7. WaitsOnce' /\ NoIdleItem'
    BY <2>1, <1>3 DEF IInv, WaitsOnce, NoIdleItem
  <2> QED BY <2>3, <2>4, <2>5, <2>6, <2>7 DEF IInv
<1> QED BY <1>2, <1>3

\* release() posts the waiter it has taken from the list.
LEMMA HandOverStep ==
  ASSUME PoolConstants, IInv, NEW h \in handing, HandOver(h), UNCHANGED holding
  PROVE  IInv'
<1> USE DEF PoolConstants
<1>1. /\ slot' = [slot EXCEPT ![h.to] = h.item] /\ handing' = handing \ {h}
      /\ UNCHANGED <<available, waiters, holding>>
  BY DEF HandOver
<1>2. h.to \in Coroutines /\ h.to \in Clients /\ h.item \in Items /\ slot[h.to] = NoItem
  BY DEF IInv, TypeOK, WaitsOnce
<1>3. TypeOK'
  BY <1>1, <1>2 DEF IInv, TypeOK
<1>4. Somewhere'
  BY <1>1, <1>2 DEF IInv, TypeOK, Somewhere
<1>5. Once'
  BY <1>1, <1>2 DEF IInv, TypeOK, Once, Apart
<1>6. Apart'
  BY <1>1, <1>2 DEF IInv, TypeOK, Once, Apart
<1>7. WaitsOnce' /\ NoIdleItem'
  BY <1>1, <1>2 DEF IInv, TypeOK, WaitsOnce, NoIdleItem
<1> QED BY <1>3, <1>4, <1>5, <1>6, <1>7 DEF IInv

\* A client passes an item it holds on to another.
LEMMA PassStep ==
  ASSUME PoolConstants, IInv, NEW c \in Coroutines, NEW d \in Clients, NEW i \in Items, Pass(c, d, i)
  PROVE  IInv'
<1> USE DEF PoolConstants
<1>1. /\ i \in holding[c] /\ c # d /\ c \in Clients
      /\ holding' = [holding EXCEPT ![c] = @ \ {i}, ![d] = @ \cup {i}]
      /\ UNCHANGED <<available, waiters, slot, handing>>
  BY DEF Pass
<1>2. TypeOK' /\ WaitsOnce' /\ NoIdleItem'
  BY <1>1 DEF IInv, TypeOK, WaitsOnce, NoIdleItem
<1>3. Somewhere'
  BY <1>1 DEF IInv, TypeOK, Somewhere
<1>h. \A e \in Clients : holding'[e] = IF e = c THEN holding[c] \ {i} ELSE IF e = d THEN holding[d] \cup {i} ELSE holding[e]
  BY <1>1 DEF IInv, TypeOK
<1>n. \A j : \A e \in Clients : j # i => (j \in holding'[e] <=> j \in holding[e])
  BY <1>h
<1>i. /\ \A e \in Clients : i \in holding'[e] => e = d
      /\ \A k \in 1..Len(available) : available[k] # i
      /\ \A h \in handing : h.item # i
      /\ \A e \in Clients : slot[e] # i
  <2>1. \A e \in Clients : i \in holding[e] => e = c
    <3> SUFFICES ASSUME NEW e \in Clients, i \in holding[e] PROVE e = c
      OBVIOUS
    <3>1. holding[e] \cap holding[c] # {}
      BY <1>1
    <3> QED BY <1>1, <3>1 DEF IInv, Once
  <2>2. \A e \in Clients : i \in holding'[e] => e = d
    BY <1>1, <1>h, <2>1
  <2> QED BY <1>1, <2>2 DEF IInv, Apart
<1>4. Once'
  <2>1. \A e, f \in Clients : holding'[e] \cap holding'[f] # {} => e = f
    <3> SUFFICES ASSUME NEW e \in Clients, NEW f \in Clients, NEW j, j \in holding'[e], j \in holding'[f]
                 PROVE  e = f
      OBVIOUS
    <3>1. CASE j = i
      BY <3>1, <1>i
    <3>2. CASE j # i
      BY <3>2, <1>n DEF IInv, Once
    <3> QED BY <3>1, <3>2
  <2> QED BY <1>1, <2>1 DEF IInv, Once
<1>5. Apart'
  <2>1. \A k \in 1..Len(available'), e \in Clients : available'[k] \notin holding'[e]
    BY <1>1, <1>n, <1>i DEF IInv, Apart
  <2>2. \A h \in handing', e \in Clients : h.item \notin holding'[e]
    BY <1>1, <1>n, <1>i DEF IInv, Apart
  <2>3. \A e, f \in Clients : slot'[e] \notin holding'[f]
    BY <1>1, <1>n, <1>i DEF IInv, Apart
  <2> QED BY <1>1, <2>1, <2>2, <2>3 DEF IInv, Apart
<1> QED BY <1>2, <1>3, <1>4, <1>5 DEF IInv

\* Every step keeps the invariant.
LEMMA Step == ASSUME PoolConstants, IInv, [Next]_vars PROVE IInv'
<1>1. CASE UNCHANGED vars
  BY <1>1 DEF vars, IInv, TypeOK, Somewhere, Once, Apart, WaitsOnce, NoIdleItem
<1> QED BY <1>1, AcquireStep, ReleaseStep, HandOverStep, PassStep DEF Next

\* The invariant holds throughout.
LEMMA Invariance == ASSUME PoolConstants PROVE Spec => []IInv
<1>1. Init => IInv
  BY InitHolds
<1>2. IInv /\ [Next]_vars => IInv'
  BY Step
<1> QED BY <1>1, <1>2, PTL DEF Spec

\* However acquire() and release() interleave, no item is lost and none is in
\* two places, for any number of items and coroutines.
THEOREM Conserves == ASSUME PoolConstants PROVE Spec => []Conservation
<1>1. IInv => Conservation
  BY PlacesCounted DEF IInv
<1> QED BY <1>1, Invariance, PTL

\* A coroutine waits only while nothing is free: release() serves the list
\* before available_ and acquire() looks at available_ before the list.
THEOREM NothingIdle == ASSUME PoolConstants PROVE Spec => []NoIdleItem
<1>1. IInv => NoIdleItem
  BY DEF IInv
<1> QED BY <1>1, Invariance, PTL
=============================================================================
