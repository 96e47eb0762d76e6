-------------------------- MODULE Sqlite3DbProofs ---------------------------
(***************************************************************************)
(* Proofs about the database for any finite set of connections and any     *)
(* coroutines: with a full queue, nested queries and transactions moved    *)
(* over one another, a connection is used by one job at a time and comes   *)
(* back without a transaction.  Where no connection is dropped by the      *)
(* code, every step of the database is a step of the pool.                 *)
(***************************************************************************)
EXTENDS Sqlite3Db, FiniteSetTheorems, SequenceTheorems, TLAPS

Proved == INSTANCE AsyncPoolProofs WITH
  Items <- Connections, Clients <- Users, NoItem <- NoConn, MaxHeld <- 2, holding <- Holding

MaybeConn == Connections \cup {NoConn}

PoolTypeOK ==
  /\ available \in Seq(Connections)
  /\ waiters \in Seq(Coroutines)
  /\ slot \in [Users -> MaybeConn]
  /\ handing \in SUBSET [by : Users, item : Connections, to : Coroutines]

CallTypeOK ==
  /\ wants \in [Coroutines -> {"none", "query", "transaction"}]
  /\ query \in [Coroutines -> MaybeConn]
  /\ conn \in [Coroutines -> MaybeConn]
  /\ ended \in [Coroutines -> BOOLEAN]
  /\ op \in [Coroutines -> TransactionCalls \cup {"none", "query"}]
  /\ phase \in [Coroutines -> {"none", "queued", "running", "succeeded", "failed"}]
  /\ abandonJob \in [Coroutines -> MaybeConn]
  /\ abandonPhase \in [Coroutines -> {"none", "queued", "running", "releasing"}]
  /\ inTxn \in [Connections -> BOOLEAN]

\* The pool has the connection: it is free, on its way or granted.
Pooled(k) ==
  \/ \E n \in 1..Len(available) : available[n] = k
  \/ \E h \in handing : h.item = k
  \/ \E u \in Users : slot[u] = k

Releasing(u) == \E h \in handing : h.by = u

\* It has it at one place, and a coroutine waits in one.
PooledOnce ==
  /\ \A n, m \in 1..Len(available) : available[n] = available[m] => n = m
  /\ \A g, h \in handing : g.item = h.item => g = h
  /\ \A u, v \in Users : slot[u] = slot[v] /\ slot[u] # NoConn => u = v
  /\ \A n \in 1..Len(available) :
       (\A h \in handing : h.item # available[n]) /\ (\A u \in Users : slot[u] # available[n])
  /\ \A h \in handing, u \in Users : slot[u] # h.item

WaitsOnce ==
  /\ \A n, m \in 1..Len(waiters) : waiters[n] = waiters[m] => n = m
  /\ \A n \in 1..Len(waiters) : slot[waiters[n]] = NoConn /\ \A h \in handing : h.to # waiters[n]
  /\ \A h \in handing : slot[h.to] = NoConn
  /\ \A g, h \in handing : g.to = h.to => g = h
  /\ \A u \in Users : slot[u] # NoConn => u \in Coroutines

PoolInv == PoolTypeOK /\ PooledOnce /\ WaitsOnce

\* What a coroutine has while it is where it is.
Control ==
  \A c \in Coroutines :
    /\ op[c] = "none" <=> phase[c] = "none"
    /\ op[c] = "query" => query[c] # NoConn
    /\ op[c] \in TransactionCalls => conn[c] # NoConn /\ query[c] = NoConn /\ ~ended[c]
    /\ Pool!Waiting(c) \/ Releasing(c) => op[c] = "none" /\ query[c] = NoConn
    /\ Pool!Waiting(c) => wants[c] # "none" /\ ~Releasing(c)
    /\ Releasing(JobOf(c)) => abandonJob[c] = NoConn
    /\ abandonJob[c] = NoConn <=> abandonPhase[c] = "none"

\* Outside the pool a connection has one owner, ...
OneOwner ==
  \A c, d \in Coroutines :
    /\ query[c] # NoConn => /\ query[c] = query[d] => c = d
                            /\ query[c] # conn[d] /\ query[c] # abandonJob[d]
    /\ conn[c] # NoConn => (conn[c] = conn[d] => c = d) /\ conn[c] # abandonJob[d]
    /\ abandonJob[c] # NoConn /\ abandonJob[c] = abandonJob[d] => c = d

\* ... and in the pool none.
OwnedOrPooled ==
  \A c \in Coroutines, k \in Connections :
    Pooled(k) => query[c] # k /\ conn[c] # k /\ abandonJob[c] # k

\* Wherever a connection may go back to the pool, no transaction is open on it.
Clean ==
  /\ \A k \in Connections : Pooled(k) => ~inTxn[k]
  /\ \A c \in Coroutines :
       /\ query[c] # NoConn => ~inTxn[query[c]]
       /\ conn[c] # NoConn /\ ended[c] => ~inTxn[conn[c]]
       /\ Ends(c) => ~inTxn[conn[c]]
       /\ abandonPhase[c] = "releasing" => ~inTxn[abandonJob[c]]

IInv == PoolInv /\ CallTypeOK /\ Control /\ OneOwner /\ OwnedOrPooled /\ Clean

-----------------------------------------------------------------------------
(* What the operations of the pool do to it *)

\* A job of the thread pool is no coroutine.
LEMMA JobsAreNotCoroutines ==
  /\ Coroutines \subseteq Users
  /\ \A c \in Coroutines : JobOf(c) \in Users /\ JobOf(c) \notin Coroutines
  /\ \A c, d \in Coroutines : JobOf(c) = JobOf(d) => c = d
  BY Sqlite3DbAssumption DEF Users, JobOf

\* acquire() takes a free connection out of the pool ...
LEMMA TakeFreeEffect ==
  ASSUME PoolInv, NEW k \in Connections, Pool!TakeFree(k)
  PROVE  /\ PoolInv' /\ Pooled(k)
         /\ \A j \in Connections : Pooled(j)' <=> Pooled(j) /\ j # k
         /\ \A u \in Users : (Pool!Waiting(u)' <=> Pool!Waiting(u)) /\ (Releasing(u)' <=> Releasing(u))
<1>1. /\ available # <<>> /\ k = available[Len(available)]
      /\ available' = SubSeq(available, 1, Len(available) - 1)
      /\ UNCHANGED <<waiters, slot, handing>>
  BY DEF Pool!TakeFree
<1>2. /\ available' \in Seq(Connections) /\ Len(available) \in Nat \ {0} /\ Len(available') = Len(available) - 1
      /\ \A n \in 1..Len(available') : available'[n] = available[n]
  BY <1>1, Proved!PopLast DEF PoolInv, PoolTypeOK
<1>3. PoolTypeOK'
  BY <1>1, <1>2 DEF PoolInv, PoolTypeOK
<1>o. PooledOnce'
  <2>1. \A n \in 1..Len(available') : n \in 1..Len(available) /\ available'[n] = available[n]
    BY <1>2
  <2> QED BY <2>1, <1>1 DEF PoolInv, PooledOnce
<1>w. WaitsOnce'
  BY <1>1 DEF PoolInv, WaitsOnce
<1>4. Pooled(k)
  BY <1>1, <1>2 DEF Pooled
<1>5. ASSUME NEW j \in Connections PROVE Pooled(j)' <=> Pooled(j) /\ j # k
  <2>1. CASE j = k
    BY <2>1, <1>1, <1>2 DEF Pooled, PoolInv, PooledOnce
  <2>2. CASE j # k
    BY <2>2, <1>1, <1>2 DEF Pooled
  <2> QED BY <2>1, <2>2
<1>6. \A u \in Users : (Pool!Waiting(u)' <=> Pool!Waiting(u)) /\ (Releasing(u)' <=> Releasing(u))
  BY <1>1 DEF Pool!Waiting, Releasing
<1> QED BY <1>3, <1>o, <1>w, <1>4, <1>5, <1>6 DEF PoolInv

\* ... or puts the coroutine on the list, ...
LEMMA EnlistEffect ==
  ASSUME PoolInv, NEW c \in Coroutines, ~Pool!Busy(c), Pool!Enlist(c)
  PROVE  /\ PoolInv'
         /\ \A j \in Connections : Pooled(j)' <=> Pooled(j)
         /\ \A u \in Users : /\ Pool!Waiting(u)' <=> Pool!Waiting(u) \/ u = c
                             /\ Releasing(u)' <=> Releasing(u)
<1>1. /\ available = <<>> /\ waiters' = Append(waiters, c)
      /\ UNCHANGED <<available, slot, handing>>
  BY DEF Pool!Enlist
<1>2. /\ waiters' \in Seq(Coroutines) /\ Len(waiters') = Len(waiters) + 1 /\ Len(waiters) \in Nat
      /\ \A n \in 1..Len(waiters) : waiters'[n] = waiters[n]
      /\ waiters'[Len(waiters) + 1] = c
  BY <1>1, Proved!PushLast DEF PoolInv, PoolTypeOK
<1>3. PoolTypeOK' /\ PooledOnce'
  BY <1>1, <1>2 DEF PoolInv, PoolTypeOK, PooledOnce
<1>4. WaitsOnce'
  BY <1>1, <1>2, JobsAreNotCoroutines DEF PoolInv, PoolTypeOK, WaitsOnce, Pool!Busy, Pool!Waiting
<1>5. \A u \in Users : Pool!Waiting(u)' <=> Pool!Waiting(u) \/ u = c
  BY <1>1, <1>2 DEF Pool!Waiting
<1> QED BY <1>1, <1>3, <1>4, <1>5 DEF PoolInv, Pooled, Releasing

\* ... which takes out what it was granted.
LEMMA TakeGrantedEffect ==
  ASSUME PoolInv, NEW c \in Coroutines, NEW k \in Connections, Pool!TakeGranted(c, k)
  PROVE  /\ PoolInv' /\ Pooled(k) /\ Pool!Waiting(c)
         /\ \A j \in Connections : Pooled(j)' <=> Pooled(j) /\ j # k
         /\ \A u \in Users : /\ Pool!Waiting(u)' <=> Pool!Waiting(u) /\ u # c
                             /\ Releasing(u)' <=> Releasing(u)
<1>1. /\ slot[c] # NoConn /\ k = slot[c] /\ slot' = [slot EXCEPT ![c] = NoConn]
      /\ UNCHANGED <<available, waiters, handing>>
  BY DEF Pool!TakeGranted, Pool!Posted
<1>2. c \in Users
  BY JobsAreNotCoroutines
<1>3. \A u \in Users : slot'[u] = IF u = c THEN NoConn ELSE slot[u]
  BY <1>1 DEF PoolInv, PoolTypeOK
<1>4. PoolTypeOK'
  BY <1>1, <1>2 DEF PoolInv, PoolTypeOK, MaybeConn
<1>o. \A j \in Connections : j # NoConn
  BY Sqlite3DbAssumption
<1>p. PooledOnce'
  BY <1>1, <1>2, <1>3, <1>o DEF PoolInv, PoolTypeOK, PooledOnce
<1>5. WaitsOnce'
  BY <1>1, <1>2, <1>3, JobsAreNotCoroutines DEF PoolInv, PoolTypeOK, WaitsOnce
<1>6. Pooled(k) /\ Pool!Waiting(c)
  BY <1>1, <1>2 DEF Pooled, Pool!Waiting
<1>7. ASSUME NEW j \in Connections PROVE Pooled(j)' <=> Pooled(j) /\ j # k
  <2>0. j # NoConn
    BY Sqlite3DbAssumption
  <2>1. CASE j = k
    BY <2>0, <2>1, <1>1, <1>2, <1>3 DEF Pooled, PoolInv, PooledOnce
  <2>2. CASE j # k
    BY <2>0, <2>2, <1>1, <1>3 DEF Pooled
  <2> QED BY <2>1, <2>2
<1>8. ASSUME NEW u \in Users PROVE Pool!Waiting(u)' <=> Pool!Waiting(u) /\ u # c
  <2>1. CASE u = c
    BY <2>1, <1>1, <1>2, <1>3 DEF Pool!Waiting, PoolInv, WaitsOnce
  <2>2. CASE u # c
    BY <2>2, <1>1, <1>3 DEF Pool!Waiting
  <2> QED BY <2>1, <2>2
<1> QED BY <1>1, <1>4, <1>p, <1>5, <1>6, <1>7, <1>8 DEF PoolInv, Releasing

\* release() brings back a connection that was outside, ...
LEMMA PutBackEffect ==
  ASSUME PoolInv, NEW v \in Users, NEW k \in Connections, ~Pooled(k), Pool!PutBack(v, k)
  PROVE  /\ PoolInv'
         /\ \A j \in Connections : Pooled(j)' <=> Pooled(j) \/ j = k
         /\ \A u \in Users : /\ Pool!Waiting(u)' <=> Pool!Waiting(u)
                             /\ Releasing(u)' => Releasing(u) \/ u = v
<1>1. CASE waiters # <<>>
  <2> DEFINE w == Head(waiters)
             g == [by |-> v, item |-> k, to |-> w]
  <2>1. handing' = handing \cup {g} /\ waiters' = Tail(waiters) /\ UNCHANGED <<available, slot>>
    BY <1>1 DEF Pool!PutBack, Pool!LongestWaiting, Pool!WithoutLongest
  <2>2. /\ Len(waiters) \in Nat \ {0} /\ w \in Coroutines /\ w = waiters[1]
        /\ waiters' \in Seq(Coroutines) /\ Len(waiters') = Len(waiters) - 1
        /\ \A n \in 1..Len(waiters) - 1 : waiters'[n] = waiters[n + 1]
    BY <2>1, <1>1, Proved!PopFirst DEF PoolInv, PoolTypeOK
  <2>3. /\ g \in [by : Users, item : Connections, to : Coroutines]
        /\ g.item = k /\ g.to = w /\ g.by = v
    BY <2>2
  <2> HIDE DEF w, g
  <2>4. PoolTypeOK'
    BY <2>1, <2>2, <2>3 DEF PoolInv, PoolTypeOK
  <2>5. PooledOnce'
    BY <2>1, <2>3 DEF PoolInv, PoolTypeOK, PooledOnce, Pooled
  <2>6. WaitsOnce'
    BY <2>1, <2>2, <2>3 DEF PoolInv, PoolTypeOK, WaitsOnce
  <2>7. \A j \in Connections : Pooled(j)' <=> Pooled(j) \/ j = k
    BY <2>1, <2>3 DEF Pooled
  <2>8. ASSUME NEW u \in Users PROVE Pool!Waiting(u)' <=> Pool!Waiting(u)
    <3>1. \A n \in 1..Len(waiters) : n = 1 \/ (n - 1 \in 1..Len(waiters') /\ waiters'[n - 1] = waiters[n])
      BY <2>2
    <3>2. \A n \in 1..Len(waiters') : n + 1 \in 1..Len(waiters) /\ waiters[n + 1] = waiters'[n]
      BY <2>2
    <3>3. Pool!Waiting(u) => Pool!Waiting(u)'
      BY <3>1, <2>1, <2>2, <2>3 DEF Pool!Waiting
    <3>4. Pool!Waiting(u)' => Pool!Waiting(u)
      BY <3>2, <2>1, <2>2, <2>3 DEF Pool!Waiting
    <3> QED BY <3>3, <3>4
  <2>9. \A u \in Users : Releasing(u)' => Releasing(u) \/ u = v
    BY <2>1, <2>3 DEF Releasing
  <2> QED BY <2>4, <2>5, <2>6, <2>7, <2>8, <2>9 DEF PoolInv
<1>2. CASE waiters = <<>>
  <2>1. available' = Append(available, k) /\ UNCHANGED <<waiters, slot, handing>>
    BY <1>2 DEF Pool!PutBack
  <2>2. /\ available' \in Seq(Connections) /\ Len(available') = Len(available) + 1 /\ Len(available) \in Nat
        /\ \A n \in 1..Len(available) : available'[n] = available[n]
        /\ available'[Len(available) + 1] = k
    BY <2>1, Proved!PushLast DEF PoolInv, PoolTypeOK
  <2>3. PoolTypeOK' /\ WaitsOnce'
    BY <2>1, <2>2 DEF PoolInv, PoolTypeOK, WaitsOnce
  <2>4. PooledOnce'
    BY <2>1, <2>2 DEF PoolInv, PooledOnce, Pooled
  <2>5. \A j \in Connections : Pooled(j)' <=> Pooled(j) \/ j = k
    BY <2>1, <2>2 DEF Pooled
  <2> QED BY <2>1, <2>3, <2>4, <2>5 DEF PoolInv, Pool!Waiting, Releasing
<1> QED BY <1>1, <1>2

\* ... and finishes a hand-over after the unlock.
LEMMA HandOverEffect ==
  ASSUME PoolInv, NEW h \in handing, Pool!HandOver(h)
  PROVE  /\ PoolInv'
         /\ \A j \in Connections : Pooled(j)' <=> Pooled(j)
         /\ \A u \in Users : /\ Pool!Waiting(u)' <=> Pool!Waiting(u)
                             /\ Releasing(u)' => Releasing(u)
<1>1. /\ slot' = [slot EXCEPT ![h.to] = h.item] /\ handing' = handing \ {h}
      /\ UNCHANGED <<available, waiters>>
  BY DEF Pool!HandOver
<1>2. h.to \in Coroutines /\ h.to \in Users /\ h.item \in Connections /\ slot[h.to] = NoConn
  BY JobsAreNotCoroutines DEF PoolInv, PoolTypeOK, WaitsOnce
<1>3. \A u \in Users : slot'[u] = IF u = h.to THEN h.item ELSE slot[u]
  BY <1>1 DEF PoolInv, PoolTypeOK
<1>4. PoolTypeOK'
  BY <1>1, <1>2 DEF PoolInv, PoolTypeOK, MaybeConn
<1>5. PooledOnce'
  BY <1>1, <1>2, <1>3 DEF PoolInv, PoolTypeOK, PooledOnce
<1>6. WaitsOnce'
  BY <1>1, <1>2, <1>3, JobsAreNotCoroutines DEF PoolInv, PoolTypeOK, WaitsOnce
<1>n. h.item # NoConn /\ \A j \in Connections : j # NoConn
  BY <1>2, Sqlite3DbAssumption
<1>7. ASSUME NEW j \in Connections PROVE Pooled(j)' <=> Pooled(j)
  <2>1. CASE j = h.item
    BY <2>1, <1>2, <1>3 DEF Pooled
  <2>2. CASE j # h.item
    BY <2>2, <1>1, <1>2, <1>3, <1>n DEF Pooled
  <2> QED BY <2>1, <2>2
<1>8. ASSUME NEW u \in Users PROVE Pool!Waiting(u)' <=> Pool!Waiting(u)
  <2>1. CASE u = h.to
    BY <2>1, <1>2, <1>3, <1>n DEF Pool!Waiting
  <2>2. CASE u # h.to
    BY <2>2, <1>1, <1>3 DEF Pool!Waiting
  <2> QED BY <2>1, <2>2
<1> QED BY <1>1, <1>4, <1>5, <1>6, <1>7, <1>8 DEF PoolInv, Releasing

\* Everything else leaves the pool alone.
LEMMA PoolAlone ==
  ASSUME PoolInv, UNCHANGED poolVars
  PROVE  /\ PoolInv'
         /\ \A j \in Connections : Pooled(j)' <=> Pooled(j)
         /\ \A u \in Users : (Pool!Waiting(u)' <=> Pool!Waiting(u)) /\ (Releasing(u)' <=> Releasing(u))
<1>1. UNCHANGED <<available, waiters, slot, handing>>
  BY DEF poolVars
<1>2. PoolInv'
  BY <1>1 DEF PoolInv, PoolTypeOK, PooledOnce, WaitsOnce
<1> QED BY <1>1, <1>2 DEF Pooled, Pool!Waiting, Releasing

-----------------------------------------------------------------------------
(* The steps of the database *)

\* The constructor of the pool has every connection, none of them with a
\* transaction.
LEMMA InitHolds == Init => IInv
<1> SUFFICES ASSUME Init PROVE IInv
  OBVIOUS
<1> USE Sqlite3DbAssumption, JobsAreNotCoroutines
<1>1. /\ waiters = <<>> /\ slot = [u \in Users |-> NoConn] /\ handing = {}
      /\ available \in [1..Pool!Cardinality(Connections) -> Connections]
      /\ \A i, k \in DOMAIN available : available[i] = available[k] => i = k
  BY DEF Init, Pool!Init
<1>2. Pool!Cardinality(Connections) = Cardinality(Connections)
  BY DEF Pool!Cardinality, Cardinality
<1>3. Cardinality(Connections) \in Nat
  BY FS_CardinalityType
<1>4. available \in Seq(Connections) /\ \A i, k \in 1..Len(available) : available[i] = available[k] => i = k
  BY <1>1, <1>2, <1>3
<1>5. PoolInv
  <2>1. PoolTypeOK
    BY <1>1, <1>4 DEF PoolTypeOK, MaybeConn
  <2>2. PooledOnce
    <3>1. \A n \in 1..Len(available) : available[n] # NoConn
      BY <1>4
    <3> QED BY <1>1, <1>4, <3>1 DEF PooledOnce
  <2>3. WaitsOnce
    BY <1>1 DEF WaitsOnce
  <2> QED BY <2>1, <2>2, <2>3 DEF PoolInv
<1>6. CallTypeOK
  BY DEF Init, CallTypeOK, MaybeConn
<1>7. \A u \in Users : ~Pool!Waiting(u) /\ ~Releasing(u)
  BY <1>1 DEF Pool!Waiting, Releasing
<1>8. Control /\ OneOwner /\ OwnedOrPooled /\ Clean
  BY <1>7 DEF Init, Control, OneOwner, OwnedOrPooled, Clean, Ends, TransactionCalls
<1> QED BY <1>5, <1>6, <1>8 DEF IInv

\* release() finishes in the background.
LEMMA HandOverStep == ASSUME IInv, NEW h \in handing, HandOver(h) PROVE IInv'
<1>1. /\ Pool!HandOver(h)
      /\ UNCHANGED <<wants, query, conn, ended, op, phase, abandonJob, abandonPhase, inTxn>>
  BY DEF HandOver, opVars, abandonVars
<1>2. /\ PoolInv'
      /\ \A j \in Connections : Pooled(j)' <=> Pooled(j)
      /\ \A u \in Users : (Pool!Waiting(u)' <=> Pool!Waiting(u)) /\ (Releasing(u)' => Releasing(u))
  BY <1>1, HandOverEffect DEF IInv
<1>3. CallTypeOK' /\ OneOwner'
  BY <1>1 DEF IInv, CallTypeOK, OneOwner
<1>4. Control'
  BY <1>1, <1>2, JobsAreNotCoroutines DEF IInv, Control
<1>5. OwnedOrPooled'
  BY <1>1, <1>2 DEF IInv, OwnedOrPooled
<1>6. Clean'
  BY <1>1, <1>2 DEF IInv, Clean, Ends
<1> QED BY <1>2, <1>3, <1>4, <1>5, <1>6 DEF IInv

\* abandonFn gets its thread and rolls back.
LEMMA AbandonFnStep ==
  ASSUME IInv, NEW c \in Coroutines, AbandonStart(c) \/ AbandonRollback(c)
  PROVE  IInv'
<1>1. /\ abandonPhase[c] \in {"queued", "running"}
      /\ abandonPhase' = [abandonPhase EXCEPT ![c] = IF abandonPhase[c] = "queued" THEN "running" ELSE "releasing"]
      /\ inTxn' = IF abandonPhase[c] = "queued" THEN inTxn ELSE [inTxn EXCEPT ![abandonJob[c]] = FALSE]
      /\ UNCHANGED <<wants, query, conn, ended, op, phase, abandonJob>> /\ UNCHANGED poolVars
  BY DEF AbandonStart, AbandonRollback, opVars
<1>2. /\ PoolInv'
      /\ \A j \in Connections : Pooled(j)' <=> Pooled(j)
      /\ \A u \in Users : (Pool!Waiting(u)' <=> Pool!Waiting(u)) /\ (Releasing(u)' <=> Releasing(u))
  BY <1>1, PoolAlone DEF IInv
<1>3. abandonJob[c] \in Connections
  BY <1>1 DEF IInv, Control, CallTypeOK, MaybeConn
<1>4. /\ \A k \in Connections : inTxn'[k] => inTxn[k]
      /\ abandonPhase'[c] = "releasing" => ~inTxn'[abandonJob[c]]
      /\ \A d \in Coroutines : d # c => abandonPhase'[d] = abandonPhase[d]
      /\ abandonPhase'[c] # "none"
  BY <1>1, <1>3 DEF IInv, CallTypeOK
<1>5. CallTypeOK' /\ OneOwner'
  <2>1. /\ abandonPhase' \in [Coroutines -> {"none", "queued", "running", "releasing"}]
        /\ inTxn' \in [Connections -> BOOLEAN]
    BY <1>1, <1>3 DEF IInv, CallTypeOK
  <2> QED BY <1>1, <2>1 DEF IInv, CallTypeOK, OneOwner
<1>6. Control'
  BY <1>1, <1>2, <1>4, JobsAreNotCoroutines DEF IInv, Control
<1>7. OwnedOrPooled'
  BY <1>1, <1>2 DEF IInv, OwnedOrPooled
<1>8. Clean'
  <2>1. \A d \in Coroutines :
          /\ query[d] \in Connections \cup {NoConn} /\ conn[d] \in Connections \cup {NoConn}
          /\ Ends(d) => conn[d] # NoConn
          /\ abandonPhase[d] = "releasing" => abandonJob[d] \in Connections
    BY DEF IInv, CallTypeOK, Control, MaybeConn, Ends, TransactionCalls
  <2> QED BY <1>1, <1>2, <1>4, <2>1 DEF IInv, Clean, Ends
<1> QED BY <1>2, <1>5, <1>6, <1>7, <1>8 DEF IInv

\* abandonFn gives the connection back.
LEMMA AbandonReleaseStep == ASSUME IInv, NEW c \in Coroutines, AbandonRelease(c) PROVE IInv'
<1> DEFINE k == abandonJob[c]
<1>1. /\ abandonPhase[c] = "releasing" /\ Pool!PutBack(JobOf(c), k)
      /\ abandonJob' = [abandonJob EXCEPT ![c] = NoConn]
      /\ abandonPhase' = [abandonPhase EXCEPT ![c] = "none"]
      /\ UNCHANGED <<wants, query, conn, ended, op, phase, inTxn>>
  BY DEF AbandonRelease, opVars
<1>2. k \in Connections /\ k # NoConn /\ ~Pooled(k) /\ ~inTxn[k]
  BY <1>1, Sqlite3DbAssumption DEF IInv, Control, CallTypeOK, MaybeConn, OwnedOrPooled, Clean
<1>3. /\ PoolInv'
      /\ \A j \in Connections : Pooled(j)' <=> Pooled(j) \/ j = k
      /\ \A u \in Users : /\ Pool!Waiting(u)' <=> Pool!Waiting(u)
                          /\ Releasing(u)' => Releasing(u) \/ u = JobOf(c)
  BY <1>1, <1>2, PutBackEffect, JobsAreNotCoroutines DEF IInv
<1>4. /\ \A d \in Coroutines : abandonJob'[d] = IF d = c THEN NoConn ELSE abandonJob[d]
      /\ \A d \in Coroutines : abandonPhase'[d] = IF d = c THEN "none" ELSE abandonPhase[d]
  BY <1>1 DEF IInv, CallTypeOK
<1> HIDE DEF k
<1>5. CallTypeOK'
  BY <1>1 DEF IInv, CallTypeOK, MaybeConn
<1>6. Control'
  BY <1>1, <1>3, <1>4, JobsAreNotCoroutines DEF IInv, Control
<1>7. OneOwner'
  BY <1>1, <1>4 DEF IInv, OneOwner
<1>8. OwnedOrPooled'
  <2> SUFFICES ASSUME NEW d \in Coroutines, NEW j \in Connections, Pooled(j)'
               PROVE  query[d] # j /\ conn[d] # j /\ abandonJob'[d] # j
    BY <1>1 DEF OwnedOrPooled
  <2>1. CASE j = k
    BY <2>1, <1>2, <1>4 DEF IInv, OneOwner, k
  <2>2. CASE j # k
    BY <2>2, <1>3, <1>4, Sqlite3DbAssumption DEF IInv, OwnedOrPooled
  <2> QED BY <2>1, <2>2
<1>9. Clean'
  BY <1>1, <1>2, <1>3, <1>4 DEF IInv, Clean, Ends
<1> QED BY <1>3, <1>5, <1>6, <1>7, <1>8, <1>9 DEF IInv

\* A coroutine comes out of acquire() with a connection of the pool.  It may
\* leave the transaction it had to abandonFn, or drop it.
LEMMA GotStep ==
  ASSUME IInv, NEW c \in Coroutines, NEW w \in {"query", "transaction"}, NEW k \in Connections,
         op[c] = "none", query[c] = NoConn, ~Releasing(c), Pooled(k), Got(c, w, k),
         PoolInv',
         \A j \in Connections : Pooled(j)' <=> Pooled(j) /\ j # k,
         \A u \in Users : Pool!Waiting(u)' => Pool!Waiting(u) /\ u # c,
         \A u \in Users : Releasing(u)' <=> Releasing(u),
         wants' \in [Coroutines -> {"none", "query", "transaction"}],
         \A d \in Coroutines : d # c => wants'[d] = wants[d],
         UNCHANGED <<op, phase, inTxn>>
  PROVE  IInv'
<1>0. k # NoConn /\ ~inTxn[k] /\ \A d \in Coroutines : query[d] # k /\ conn[d] # k /\ abandonJob[d] # k
  BY Sqlite3DbAssumption DEF IInv, OwnedOrPooled, Clean
<1>w. ~Pool!Waiting(c)' /\ ~Releasing(c)' /\ phase[c] = "none"
  BY JobsAreNotCoroutines DEF IInv, Control
<1>1. CASE w = "query"
  <2>1. query' = [query EXCEPT ![c] = k] /\ UNCHANGED <<conn, ended, abandonJob, abandonPhase>>
    BY <1>1 DEF Got, abandonVars
  <2>2. \A d \in Coroutines : query'[d] = IF d = c THEN k ELSE query[d]
    BY <2>1 DEF IInv, CallTypeOK
  <2>3. CallTypeOK'
    BY <2>1 DEF IInv, CallTypeOK, MaybeConn
  <2>4. Control'
    BY <2>1, <2>2, <1>0, <1>w, JobsAreNotCoroutines DEF IInv, Control, TransactionCalls
  <2>5. OneOwner'
    BY <2>1, <2>2, <1>0 DEF IInv, OneOwner
  <2>6. OwnedOrPooled'
    BY <2>1, <2>2 DEF IInv, OwnedOrPooled
  <2>7. Clean'
    BY <2>1, <2>2, <1>0 DEF IInv, Clean, Ends
  <2> QED BY <2>3, <2>4, <2>5, <2>6, <2>7 DEF IInv
<1>2. CASE w = "transaction"
  <2>1. /\ conn' = [conn EXCEPT ![c] = k] /\ ended' = [ended EXCEPT ![c] = FALSE]
        /\ UNCHANGED query
        /\ \/ UNCHANGED <<abandonJob, abandonPhase>>
           \/ /\ conn[c] # NoConn /\ abandonJob[c] = NoConn /\ ~Pool!Busy(JobOf(c))
              /\ abandonJob' = [abandonJob EXCEPT ![c] = conn[c]]
              /\ abandonPhase' = [abandonPhase EXCEPT ![c] = "queued"]
    BY <1>2 DEF Got, abandonVars, AbandonUnlessEnded, FireAbandonFn, HasTransaction
  <2>2. \A d \in Coroutines : /\ conn'[d] = IF d = c THEN k ELSE conn[d]
                              /\ ended'[d] = IF d = c THEN FALSE ELSE ended[d]
    BY <2>1 DEF IInv, CallTypeOK
  <2>3. CASE UNCHANGED <<abandonJob, abandonPhase>>
    <3>1. CallTypeOK'
      BY <2>1, <2>3 DEF IInv, CallTypeOK, MaybeConn
    <3>2. Control'
      BY <2>1, <2>2, <2>3, <1>0, <1>w, JobsAreNotCoroutines DEF IInv, Control, TransactionCalls
    <3>3. OneOwner'
      BY <2>1, <2>2, <2>3, <1>0 DEF IInv, OneOwner
    <3>4. OwnedOrPooled'
      BY <2>1, <2>2, <2>3 DEF IInv, OwnedOrPooled
    <3>5. Clean'
      BY <2>1, <2>2, <2>3, <1>0 DEF IInv, Clean, Ends
    <3> QED BY <3>1, <3>2, <3>3, <3>4, <3>5 DEF IInv
  <2>4. CASE /\ conn[c] # NoConn /\ abandonJob[c] = NoConn /\ ~Pool!Busy(JobOf(c))
             /\ abandonJob' = [abandonJob EXCEPT ![c] = conn[c]]
             /\ abandonPhase' = [abandonPhase EXCEPT ![c] = "queued"]
    <3>0. \A d \in Coroutines : /\ abandonJob'[d] = IF d = c THEN conn[c] ELSE abandonJob[d]
                                /\ abandonPhase'[d] = IF d = c THEN "queued" ELSE abandonPhase[d]
      BY <2>4 DEF IInv, CallTypeOK
    <3>j. ~Releasing(JobOf(c))
      BY <2>4 DEF Pool!Busy, Releasing
    <3>1. CallTypeOK'
      BY <2>1, <2>4 DEF IInv, CallTypeOK, MaybeConn
    <3>2. Control'
      BY <2>1, <2>2, <2>4, <3>0, <3>j, <1>0, <1>w, JobsAreNotCoroutines DEF IInv, Control, TransactionCalls
    <3>3. OneOwner'
      <4> SUFFICES ASSUME NEW a \in Coroutines, NEW b \in Coroutines
                   PROVE  /\ query[a] # NoConn => /\ query[a] = query[b] => a = b
                                                  /\ query[a] # conn'[b] /\ query[a] # abandonJob'[b]
                          /\ conn'[a] # NoConn => /\ conn'[a] = conn'[b] => a = b
                                                  /\ conn'[a] # abandonJob'[b]
                          /\ abandonJob'[a] # NoConn /\ abandonJob'[a] = abandonJob'[b] => a = b
        BY <2>1 DEF OneOwner
      <4>1. query[a] # NoConn => /\ query[a] = query[b] => a = b
                                 /\ query[a] # conn'[b] /\ query[a] # abandonJob'[b]
        <5>1. query[a] # NoConn => /\ query[a] = query[b] => a = b
                                   /\ query[a] # conn[b] /\ query[a] # conn[c] /\ query[a] # abandonJob[b]
          BY DEF IInv, OneOwner
        <5> QED BY <5>1, <2>2, <3>0, <1>0
      <4>c. \A d \in Coroutines : conn[c] # abandonJob[d] /\ (conn[c] = conn[d] => c = d)
        BY <2>4 DEF IInv, OneOwner
      <4>2. conn'[a] # NoConn => (conn'[a] = conn'[b] => a = b) /\ conn'[a] # abandonJob'[b]
        <5>1. conn[a] # NoConn => (conn[a] = conn[b] => a = b) /\ conn[a] # abandonJob[b]
          BY DEF IInv, OneOwner
        <5>2. CASE a = c
          <6>1. conn'[a] = k /\ (b # c => conn'[b] = conn[b] /\ abandonJob'[b] = abandonJob[b]) /\ abandonJob'[c] = conn[c]
            BY <5>2, <2>2, <3>0
          <6> QED BY <5>2, <6>1, <1>0
        <5>3. CASE a # c
          <6>1. conn'[a] = conn[a] /\ conn'[b] \in {k, conn[b]} /\ (b # c => conn'[b] = conn[b])
                /\ abandonJob'[b] \in {conn[c], abandonJob[b]}
            BY <5>3, <2>2, <3>0
          <6> QED BY <5>1, <5>3, <6>1, <4>c, <1>0
        <5> QED BY <5>2, <5>3
      <4>3. abandonJob'[a] # NoConn /\ abandonJob'[a] = abandonJob'[b] => a = b
        BY <4>c, <3>0 DEF IInv, OneOwner
      <4> QED BY <4>1, <4>2, <4>3
    <3>4. OwnedOrPooled'
      BY <2>1, <2>2, <3>0 DEF IInv, OwnedOrPooled
    <3>5. Clean'
      BY <2>1, <2>2, <3>0, <1>0 DEF IInv, Clean, Ends
    <3> QED BY <3>1, <3>2, <3>3, <3>4, <3>5 DEF IInv
  <2> QED BY <2>1, <2>3, <2>4
<1> QED BY <1>1, <1>2

\* acquire(): at once, later, or as the one that was posted.
LEMMA AcquireStep ==
  ASSUME IInv, NEW c \in Coroutines,
         \/ \E w \in {"query", "transaction"} : AcquireFree(c, w) \/ AcquireWait(c, w)
         \/ AcquireResume(c)
  PROVE  IInv'
<1>u. c \in Users
  BY JobsAreNotCoroutines
<1>1. ASSUME NEW w \in {"query", "transaction"}, AcquireFree(c, w) PROVE IInv'
  <2> PICK k \in Connections : Pool!TakeFree(k) /\ Got(c, w, k)
    BY <1>1 DEF AcquireFree
  <2>1. Ready(c) /\ UNCHANGED <<wants, op, phase, inTxn>>
    BY <1>1 DEF AcquireFree, MayWant, opVars
  <2>2. op[c] = "none" /\ query[c] = NoConn /\ ~Pool!Waiting(c) /\ ~Releasing(c)
    BY <2>1 DEF Ready, Pool!Busy, Releasing
  <2>3. /\ PoolInv' /\ Pooled(k)
        /\ \A j \in Connections : Pooled(j)' <=> Pooled(j) /\ j # k
        /\ \A u \in Users : (Pool!Waiting(u)' <=> Pool!Waiting(u)) /\ (Releasing(u)' <=> Releasing(u))
    BY TakeFreeEffect DEF IInv
  <2>4. wants' \in [Coroutines -> {"none", "query", "transaction"}]
    BY <2>1 DEF IInv, CallTypeOK
  <2> QED BY <2>1, <2>2, <2>3, <2>4, GotStep
<1>2. ASSUME NEW w \in {"query", "transaction"}, AcquireWait(c, w) PROVE IInv'
  <2>1. /\ Ready(c) /\ Pool!Enlist(c) /\ wants' = [wants EXCEPT ![c] = w]
        /\ UNCHANGED <<query, conn, ended, op, phase, abandonJob, abandonPhase, inTxn>>
    BY <1>2 DEF AcquireWait, MayWant, opVars, abandonVars
  <2>2. op[c] = "none" /\ query[c] = NoConn /\ ~Pool!Busy(c) /\ ~Releasing(c)
    BY <2>1 DEF Ready, Pool!Busy, Releasing
  <2>3. /\ PoolInv'
        /\ \A j \in Connections : Pooled(j)' <=> Pooled(j)
        /\ \A u \in Users : (Pool!Waiting(u)' <=> Pool!Waiting(u) \/ u = c) /\ (Releasing(u)' <=> Releasing(u))
    BY <2>1, <2>2, EnlistEffect DEF IInv
  <2>4. CallTypeOK' /\ OneOwner'
    BY <2>1 DEF IInv, CallTypeOK, OneOwner
  <2>5. Control'
    <3>1. \A d \in Coroutines : wants'[d] = IF d = c THEN w ELSE wants[d]
      BY <2>1 DEF IInv, CallTypeOK
    <3> QED BY <2>1, <2>2, <2>3, <3>1, JobsAreNotCoroutines DEF IInv, Control
  <2>6. OwnedOrPooled'
    BY <2>1, <2>3 DEF IInv, OwnedOrPooled
  <2>7. Clean'
    BY <2>1, <2>3 DEF IInv, Clean, Ends
  <2> QED BY <2>3, <2>4, <2>5, <2>6, <2>7 DEF IInv
<1>3. ASSUME AcquireResume(c) PROVE IInv'
  <2> PICK k \in Connections : Pool!TakeGranted(c, k) /\ Got(c, wants[c], k)
    BY <1>3 DEF AcquireResume
  <2>1. wants' = [wants EXCEPT ![c] = "none"] /\ UNCHANGED <<op, phase, inTxn>>
    BY <1>3 DEF AcquireResume, opVars
  <2>2. /\ PoolInv' /\ Pooled(k) /\ Pool!Waiting(c)
        /\ \A j \in Connections : Pooled(j)' <=> Pooled(j) /\ j # k
        /\ \A u \in Users : (Pool!Waiting(u)' <=> Pool!Waiting(u) /\ u # c) /\ (Releasing(u)' <=> Releasing(u))
    BY TakeGrantedEffect DEF IInv
  <2>3. op[c] = "none" /\ query[c] = NoConn /\ ~Releasing(c) /\ wants[c] \in {"query", "transaction"}
    BY <2>2 DEF IInv, Control, CallTypeOK
  <2>4. /\ wants' \in [Coroutines -> {"none", "query", "transaction"}]
        /\ \A d \in Coroutines : d # c => wants'[d] = wants[d]
    BY <2>1 DEF IInv, CallTypeOK
  <2> QED BY <2>1, <2>2, <2>3, <2>4, GotStep
<1> QED BY <1>1, <1>2, <1>3

-----------------------------------------------------------------------------
\* A call is submitted, or its job gets a thread.
LEMMA SubmitStep ==
  ASSUME IInv, NEW c \in Coroutines,
         (\E o \in TransactionCalls : CallTransaction(c, o)) \/ SubmitQuery(c) \/ JobStart(c)
  PROVE  IInv'
<1>1. /\ UNCHANGED poolVars
      /\ UNCHANGED <<wants, query, conn, ended, abandonJob, abandonPhase, inTxn>>
  BY DEF CallTransaction, SubmitQuery, JobStart, abandonVars
<1>2. /\ PoolInv'
      /\ \A j \in Connections : Pooled(j)' <=> Pooled(j)
      /\ \A u \in Users : (Pool!Waiting(u)' <=> Pool!Waiting(u)) /\ (Releasing(u)' <=> Releasing(u))
  BY <1>1, PoolAlone DEF IInv
<1>3. OneOwner' /\ OwnedOrPooled'
  <2>1. OneOwner'
    BY <1>1 DEF IInv, OneOwner
  <2>2. OwnedOrPooled'
    BY <1>1, <1>2 DEF IInv, OwnedOrPooled
  <2> QED BY <2>1, <2>2
<1>4. /\ op' \in [Coroutines -> TransactionCalls \cup {"none", "query"}]
      /\ phase' \in [Coroutines -> {"none", "queued", "running", "succeeded", "failed"}]
      /\ \A d \in Coroutines : d # c => op'[d] = op[d] /\ phase'[d] = phase[d]
      /\ op'[c] # "none" /\ phase'[c] \in {"queued", "running"}
      /\ \/ op'[c] = op[c]
         \/ op'[c] \in TransactionCalls /\ conn[c] # NoConn /\ ~ended[c] /\ query[c] = NoConn /\ ~Pool!Busy(c)
         \/ op'[c] = "query" /\ query[c] # NoConn
  <2>1. ASSUME NEW o \in TransactionCalls, CallTransaction(c, o)
        PROVE  <1>4!:
    BY <2>1 DEF IInv, CallTypeOK, CallTransaction, Start, Ready, HasTransaction, TransactionCalls
  <2>2. CASE SubmitQuery(c)
    BY <2>2 DEF IInv, CallTypeOK, SubmitQuery, Start
  <2>3. CASE JobStart(c)
    BY <2>3 DEF IInv, CallTypeOK, JobStart, Control
  <2> QED BY <2>1, <2>2, <2>3
<1>5. CallTypeOK'
  BY <1>1, <1>4 DEF IInv, CallTypeOK
<1>6. Control'
  <2>1. ~Pool!Waiting(c)' /\ ~Releasing(c)'
    BY <1>2, <1>4, JobsAreNotCoroutines DEF IInv, Control, Pool!Busy, Releasing
  <2> QED BY <1>1, <1>2, <1>4, <2>1, JobsAreNotCoroutines DEF IInv, Control, TransactionCalls
<1>7. Clean'
  BY <1>1, <1>2, <1>4 DEF IInv, Clean, Ends
<1> QED BY <1>2, <1>3, <1>5, <1>6, <1>7 DEF IInv

\* COMMIT and ROLLBACK succeed only by ending the transaction, and a query
\* opens none.
LEMMA SqlEffect ==
  ASSUME NEW o \in TransactionCalls \cup {"query"}, NEW open \in BOOLEAN, NEW r \in Outcomes(o, open)
  PROVE  /\ r[1] \in BOOLEAN /\ r[2] \in BOOLEAN
         /\ o = "query" /\ ~open => ~r[1]
         /\ o \in {"commit", "rollback"} /\ r[2] => ~r[1]
<1> DEFINE Goal == /\ r[1] \in BOOLEAN /\ r[2] \in BOOLEAN
                   /\ o = "query" /\ ~open => ~r[1]
                   /\ o \in {"commit", "rollback"} /\ r[2] => ~r[1]
<1>1. ASSUME NEW x \in BOOLEAN, NEW y \in BOOLEAN, r = <<x, y>>,
             o = "query" /\ ~open => ~x, o \in {"commit", "rollback"} /\ y => ~x
      PROVE  Goal
  <2>1. r[1] = x /\ r[2] = y
    BY <1>1
  <2> QED BY <1>1, <2>1
<1> HIDE DEF Goal
<1>2. CASE r = <<open, FALSE>>
  BY <1>1, <1>2
<1>3. CASE r = <<TRUE, TRUE>> /\ o = "begin"
  BY <1>1, <1>3
<1>4. CASE r = <<FALSE, TRUE>>
  BY <1>1, <1>4
<1>5. CASE r = <<FALSE, open>>
  BY <1>1, <1>5
<1>6. CASE r = <<open, TRUE>> /\ o \in {"execute", "query"}
  BY <1>1, <1>6
<1>7. CASE r = <<FALSE, FALSE>>
  BY <1>1, <1>7
<1>8. CASE o = "begin"
  <2>1. r = <<open, FALSE>> \/ r = <<TRUE, TRUE>>
    BY <1>8 DEF Outcomes
  <2> QED BY <1>2, <1>3, <1>8, <2>1
<1>9. CASE o = "commit"
  <2>1. r = <<open, FALSE>> \/ r = <<FALSE, TRUE>>
    BY <1>9 DEF Outcomes
  <2> QED BY <1>2, <1>4, <2>1
<1>10. CASE o = "rollback"
  <2>1. r = <<FALSE, open>>
    BY <1>10 DEF Outcomes
  <2> QED BY <1>5, <2>1
<1>11. CASE o \in {"execute", "query"}
  <2>1. r = <<open, TRUE>> \/ r = <<open, FALSE>> \/ r = <<FALSE, FALSE>>
    BY <1>11 DEF Outcomes
  <2> QED BY <1>2, <1>6, <1>7, <1>11, <2>1
<1>12. o \in {"begin", "commit", "rollback", "execute", "query"}
  BY DEF TransactionCalls
<1> QED BY <1>8, <1>9, <1>10, <1>11, <1>12 DEF Goal

\* The job runs its SQL on a connection that nobody else has.
LEMMA JobEndStep == ASSUME IInv, NEW c \in Coroutines, JobEnd(c) PROVE IInv'
<1> DEFINE k == ConnOf(c)
<1>1. /\ phase[c] = "running" /\ UNCHANGED poolVars
      /\ UNCHANGED <<wants, query, conn, ended, op, abandonJob, abandonPhase>>
  BY DEF JobEnd, abandonVars
<1> PICK r \in Outcomes(op[c], inTxn[k]) :
      /\ inTxn' = [inTxn EXCEPT ![k] = r[1]]
      /\ phase' = [phase EXCEPT ![c] = IF r[2] THEN "succeeded" ELSE "failed"]
  BY DEF JobEnd
<1>2. /\ PoolInv'
      /\ \A j \in Connections : Pooled(j)' <=> Pooled(j)
      /\ \A u \in Users : (Pool!Waiting(u)' <=> Pool!Waiting(u)) /\ (Releasing(u)' <=> Releasing(u))
  BY <1>1, PoolAlone DEF IInv
<1>3. /\ k \in Connections /\ op[c] \in TransactionCalls \cup {"query"}
      /\ op[c] = "query" => k = query[c]
      /\ op[c] # "query" => k = conn[c] /\ ~ended[c] /\ query[c] = NoConn
  BY <1>1 DEF IInv, Control, CallTypeOK, MaybeConn, ConnOf
<1>4. ~Pooled(k)
  BY <1>3 DEF IInv, OwnedOrPooled
<1>5. inTxn[k] \in BOOLEAN
  BY <1>3 DEF IInv, CallTypeOK
<1> HIDE DEF k
<1>6. /\ r[1] \in BOOLEAN /\ r[2] \in BOOLEAN
      /\ op[c] = "query" /\ ~inTxn[k] => ~r[1]
      /\ op[c] \in {"commit", "rollback"} /\ r[2] => ~r[1]
  BY <1>3, <1>5, SqlEffect
<1>7. /\ \A d \in Coroutines : d # c => phase'[d] = phase[d]
      /\ phase'[c] \in {"succeeded", "failed"} /\ (phase'[c] = "succeeded" => r[2])
      /\ \A j \in Connections : inTxn'[j] = IF j = k THEN r[1] ELSE inTxn[j]
  BY <1>6 DEF IInv, CallTypeOK
<1>8. CallTypeOK'
  <2>1. inTxn' \in [Connections -> BOOLEAN]
    BY <1>6, <1>3 DEF IInv, CallTypeOK
  <2>2. phase' \in [Coroutines -> {"none", "queued", "running", "succeeded", "failed"}]
    BY DEF IInv, CallTypeOK
  <2> QED BY <1>1, <2>1, <2>2 DEF IInv, CallTypeOK
<1>9. Control'
  BY <1>1, <1>2, <1>7, JobsAreNotCoroutines DEF IInv, Control
<1>10. OneOwner'
  BY <1>1 DEF IInv, OneOwner
<1>11. OwnedOrPooled'
  BY <1>1, <1>2 DEF IInv, OwnedOrPooled
<1>12. Clean'
  <2>1. \A j \in Connections : Pooled(j)' => ~inTxn'[j]
    BY <1>2, <1>4, <1>7 DEF IInv, Clean
  <2> SUFFICES ASSUME NEW d \in Coroutines
               PROVE  /\ query[d] # NoConn => ~inTxn'[query[d]]
                      /\ conn[d] # NoConn /\ ended[d] => ~inTxn'[conn[d]]
                      /\ Ends(d)' => ~inTxn'[conn[d]]
                      /\ abandonPhase[d] = "releasing" => ~inTxn'[abandonJob[d]]
    BY <2>1, <1>1 DEF Clean
  <2>2. /\ query[d] # NoConn => query[d] \in Connections
        /\ conn[d] # NoConn => conn[d] \in Connections
        /\ abandonPhase[d] = "releasing" => abandonJob[d] \in Connections
    BY DEF IInv, CallTypeOK, MaybeConn, Control
  <2>n. k # NoConn
    BY <1>3, Sqlite3DbAssumption
  <2>3. query[d] # NoConn => ~inTxn'[query[d]]
    <3>1. query[d] # NoConn /\ query[d] = k => d = c /\ op[c] = "query"
      BY <1>3, <2>n DEF IInv, OneOwner
    <3> QED BY <3>1, <2>2, <1>6, <1>7 DEF IInv, Clean
  <2>4. conn[d] # NoConn /\ ended[d] => ~inTxn'[conn[d]]
    <3>1. conn[d] # NoConn /\ conn[d] = k => d = c /\ ~ended[c]
      BY <1>3, <2>n DEF IInv, OneOwner
    <3> QED BY <3>1, <2>2, <1>7 DEF IInv, Clean
  <2>5. Ends(d)' => ~inTxn'[conn[d]]
    <3> SUFFICES ASSUME Ends(d)' PROVE ~inTxn'[conn[d]]
      OBVIOUS
    <3>0. op[d] \in {"commit", "rollback"} /\ phase'[d] = "succeeded"
      BY <1>1 DEF Ends
    <3>1. conn[d] # NoConn /\ query[d] = NoConn
      BY <3>0 DEF IInv, Control, TransactionCalls
    <3>2. CASE d = c
      BY <3>0, <3>1, <3>2, <2>2, <1>3, <1>6, <1>7
    <3>3. CASE d # c
      <4>1. conn[d] # k
        BY <3>1, <3>3, <1>3, <2>n DEF IInv, OneOwner
      <4>2. Ends(d)
        BY <3>0, <3>3, <1>7 DEF Ends
      <4> QED BY <4>1, <4>2, <3>1, <2>2, <1>7 DEF IInv, Clean
    <3> QED BY <3>2, <3>3
  <2>6. abandonPhase[d] = "releasing" => ~inTxn'[abandonJob[d]]
    <3>1. abandonJob[d] # k
      BY <1>3, <2>n DEF IInv, OneOwner
    <3> QED BY <3>1, <2>2, <1>7 DEF IInv, Clean
  <2> QED BY <2>3, <2>4, <2>5, <2>6
<1> QED BY <1>2, <1>8, <1>9, <1>10, <1>11, <1>12 DEF IInv

\* executeQuery() gives its connection back, on the way of the result and on
\* the way of the exception.
LEMMA ReleaseQueryStep ==
  ASSUME IInv, NEW c \in Coroutines, query[c] # NoConn, ReleaseQuery(c),
         op[c] \in {"none", "query"},
         op' = [op EXCEPT ![c] = "none"], phase' = [phase EXCEPT ![c] = "none"],
         UNCHANGED <<wants, conn, ended, abandonJob, abandonPhase, inTxn>>
  PROVE  IInv'
<1> DEFINE k == query[c]
<1>1. Pool!PutBack(c, k) /\ query' = [query EXCEPT ![c] = NoConn]
  BY DEF ReleaseQuery
<1>2. k \in Connections /\ k # NoConn /\ ~Pooled(k) /\ ~inTxn[k]
  BY DEF IInv, CallTypeOK, MaybeConn, OwnedOrPooled, Clean
<1>3. /\ PoolInv'
      /\ \A j \in Connections : Pooled(j)' <=> Pooled(j) \/ j = k
      /\ \A u \in Users : /\ Pool!Waiting(u)' <=> Pool!Waiting(u)
                          /\ Releasing(u)' => Releasing(u) \/ u = c
  BY <1>1, <1>2, PutBackEffect, JobsAreNotCoroutines DEF IInv
<1>4. \A d \in Coroutines : /\ query'[d] = IF d = c THEN NoConn ELSE query[d]
                            /\ op'[d] = IF d = c THEN "none" ELSE op[d]
                            /\ phase'[d] = IF d = c THEN "none" ELSE phase[d]
  BY <1>1 DEF IInv, CallTypeOK
<1> HIDE DEF k
<1>5. CallTypeOK'
  BY <1>1 DEF IInv, CallTypeOK, MaybeConn
<1>6. Control'
  <2>1. ~Pool!Waiting(c)
    BY DEF IInv, Control
  <2> QED BY <1>3, <1>4, <2>1, JobsAreNotCoroutines DEF IInv, Control, TransactionCalls
<1>7. OneOwner'
  BY <1>4 DEF IInv, OneOwner
<1>8. OwnedOrPooled'
  <2> SUFFICES ASSUME NEW d \in Coroutines, NEW j \in Connections, Pooled(j)'
               PROVE  query'[d] # j /\ conn[d] # j /\ abandonJob[d] # j
    BY DEF OwnedOrPooled
  <2>1. CASE j = k
    BY <2>1, <1>2, <1>4 DEF IInv, OneOwner, k
  <2>2. CASE j # k
    BY <2>2, <1>3, <1>4, Sqlite3DbAssumption DEF IInv, OwnedOrPooled
  <2> QED BY <2>1, <2>2
<1>9. Clean'
  BY <1>2, <1>3, <1>4 DEF IInv, Clean, Ends
<1> QED BY <1>3, <1>5, <1>6, <1>7, <1>8, <1>9 DEF IInv

\* submit() throws, or a call returns.
LEMMA ReturnStep ==
  ASSUME IInv, NEW c \in Coroutines, SubmitThrows(c) \/ CallReturns(c)
  PROVE  IInv'
<1>1. CASE SubmitThrows(c)
  <2>1. /\ query[c] # NoConn /\ op[c] = "none" /\ ReleaseQuery(c)
        /\ UNCHANGED <<wants, conn, ended, op, phase, abandonJob, abandonPhase, inTxn>>
    BY <1>1 DEF SubmitThrows, opVars, abandonVars
  <2>2. op' = [op EXCEPT ![c] = "none"] /\ phase' = [phase EXCEPT ![c] = "none"]
    BY <2>1 DEF IInv, CallTypeOK, Control
  <2> QED BY <2>1, <2>2, ReleaseQueryStep
<1>2. CASE CallReturns(c) /\ op[c] = "query"
  <2>1. /\ ReleaseQuery(c) /\ ended' = [ended EXCEPT ![c] = @ \/ Ends(c)]
        /\ op' = [op EXCEPT ![c] = "none"] /\ phase' = [phase EXCEPT ![c] = "none"]
        /\ UNCHANGED <<wants, conn, abandonJob, abandonPhase, inTxn>>
    BY <1>2 DEF CallReturns, abandonVars
  <2>2. ~Ends(c) /\ query[c] # NoConn
    BY <1>2 DEF Ends, IInv, Control
  <2>3. ended' = ended
    BY <2>1, <2>2 DEF IInv, CallTypeOK
  <2> QED BY <2>1, <2>2, <2>3, <1>2, ReleaseQueryStep
<1>3. CASE CallReturns(c) /\ op[c] # "query"
  <2>1. /\ phase[c] \in {"succeeded", "failed"}
        /\ ended' = [ended EXCEPT ![c] = @ \/ Ends(c)]
        /\ op' = [op EXCEPT ![c] = "none"] /\ phase' = [phase EXCEPT ![c] = "none"]
        /\ UNCHANGED poolVars /\ UNCHANGED <<wants, query, conn, abandonJob, abandonPhase, inTxn>>
    BY <1>3 DEF CallReturns, abandonVars
  <2>2. op[c] \in TransactionCalls /\ conn[c] # NoConn /\ query[c] = NoConn /\ ~ended[c]
    BY <2>1, <1>3 DEF IInv, Control, CallTypeOK
  <2>3. /\ PoolInv'
        /\ \A j \in Connections : Pooled(j)' <=> Pooled(j)
        /\ \A u \in Users : (Pool!Waiting(u)' <=> Pool!Waiting(u)) /\ (Releasing(u)' <=> Releasing(u))
    BY <2>1, PoolAlone DEF IInv
  <2>4. /\ Ends(c) \in BOOLEAN
        /\ \A d \in Coroutines : /\ ended'[d] = IF d = c THEN Ends(c) ELSE ended[d]
                                 /\ op'[d] = IF d = c THEN "none" ELSE op[d]
                                 /\ phase'[d] = IF d = c THEN "none" ELSE phase[d]
    BY <2>1, <2>2 DEF IInv, CallTypeOK, Ends
  <2>5. CallTypeOK'
    <3>1. ended' \in [Coroutines -> BOOLEAN]
      BY <2>1, <2>4 DEF IInv, CallTypeOK
    <3> QED BY <2>1, <3>1 DEF IInv, CallTypeOK
  <2>6. Control'
    BY <2>1, <2>2, <2>3, <2>4, JobsAreNotCoroutines DEF IInv, Control, TransactionCalls
  <2>7. OneOwner'
    BY <2>1 DEF IInv, OneOwner
  <2>8. OwnedOrPooled'
    BY <2>1, <2>3 DEF IInv, OwnedOrPooled
  <2>9. Clean'
    <3>1. \A d \in Coroutines : Ends(d)' => Ends(d)
      BY <2>4 DEF Ends
    <3>2. \A d \in Coroutines : conn[d] # NoConn /\ ended'[d] => ~inTxn[conn[d]]
      BY <2>4 DEF IInv, Clean
    <3> QED BY <2>1, <2>3, <3>1, <3>2 DEF IInv, Clean
  <2> QED BY <2>3, <2>5, <2>6, <2>7, <2>8, <2>9 DEF IInv
<1> QED BY <1>1, <1>2, <1>3

\* The end of a transaction's scope: the connection goes back, goes to
\* abandonFn, or is dropped by a full queue.
LEMMA ScopeExitStep == ASSUME IInv, NEW c \in Coroutines, ScopeExit(c) PROVE IInv'
<1> DEFINE k == conn[c]
<1>1. /\ Ready(c) /\ k # NoConn /\ conn' = [conn EXCEPT ![c] = NoConn]
      /\ UNCHANGED <<wants, query, ended, op, phase, inTxn>>
  BY DEF ScopeExit, HasTransaction, opVars
<1>2. op[c] = "none" /\ query[c] = NoConn /\ ~Pool!Waiting(c) /\ ~Releasing(c)
  BY <1>1 DEF Ready, Pool!Busy, Releasing
<1>3. \A d \in Coroutines : conn'[d] = IF d = c THEN NoConn ELSE conn[d]
  BY <1>1 DEF IInv, CallTypeOK
<1>4. k \in Connections /\ ~Pooled(k)
  BY <1>1 DEF IInv, CallTypeOK, MaybeConn, OwnedOrPooled
<1>o. /\ \A d \in Coroutines : query[d] # k /\ abandonJob[d] # k /\ (d # c => conn[d] # k)
      /\ \A j \in Connections : j # NoConn
  BY <1>1, Sqlite3DbAssumption DEF IInv, OneOwner
<1> HIDE DEF k
<1>t. /\ op[c] \notin TransactionCalls /\ ~Ends(c)
      /\ \A d \in Coroutines : Ends(d)' <=> Ends(d)
  BY <1>1, <1>2 DEF TransactionCalls, Ends
<1>5. CASE ended[c]
  <2>1. Pool!PutBack(c, k) /\ UNCHANGED <<abandonJob, abandonPhase>>
    BY <1>5 DEF ScopeExit, AbandonUnlessEnded, abandonVars, k
  <2>2. /\ PoolInv'
        /\ \A j \in Connections : Pooled(j)' <=> Pooled(j) \/ j = k
        /\ \A u \in Users : /\ Pool!Waiting(u)' <=> Pool!Waiting(u)
                            /\ Releasing(u)' => Releasing(u) \/ u = c
    BY <2>1, <1>4, PutBackEffect, JobsAreNotCoroutines DEF IInv
  <2>3. CallTypeOK'
    BY <1>1, <2>1 DEF IInv, CallTypeOK, MaybeConn
  <2>4. Control'
    BY <1>1, <1>2, <1>3, <1>t, <2>1, <2>2, JobsAreNotCoroutines DEF IInv, Control
  <2>5. OneOwner'
    BY <1>1, <1>3, <2>1 DEF IInv, OneOwner
  <2>6. OwnedOrPooled'
    BY <1>1, <1>3, <1>o, <2>1, <2>2 DEF IInv, OwnedOrPooled
  <2>7. Clean'
    <3>1. ~inTxn[k]
      BY <1>1, <1>5 DEF IInv, Clean, k
    <3> QED BY <1>1, <1>3, <1>t, <2>1, <2>2, <3>1 DEF IInv, Clean
  <2> QED BY <2>2, <2>3, <2>4, <2>5, <2>6, <2>7 DEF IInv
<1>6. CASE ~ended[c]
  <2>1. /\ UNCHANGED poolVars /\ abandonJob[c] = NoConn /\ ~Pool!Busy(JobOf(c))
        /\ \/ UNCHANGED <<abandonJob, abandonPhase>>
           \/ /\ abandonJob' = [abandonJob EXCEPT ![c] = k]
              /\ abandonPhase' = [abandonPhase EXCEPT ![c] = "queued"]
    BY <1>6 DEF ScopeExit, AbandonUnlessEnded, FireAbandonFn, abandonVars, k
  <2>2. /\ PoolInv'
        /\ \A j \in Connections : Pooled(j)' <=> Pooled(j)
        /\ \A u \in Users : (Pool!Waiting(u)' <=> Pool!Waiting(u)) /\ (Releasing(u)' <=> Releasing(u))
    BY <2>1, PoolAlone DEF IInv
  <2>3. CASE UNCHANGED <<abandonJob, abandonPhase>>
    <3>1. CallTypeOK'
      BY <1>1, <2>3 DEF IInv, CallTypeOK, MaybeConn
    <3>2. Control'
      BY <1>1, <1>2, <1>3, <1>t, <2>3, <2>2, JobsAreNotCoroutines DEF IInv, Control
    <3>3. OneOwner'
      BY <1>1, <1>3, <2>3 DEF IInv, OneOwner
    <3>4. OwnedOrPooled'
      BY <1>1, <1>3, <1>o, <2>3, <2>2 DEF IInv, OwnedOrPooled
    <3>5. Clean'
      BY <1>1, <1>3, <1>t, <2>3, <2>2 DEF IInv, Clean
    <3> QED BY <2>2, <3>1, <3>2, <3>3, <3>4, <3>5 DEF IInv
  <2>4. CASE /\ abandonJob' = [abandonJob EXCEPT ![c] = k]
             /\ abandonPhase' = [abandonPhase EXCEPT ![c] = "queued"]
    <3>0. \A d \in Coroutines : /\ abandonJob'[d] = IF d = c THEN k ELSE abandonJob[d]
                                /\ abandonPhase'[d] = IF d = c THEN "queued" ELSE abandonPhase[d]
      BY <2>4 DEF IInv, CallTypeOK
    <3>j. ~Releasing(JobOf(c))
      BY <2>1 DEF Pool!Busy, Releasing
    <3>1. CallTypeOK'
      BY <1>1, <1>4, <2>4 DEF IInv, CallTypeOK, MaybeConn
    <3>2. Control'
      BY <1>1, <1>2, <1>3, <1>t, <3>0, <3>j, <2>2, JobsAreNotCoroutines DEF IInv, Control
    <3>3. OneOwner'
      BY <1>1, <1>3, <1>o, <3>0 DEF IInv, OneOwner
    <3>4. OwnedOrPooled'
      BY <1>1, <1>3, <1>4, <1>o, <3>0, <2>2 DEF IInv, OwnedOrPooled
    <3>5. Clean'
      BY <1>1, <1>3, <1>t, <3>0, <2>2 DEF IInv, Clean
    <3> QED BY <2>2, <3>1, <3>2, <3>3, <3>4, <3>5 DEF IInv
  <2> QED BY <2>1, <2>3, <2>4
<1> QED BY <1>5, <1>6 DEF IInv, CallTypeOK

-----------------------------------------------------------------------------
\* Every step keeps the invariant.
LEMMA Step == ASSUME IInv, [Next]_vars PROVE IInv'
<1>1. CASE UNCHANGED vars
  <2>1. UNCHANGED poolVars /\ UNCHANGED <<wants, query, conn, ended, op, phase, abandonJob, abandonPhase, inTxn>>
    BY <1>1 DEF vars, opVars, abandonVars
  <2>2. /\ PoolInv'
        /\ \A j \in Connections : Pooled(j)' <=> Pooled(j)
        /\ \A u \in Users : (Pool!Waiting(u)' <=> Pool!Waiting(u)) /\ (Releasing(u)' <=> Releasing(u))
    BY <2>1, PoolAlone DEF IInv
  <2>3. CallTypeOK' /\ OneOwner'
    BY <2>1 DEF IInv, CallTypeOK, OneOwner
  <2>4. Control'
    BY <2>1, <2>2, JobsAreNotCoroutines DEF IInv, Control
  <2>5. OwnedOrPooled' /\ Clean'
    BY <2>1, <2>2 DEF IInv, OwnedOrPooled, Clean, Ends
  <2> QED BY <2>2, <2>3, <2>4, <2>5 DEF IInv
<1>2. CASE Next
  BY <1>2, AcquireStep, SubmitStep, ReturnStep, JobEndStep, ScopeExitStep, AbandonFnStep,
     AbandonReleaseStep, HandOverStep DEF Next
<1> QED BY <1>1, <1>2

\* The invariant holds for every application that leaves abandoning a
\* transaction to its destructor.
LEMMA Invariance == Spec => []IInv
<1>1. IInv /\ [Next]_vars => IInv'
  BY Step
<1> QED BY InitHolds, <1>1, PTL DEF Spec

\* Of the jobs that use a connection one runs at a time, with any number of
\* connections and coroutines, with nested queries, transactions moved over one
\* another and a full queue: the promise of Sqlite3Connection.hpp.
THEOREM OneThreadAtATime == Spec => []NotTouchedByTwo
<1>1. IInv => NotTouchedByTwo
  <2> SUFFICES ASSUME IInv, NEW k \in Connections PROVE Cardinality(Touching(k)) <= 1
    BY DEF NotTouchedByTwo
  <2>1. \A c \in Coroutines : phase[c] = "running" /\ ConnOf(c) = k => query[c] = k \/ conn[c] = k
    BY DEF ConnOf
  <2>2. ASSUME NEW a \in Touching(k), NEW b \in Touching(k) PROVE a = b
    <3>0. k # NoConn
      BY Sqlite3DbAssumption
    <3>1. \A u \in Touching(k) :
            \/ u \in Coroutines /\ (query[u] = k \/ conn[u] = k)
            \/ \E c \in Coroutines : u = JobOf(c) /\ abandonJob[c] = k
      BY <2>1 DEF Touching
    <3>2. CASE a \in Coroutines /\ (query[a] = k \/ conn[a] = k)
      <4>1. \A c \in Coroutines : abandonJob[c] # k
        BY <3>0, <3>2 DEF IInv, OneOwner
      <4>2. b \in Coroutines /\ (query[b] = k \/ conn[b] = k)
        BY <3>1, <4>1
      <4> QED BY <3>0, <3>2, <4>2 DEF IInv, OneOwner
    <3>3. CASE \E c \in Coroutines : a = JobOf(c) /\ abandonJob[c] = k
      <4> PICK c \in Coroutines : a = JobOf(c) /\ abandonJob[c] = k
        BY <3>3
      <4>1. \A d \in Coroutines : query[d] # k /\ conn[d] # k
        BY <3>0 DEF IInv, OneOwner
      <4> PICK d \in Coroutines : b = JobOf(d) /\ abandonJob[d] = k
        BY <3>1, <4>1
      <4> QED BY <3>0 DEF IInv, OneOwner
    <3> QED BY <3>1, <3>2, <3>3
  <2>3. CASE Touching(k) = {}
    BY <2>3, FS_EmptySet
  <2>4. CASE Touching(k) # {}
    <3> PICK a : a \in Touching(k)
      BY <2>4
    <3>1. Touching(k) = {a}
      BY <2>2
    <3>2. Cardinality({a}) = 1
      BY FS_Singleton
    <3> QED BY <3>1, <3>2
  <2> QED BY <2>3, <2>4
<1> QED BY <1>1, Invariance, PTL

\* A connection that is free, on its way or granted has no transaction open,
\* however COMMIT failed and whatever the destructors did.
THEOREM NobodyInherits == Spec => []PooledAreClean
<1>1. IInv => PooledAreClean
  <2> SUFFICES ASSUME IInv, NEW k \in Connections, inTxn[k]
               PROVE  /\ \A i \in 1..Len(available) : available[i] # k
                      /\ \A h \in handing : h.item # k
                      /\ \A c \in Coroutines : slot[c] # k
    BY DEF PooledAreClean
  <2>1. ~Pooled(k)
    BY DEF IInv, Clean
  <2> QED BY <2>1, JobsAreNotCoroutines DEF Pooled
<1> QED BY <1>1, Invariance, PTL

-----------------------------------------------------------------------------
(* The database as a client of the pool *)

\* Where no transaction is moved over another, a coroutine that waits for a
\* transaction has none.
Fresh == \A c \in Coroutines : Pool!Waiting(c) /\ wants[c] = "transaction" => conn[c] = NoConn

\* What each client of the pool holds, before and after a step.
HoldingTable ==
  /\ \A c \in Coroutines : /\ Holding[c] = {query[c], conn[c]} \ {NoConn}
                           /\ Holding[JobOf(c)] = {abandonJob[c]} \ {NoConn}
  /\ Holding = [u \in Users |-> Holding[u]]

\* What the refinement mapping takes a client to hold, before and after a step.
LEMMA HoldingOf == HoldingTable /\ HoldingTable'
<1>1. HoldingTable
  <2>1. ASSUME NEW c \in Coroutines
        PROVE  /\ Holding[c] = {query[c], conn[c]} \ {NoConn}
               /\ Holding[JobOf(c)] = {abandonJob[c]} \ {NoConn}
    <3>1. {d \in Coroutines : JobOf(c) = JobOf(d)} = {c}
      BY JobsAreNotCoroutines
    <3>2. Holding[JobOf(c)] = {abandonJob[d] : d \in {d \in Coroutines : JobOf(c) = JobOf(d)}} \ {NoConn}
      BY JobsAreNotCoroutines DEF Holding
    <3>3. {abandonJob[d] : d \in {c}} = {abandonJob[c]}
      OBVIOUS
    <3>4. Holding[JobOf(c)] = {abandonJob[c]} \ {NoConn}
      BY <3>1, <3>2, <3>3
    <3>5. Holding[c] = {query[c], conn[c]} \ {NoConn}
      BY JobsAreNotCoroutines DEF Holding
    <3> QED BY <3>4, <3>5
  <2>2. Holding = [u \in Users |-> Holding[u]]
    BY DEF Holding
  <2> QED BY <2>1, <2>2 DEF HoldingTable
<1>2. HoldingTable'
  BY <1>1, PTL
<1> QED BY <1>1, <1>2

\* Who keeps its connections holds what it held.
LEMMA HoldingSame ==
  ASSUME NEW d \in Coroutines
  PROVE  /\ query'[d] = query[d] /\ conn'[d] = conn[d] => Holding'[d] = Holding[d]
         /\ abandonJob'[d] = abandonJob[d] => Holding'[JobOf(d)] = Holding[JobOf(d)]
<1>1. /\ Holding[d] = {query[d], conn[d]} \ {NoConn}
      /\ Holding'[d] = {query'[d], conn'[d]} \ {NoConn}
      /\ Holding[JobOf(d)] = {abandonJob[d]} \ {NoConn}
      /\ Holding'[JobOf(d)] = {abandonJob'[d]} \ {NoConn}
  BY HoldingOf DEF HoldingTable
<1> QED BY <1>1

\* A step changes what one client holds, ...
LEMMA HoldingChanges ==
  ASSUME NEW v \in Users, NEW H, \A u \in Users : Holding'[u] = IF u = v THEN H ELSE Holding[u]
  PROVE  Holding' = [Holding EXCEPT ![v] = H]
<1>1. Holding' = [u \in Users |-> Holding'[u]]
  BY DEF Holding
<1>2. [Holding EXCEPT ![v] = H] = [u \in Users |-> IF u = v THEN H ELSE Holding[u]]
  BY HoldingOf DEF HoldingTable
<1> QED BY <1>1, <1>2

\* ... or nothing.
LEMMA HoldingKept == ASSUME UNCHANGED <<query, conn, abandonJob>> PROVE UNCHANGED Holding
  BY DEF Holding

\* A client of the pool is a coroutine or the job of one.
LEMMA UserKinds == \A u \in Users : u \in Coroutines \/ \E c \in Coroutines : u = JobOf(c)
  BY DEF Users

\* The copies of the finite sets that the instances make.
LEMMA SameCardinality ==
  /\ \A S : Pool!Cardinality(S) = Cardinality(S)
  /\ \A S : Proved!Cardinality(S) = Cardinality(S)
  /\ \A S : Proved!IsFiniteSet(S) <=> IsFiniteSet(S)
<1>1. \A S : Pool!Cardinality(S) = Cardinality(S)
  BY DEF Pool!Cardinality, Cardinality
<1>2. \A S : Proved!Cardinality(S) = Cardinality(S)
  BY DEF Proved!Cardinality, Cardinality
<1>3. \A S : Proved!IsFiniteSet(S) <=> IsFiniteSet(S)
  BY DEF Proved!IsFiniteSet, IsFiniteSet
<1> QED BY <1>1, <1>2, <1>3

\* A coroutine that asks for a connection has one at most.
LEMMA MayAcquireWhenReady ==
  ASSUME NEW c \in Coroutines, Ready(c)
  PROVE  Pool!MayAcquire(c)
<1>1. ~Pool!Busy(c) /\ query[c] = NoConn
  BY DEF Ready
<1>2. Holding[c] = {conn[c]} \/ Holding[c] = {}
  BY <1>1, HoldingOf DEF HoldingTable
<1>3. Cardinality({conn[c]}) = 1 /\ Cardinality({}) = 0
  BY FS_Singleton, FS_EmptySet
<1>4. Cardinality(Holding[c]) < 2
  BY <1>2, <1>3
<1> QED BY <1>1, <1>4, SameCardinality DEF Pool!MayAcquire

\* acquire() of a query or of a transaction is acquire() of the pool.
LEMMA AcquireMaps ==
  ASSUME IInv, Fresh, "assign" \notin Calls, NEW c \in Coroutines,
         \/ \E w \in {"query", "transaction"} : AcquireFree(c, w) \/ AcquireWait(c, w)
         \/ AcquireResume(c)
  PROVE  Pool!AcquireFree(c) \/ Pool!AcquireWait(c) \/ Pool!AcquireResume(c)
<1>u. c \in Users
  BY JobsAreNotCoroutines
<1>g. ASSUME NEW w, NEW k \in Connections, Got(c, w, k), query[c] = NoConn,
             w = "transaction" => conn[c] = NoConn
      PROVE  Holding' = [Holding EXCEPT ![c] = Holding[c] \cup {k}]
  <2>n. k # NoConn
    BY Sqlite3DbAssumption
  <2>1. /\ \A d \in Coroutines : d # c => query'[d] = query[d] /\ conn'[d] = conn[d]
        /\ UNCHANGED abandonJob
        /\ \/ query'[c] = k /\ conn'[c] = conn[c]
           \/ query'[c] = NoConn /\ conn[c] = NoConn /\ conn'[c] = k
    BY <1>g DEF Got, HasTransaction, abandonVars, IInv, CallTypeOK
  <2>t. \A d \in Coroutines : /\ Holding[d] = {query[d], conn[d]} \ {NoConn}
                              /\ Holding'[d] = {query'[d], conn'[d]} \ {NoConn}
                              /\ Holding[JobOf(d)] = {abandonJob[d]} \ {NoConn}
                              /\ Holding'[JobOf(d)] = {abandonJob'[d]} \ {NoConn}
    BY HoldingOf DEF HoldingTable
  <2>2. /\ Holding[c] = {query[c], conn[c]} \ {NoConn} /\ Holding'[c] = {query'[c], conn'[c]} \ {NoConn}
        /\ \A d \in Coroutines : d # c => Holding'[d] = Holding[d]
        /\ \A d \in Coroutines : Holding'[JobOf(d)] = Holding[JobOf(d)]
    BY <2>1, <2>t, HoldingSame
  <2>3. Holding'[c] = Holding[c] \cup {k}
    BY <1>g, <2>n, <2>1, <2>2
  <2>4. \A u \in Users : Holding'[u] = IF u = c THEN Holding[c] \cup {k} ELSE Holding[u]
    BY <2>2, <2>3, UserKinds
  <2> QED BY <1>u, <2>4, HoldingChanges
<1>1. ASSUME NEW w \in {"query", "transaction"}, AcquireFree(c, w) PROVE Pool!AcquireFree(c)
  <2> PICK k \in Connections : Pool!TakeFree(k) /\ Got(c, w, k)
    BY <1>1 DEF AcquireFree
  <2>1. Ready(c) /\ query[c] = NoConn /\ (w = "transaction" => conn[c] = NoConn)
    BY <1>1 DEF AcquireFree, MayWant, Ready, HasTransaction
  <2>2. Holding' = [Holding EXCEPT ![c] = Holding[c] \cup {k}]
    BY <2>1, <1>g
  <2> QED BY <2>1, <2>2, MayAcquireWhenReady DEF Pool!AcquireFree
<1>2. ASSUME NEW w \in {"query", "transaction"}, AcquireWait(c, w) PROVE Pool!AcquireWait(c)
  <2>1. Ready(c) /\ Pool!Enlist(c) /\ UNCHANGED <<query, conn, abandonJob>>
    BY <1>2 DEF AcquireWait, MayWant, abandonVars
  <2> QED BY <2>1, MayAcquireWhenReady, HoldingKept DEF Pool!AcquireWait
<1>3. ASSUME AcquireResume(c) PROVE Pool!AcquireResume(c)
  <2> PICK k \in Connections : Pool!TakeGranted(c, k) /\ Got(c, wants[c], k)
    BY <1>3 DEF AcquireResume
  <2>1. k = slot[c] /\ Pool!Waiting(c)
    BY DEF Pool!TakeGranted, Pool!Posted, Pool!Waiting
  <2>2. query[c] = NoConn /\ (wants[c] = "transaction" => conn[c] = NoConn)
    BY <2>1 DEF IInv, Control, Fresh
  <2>3. Holding' = [Holding EXCEPT ![c] = Holding[c] \cup {k}]
    BY <2>2, <1>g
  <2> QED BY <2>1, <2>3 DEF Pool!AcquireResume
<1> QED BY <1>1, <1>2, <1>3

\* A connection that a query, a transaction or abandonFn gives back is released
\* by the client that holds it.
LEMMA ReleaseMaps ==
  ASSUME NEW v \in Users, NEW k \in Connections, k \in Holding[v], ~Pool!Busy(v), Pool!PutBack(v, k),
         \A u \in Users : Holding'[u] = IF u = v THEN Holding[v] \ {k} ELSE Holding[u]
  PROVE  Pool!Release(v, k)
<1>1. Holding' = [Holding EXCEPT ![v] = Holding[v] \ {k}]
  BY HoldingChanges
<1> QED BY <1>1 DEF Pool!Release

\* abandonFn releases what was passed to it.
LEMMA AbandonReleaseMaps ==
  ASSUME IInv, NEW c \in Coroutines, AbandonRelease(c)
  PROVE  \E k \in Connections : Pool!Release(JobOf(c), k)
<1> DEFINE k == abandonJob[c]
<1>1. /\ abandonPhase[c] = "releasing" /\ Pool!PutBack(JobOf(c), k)
      /\ abandonJob' = [abandonJob EXCEPT ![c] = NoConn] /\ UNCHANGED <<query, conn>>
  BY DEF AbandonRelease
<1>2. k \in Connections /\ k # NoConn
  BY <1>1 DEF IInv, Control, CallTypeOK, MaybeConn
<1>3. JobOf(c) \in Users /\ JobOf(c) \notin Coroutines
  BY JobsAreNotCoroutines
<1>4. ~Pool!Busy(JobOf(c))
  <2>1. ~Releasing(JobOf(c))
    BY <1>2 DEF IInv, Control
  <2>2. ~Pool!Waiting(JobOf(c))
    <3>1. \A n \in 1..Len(waiters) : waiters[n] \in Coroutines
      BY DEF IInv, PoolInv, PoolTypeOK
    <3>2. \A h \in handing : h.to \in Coroutines
      BY DEF IInv, PoolInv, PoolTypeOK
    <3>3. slot[JobOf(c)] = NoConn
      BY <1>3 DEF IInv, PoolInv, WaitsOnce
    <3> QED BY <1>3, <3>1, <3>2, <3>3 DEF Pool!Waiting
  <2> QED BY <2>1, <2>2 DEF Pool!Busy, Releasing
<1>5. Holding[JobOf(c)] = {k} \ {NoConn} /\ Holding'[JobOf(c)] = {abandonJob'[c]} \ {NoConn}
  BY HoldingOf DEF HoldingTable
<1>6. abandonJob'[c] = NoConn /\ \A d \in Coroutines : d # c => abandonJob'[d] = abandonJob[d]
  BY <1>1 DEF IInv, CallTypeOK
<1> HIDE DEF k
<1>7. Holding[JobOf(c)] = {k} /\ Holding'[JobOf(c)] = {}
  BY <1>2, <1>5, <1>6
<1>8. \A u \in Users : Holding'[u] = IF u = JobOf(c) THEN Holding[JobOf(c)] \ {k} ELSE Holding[u]
  <2>1. \A d \in Coroutines : Holding'[d] = Holding[d]
    BY <1>1, HoldingSame
  <2>2. \A d \in Coroutines : d # c => Holding'[JobOf(d)] = Holding[JobOf(d)]
    BY <1>6, HoldingSame
  <2> QED BY <1>3, <1>7, <2>1, <2>2, UserKinds
<1>9. Pool!Release(JobOf(c), k)
  BY <1>1, <1>2, <1>3, <1>4, <1>7, <1>8, ReleaseMaps DEF k
<1> QED BY <1>2, <1>9

\* executeQuery() releases the connection it took, ...
LEMMA ReleaseQueryMaps ==
  ASSUME IInv, NEW c \in Coroutines, query[c] # NoConn, ReleaseQuery(c), UNCHANGED <<conn, abandonJob>>
  PROVE  \E k \in Connections : Pool!Release(c, k)
<1> DEFINE k == query[c]
<1>1. Pool!PutBack(c, k) /\ query' = [query EXCEPT ![c] = NoConn]
  BY DEF ReleaseQuery
<1>2. k \in Connections /\ k # NoConn /\ conn[c] # k /\ c \in Users
  BY JobsAreNotCoroutines DEF IInv, CallTypeOK, MaybeConn, OneOwner
<1>3. ~Pool!Busy(c)
  BY DEF IInv, Control, Pool!Busy, Releasing
<1>4. Holding[c] = {k, conn[c]} \ {NoConn} /\ Holding'[c] = {query'[c], conn'[c]} \ {NoConn}
  BY HoldingOf DEF HoldingTable
<1>5. query'[c] = NoConn /\ \A d \in Coroutines : d # c => query'[d] = query[d]
  BY <1>1 DEF IInv, CallTypeOK
<1> HIDE DEF k
<1>6. k \in Holding[c] /\ Holding'[c] = Holding[c] \ {k}
  BY <1>2, <1>4, <1>5
<1>7. \A u \in Users : Holding'[u] = IF u = c THEN Holding[c] \ {k} ELSE Holding[u]
  <2>1. \A d \in Coroutines : d # c => Holding'[d] = Holding[d]
    BY <1>5, HoldingSame
  <2>2. \A d \in Coroutines : Holding'[JobOf(d)] = Holding[JobOf(d)]
    BY HoldingSame
  <2> QED BY <1>6, <2>1, <2>2, UserKinds
<1>8. Pool!Release(c, k)
  BY <1>1, <1>2, <1>3, <1>6, <1>7, ReleaseMaps DEF k
<1> QED BY <1>2, <1>8

\* ... and a transaction at the end of its scope releases it or passes it on.
LEMMA ScopeExitMaps ==
  ASSUME IInv, NEW c \in Coroutines, ScopeExit(c), "fireAndForget" \notin MeetFullQueue
  PROVE  \E k \in Connections : Pool!Release(c, k) \/ Pool!Pass(c, JobOf(c), k)
<1> DEFINE k == conn[c]
<1>1. Ready(c) /\ k # NoConn /\ conn' = [conn EXCEPT ![c] = NoConn] /\ UNCHANGED query
  BY DEF ScopeExit, HasTransaction
<1>2. ~Pool!Busy(c) /\ query[c] = NoConn
  BY <1>1 DEF Ready
<1>3. k \in Connections /\ c \in Users /\ JobOf(c) \in Users /\ JobOf(c) \notin Coroutines
  BY <1>1, JobsAreNotCoroutines DEF IInv, CallTypeOK, MaybeConn
<1>4. conn'[c] = NoConn /\ \A d \in Coroutines : d # c => conn'[d] = conn[d]
  BY <1>1 DEF IInv, CallTypeOK
<1>5. /\ Holding[c] = {query[c], k} \ {NoConn} /\ Holding'[c] = {query'[c], conn'[c]} \ {NoConn}
      /\ Holding[JobOf(c)] = {abandonJob[c]} \ {NoConn} /\ Holding'[JobOf(c)] = {abandonJob'[c]} \ {NoConn}
  BY HoldingOf DEF HoldingTable
<1>h. \A d \in Coroutines : d # c => Holding'[d] = Holding[d]
  BY <1>1, <1>4, HoldingSame
<1> HIDE DEF k
<1>6. Holding[c] = {k} /\ Holding'[c] = {}
  BY <1>1, <1>2, <1>4, <1>5
<1>7. CASE ended[c]
  <2>1. Pool!PutBack(c, k) /\ UNCHANGED abandonJob
    BY <1>7 DEF ScopeExit, AbandonUnlessEnded, abandonVars, k
  <2>2. \A u \in Users : Holding'[u] = IF u = c THEN Holding[c] \ {k} ELSE Holding[u]
    <3>1. \A d \in Coroutines : Holding'[JobOf(d)] = Holding[JobOf(d)]
      BY <2>1, HoldingSame
    <3> QED BY <1>6, <1>h, <3>1, UserKinds
  <2>3. Pool!Release(c, k)
    BY <1>2, <1>3, <1>6, <2>1, <2>2, ReleaseMaps
  <2> QED BY <1>3, <2>3
<1>8. CASE ~ended[c]
  <2>1. UNCHANGED poolVars /\ abandonJob[c] = NoConn /\ abandonJob' = [abandonJob EXCEPT ![c] = k]
    BY <1>8 DEF ScopeExit, AbandonUnlessEnded, FireAbandonFn, k
  <2>2. abandonJob'[c] = k /\ \A d \in Coroutines : d # c => abandonJob'[d] = abandonJob[d]
    BY <2>1 DEF IInv, CallTypeOK
  <2>3. Holding[JobOf(c)] = {} /\ Holding'[JobOf(c)] = {k}
    BY <1>1, <1>5, <2>1, <2>2
  <2>4. \A u \in Users : Holding'[u] = IF u = c THEN Holding[c] \ {k}
                                       ELSE IF u = JobOf(c) THEN Holding[JobOf(c)] \cup {k} ELSE Holding[u]
    <3>1. \A d \in Coroutines : d # c => Holding'[JobOf(d)] = Holding[JobOf(d)]
      BY <2>2, HoldingSame
    <3>2. Holding'[c] = Holding[c] \ {k} /\ Holding'[JobOf(c)] = Holding[JobOf(c)] \cup {k}
      BY <1>6, <2>3
    <3> QED BY <1>3, <1>h, <3>1, <3>2, UserKinds
  <2>5. Holding' = [Holding EXCEPT ![c] = @ \ {k}, ![JobOf(c)] = @ \cup {k}]
    <3>1. Holding' = [u \in Users |-> Holding'[u]] /\ Holding = [u \in Users |-> Holding[u]]
      BY HoldingOf DEF HoldingTable
    <3> HIDE DEF Holding
    <3>2. [Holding EXCEPT ![c] = @ \ {k}, ![JobOf(c)] = @ \cup {k}]
            = [u \in Users |-> IF u = c THEN Holding[c] \ {k}
                               ELSE IF u = JobOf(c) THEN Holding[JobOf(c)] \cup {k} ELSE Holding[u]]
      BY <1>3, <3>1
    <3> QED BY <2>4, <3>1, <3>2
  <2>6. Pool!Pass(c, JobOf(c), k)
    BY <1>2, <1>3, <1>6, <2>1, <2>5 DEF Pool!Pass, poolVars
  <2> QED BY <1>3, <2>6
<1> QED BY <1>7, <1>8 DEF IInv, CallTypeOK

\* A coroutine that waits makes no transaction meanwhile.
LEMMA FreshStep ==
  ASSUME IInv, Fresh, "assign" \notin Calls, [Next]_vars
  PROVE  Fresh'
<1> SUFFICES ASSUME NEW d \in Coroutines, Pool!Waiting(d)', wants'[d] = "transaction" PROVE conn'[d] = NoConn
  BY DEF Fresh
<1>u. d \in Users
  BY JobsAreNotCoroutines
<1>0. Pool!Waiting(d) /\ wants'[d] = wants[d] => conn[d] = NoConn
  BY DEF Fresh
<1>k. ASSUME UNCHANGED poolVars PROVE Pool!Waiting(d)
  BY <1>k, <1>u, PoolAlone DEF IInv
<1>1. CASE UNCHANGED vars
  <2>1. UNCHANGED poolVars /\ UNCHANGED <<wants, conn>>
    BY <1>1 DEF vars
  <2> QED BY <2>1, <1>0, <1>k
<1>2. ASSUME NEW c \in Coroutines, NEW w \in {"query", "transaction"}, AcquireFree(c, w) PROVE conn'[d] = NoConn
  <2> PICK k \in Connections : Pool!TakeFree(k) /\ Got(c, w, k)
    BY <1>2 DEF AcquireFree
  <2>1. UNCHANGED wants /\ Ready(c)
    BY <1>2 DEF AcquireFree, MayWant
  <2>2. Pool!Waiting(d)
    BY <1>u, TakeFreeEffect DEF IInv
  <2>3. d # c
    BY <2>1, <2>2 DEF Ready, Pool!Busy
  <2>4. conn'[d] = conn[d]
    BY <2>3 DEF Got, IInv, CallTypeOK
  <2> QED BY <2>1, <2>2, <2>4, <1>0
<1>3. ASSUME NEW c \in Coroutines, NEW w \in {"query", "transaction"}, AcquireWait(c, w) PROVE conn'[d] = NoConn
  <2>1. /\ MayWant(c, w) /\ Ready(c) /\ Pool!Enlist(c) /\ wants' = [wants EXCEPT ![c] = w] /\ UNCHANGED conn
    BY <1>3 DEF AcquireWait, MayWant
  <2>2. Pool!Waiting(d) \/ d = c
    BY <1>u, <2>1, EnlistEffect DEF IInv, Ready
  <2>3. CASE d = c
    <3>1. w = "transaction"
      BY <2>1, <2>3 DEF IInv, CallTypeOK
    <3> QED BY <2>1, <2>3, <3>1 DEF MayWant, HasTransaction
  <2>4. CASE d # c
    BY <2>1, <2>2, <2>4, <1>0 DEF IInv, CallTypeOK
  <2> QED BY <2>3, <2>4
<1>4. ASSUME NEW c \in Coroutines, AcquireResume(c) PROVE conn'[d] = NoConn
  <2> PICK k \in Connections : Pool!TakeGranted(c, k) /\ Got(c, wants[c], k)
    BY <1>4 DEF AcquireResume
  <2>1. wants' = [wants EXCEPT ![c] = "none"]
    BY <1>4 DEF AcquireResume
  <2>2. Pool!Waiting(d) /\ d # c
    BY <1>u, TakeGrantedEffect DEF IInv
  <2>3. conn'[d] = conn[d] /\ wants'[d] = wants[d]
    BY <2>1, <2>2 DEF Got, IInv, CallTypeOK
  <2> QED BY <2>2, <2>3, <1>0
<1>5. ASSUME NEW c \in Coroutines,
             \/ \E o \in TransactionCalls : CallTransaction(c, o)
             \/ SubmitQuery(c) \/ JobStart(c) \/ JobEnd(c) \/ AbandonStart(c) \/ AbandonRollback(c)
      PROVE  conn'[d] = NoConn
  <2>1. UNCHANGED poolVars /\ UNCHANGED <<wants, conn>>
    BY <1>5 DEF CallTransaction, SubmitQuery, JobStart, JobEnd, AbandonStart, AbandonRollback
  <2> QED BY <2>1, <1>0, <1>k
<1>6. ASSUME NEW c \in Coroutines, SubmitThrows(c) \/ CallReturns(c) PROVE conn'[d] = NoConn
  <2>1. UNCHANGED <<wants, conn>>
    BY <1>6 DEF SubmitThrows, CallReturns
  <2>2. CASE UNCHANGED poolVars
    BY <2>1, <2>2, <1>0, <1>k
  <2>3. CASE ReleaseQuery(c) /\ query[c] # NoConn
    <3>1. query[c] \in Connections /\ ~Pooled(query[c]) /\ c \in Users
      BY <2>3, JobsAreNotCoroutines DEF IInv, CallTypeOK, MaybeConn, OwnedOrPooled
    <3>2. Pool!Waiting(d)
      BY <1>u, <2>3, <3>1, PutBackEffect DEF IInv, ReleaseQuery
    <3> QED BY <2>1, <3>2, <1>0
  <2> QED BY <1>6, <2>2, <2>3 DEF SubmitThrows, CallReturns, IInv, Control
<1>7. ASSUME NEW c \in Coroutines, AbandonRelease(c) PROVE conn'[d] = NoConn
  <2>1. UNCHANGED <<wants, conn>> /\ Pool!PutBack(JobOf(c), abandonJob[c]) /\ abandonPhase[c] = "releasing"
    BY <1>7 DEF AbandonRelease
  <2>2. abandonJob[c] \in Connections /\ ~Pooled(abandonJob[c]) /\ JobOf(c) \in Users
    BY <2>1, JobsAreNotCoroutines DEF IInv, Control, CallTypeOK, MaybeConn, OwnedOrPooled
  <2>3. Pool!Waiting(d)
    BY <1>u, <2>1, <2>2, PutBackEffect DEF IInv
  <2> QED BY <2>1, <2>3, <1>0
<1>8. ASSUME NEW c \in Coroutines, ScopeExit(c) PROVE conn'[d] = NoConn
  <2>1. UNCHANGED wants /\ conn' = [conn EXCEPT ![c] = NoConn] /\ conn[c] # NoConn /\ c \in Users
    BY <1>8, JobsAreNotCoroutines DEF ScopeExit, HasTransaction
  <2>2. Pool!Waiting(d)
    <3>1. CASE UNCHANGED poolVars
      BY <3>1, <1>k
    <3>2. CASE Pool!PutBack(c, conn[c])
      <4>1. conn[c] \in Connections /\ ~Pooled(conn[c])
        BY <2>1 DEF IInv, CallTypeOK, MaybeConn, OwnedOrPooled
      <4> QED BY <1>u, <2>1, <3>2, <4>1, PutBackEffect DEF IInv
    <3> QED BY <1>8, <3>1, <3>2 DEF ScopeExit
  <2> QED BY <2>1, <2>2, <1>0 DEF IInv, CallTypeOK
<1>9. ASSUME NEW h \in handing, HandOver(h) PROVE conn'[d] = NoConn
  <2>1. Pool!HandOver(h) /\ UNCHANGED <<wants, conn>>
    BY <1>9 DEF HandOver
  <2>2. Pool!Waiting(d)
    BY <1>u, <2>1, HandOverEffect DEF IInv
  <2> QED BY <2>1, <2>2, <1>0
<1> QED BY <1>1, <1>2, <1>3, <1>4, <1>5, <1>6, <1>7, <1>8, <1>9 DEF Next

\* Every step of the database is a step of the pool or leaves it alone.
LEMMA StepMaps ==
  ASSUME IInv, Fresh, "assign" \notin Calls, "fireAndForget" \notin MeetFullQueue, [Next]_vars
  PROVE  [Pool!Next]_(Pool!vars)
<1>u. ASSUME UNCHANGED poolVars, UNCHANGED <<query, conn, abandonJob>> PROVE UNCHANGED Pool!vars
  BY <1>u, HoldingKept DEF Pool!vars, poolVars
<1>1. CASE UNCHANGED vars
  <2>1. UNCHANGED poolVars /\ UNCHANGED <<query, conn, abandonJob>>
    BY <1>1 DEF vars, abandonVars
  <2> QED BY <2>1, <1>u
<1>2. ASSUME NEW c \in Coroutines,
             \/ \E w \in {"query", "transaction"} : AcquireFree(c, w) \/ AcquireWait(c, w)
             \/ AcquireResume(c)
      PROVE  Pool!Next
  <2>1. Pool!AcquireFree(c) \/ Pool!AcquireWait(c) \/ Pool!AcquireResume(c)
    BY <1>2, AcquireMaps
  <2> QED BY <2>1 DEF Pool!Next
<1>3. ASSUME NEW c \in Coroutines,
             \/ \E o \in TransactionCalls : CallTransaction(c, o)
             \/ SubmitQuery(c) \/ JobStart(c) \/ JobEnd(c) \/ AbandonStart(c) \/ AbandonRollback(c)
      PROVE  UNCHANGED Pool!vars
  <2>1. UNCHANGED poolVars /\ UNCHANGED <<query, conn, abandonJob>>
    BY <1>3 DEF CallTransaction, SubmitQuery, JobStart, JobEnd, AbandonStart, AbandonRollback, abandonVars
  <2> QED BY <2>1, <1>u
<1>r. ASSUME NEW v \in Users, \E k \in Connections : Pool!Release(v, k) PROVE Pool!Next
  BY <1>r DEF Pool!Next
<1>c. \A c \in Coroutines : c \in Users /\ JobOf(c) \in Users
  BY JobsAreNotCoroutines
<1>4. ASSUME NEW c \in Coroutines, SubmitThrows(c) \/ CallReturns(c) PROVE [Pool!Next]_(Pool!vars)
  <2>1. UNCHANGED <<conn, abandonJob>>
    BY <1>4 DEF SubmitThrows, CallReturns, abandonVars
  <2>2. CASE UNCHANGED poolVars /\ UNCHANGED query
    BY <2>1, <2>2, <1>u
  <2>3. CASE ReleaseQuery(c) /\ query[c] # NoConn
    BY <2>1, <2>3, <1>c, <1>r, ReleaseQueryMaps
  <2> QED BY <1>4, <2>2, <2>3 DEF SubmitThrows, CallReturns, IInv, Control
<1>5. ASSUME NEW c \in Coroutines, AbandonRelease(c) PROVE Pool!Next
  BY <1>5, <1>c, <1>r, AbandonReleaseMaps
<1>6. ASSUME NEW c \in Coroutines, ScopeExit(c) PROVE Pool!Next
  <2> PICK k \in Connections : Pool!Release(c, k) \/ Pool!Pass(c, JobOf(c), k)
    BY <1>6, ScopeExitMaps
  <2> QED BY <1>c DEF Pool!Next
<1>7. ASSUME NEW h \in handing, HandOver(h) PROVE Pool!Next
  <2>1. Pool!HandOver(h) /\ UNCHANGED <<query, conn, abandonJob>>
    BY <1>7 DEF HandOver, abandonVars
  <2> QED BY <2>1, HoldingKept DEF Pool!Next
<1> QED BY <1>1, <1>2, <1>3, <1>4, <1>5, <1>6, <1>7 DEF Next

\* What is proved of the pool alone holds of the pool of the database.
LEMMA PoolKeepsItsPromises == Pool!Spec => []Pool!Conservation /\ []Pool!NoIdleItem
<1>1. Proved!PoolConstants
  BY Sqlite3DbAssumption, JobsAreNotCoroutines, SameCardinality DEF Proved!PoolConstants
<1>2. Proved!Spec => []Proved!Conservation /\ []Proved!NoIdleItem
  BY <1>1, Proved!Conserves, Proved!NothingIdle
<1>3. Proved!Conservation => Pool!Conservation
  BY DEF Proved!Conservation, Pool!Conservation, Proved!Places, Pool!Places
<1>4. Proved!NoIdleItem => Pool!NoIdleItem
  BY DEF Proved!NoIdleItem, Pool!NoIdleItem
<1>5. Pool!Init => Proved!Init
  BY SameCardinality DEF Pool!Init, Proved!Init
<1>6. [Pool!Next]_(Pool!vars) => [Proved!Next]_(Proved!vars)
  <2>b. \A c : Pool!Busy(c) <=> Proved!Busy(c)
    BY DEF Pool!Busy, Pool!Waiting, Proved!Busy, Proved!Waiting
  <2>1. ASSUME NEW c PROVE /\ Pool!AcquireFree(c) => Proved!AcquireFree(c)
                           /\ Pool!AcquireWait(c) => Proved!AcquireWait(c)
                           /\ Pool!AcquireResume(c) => Proved!AcquireResume(c)
    <3>1. Pool!MayAcquire(c) => Proved!MayAcquire(c)
      BY <2>b, SameCardinality DEF Pool!MayAcquire, Proved!MayAcquire
    <3> QED BY <3>1 DEF Pool!AcquireFree, Proved!AcquireFree, Pool!AcquireWait, Proved!AcquireWait,
                 Pool!AcquireResume, Proved!AcquireResume, Pool!TakeFree, Proved!TakeFree, Pool!Enlist,
                 Proved!Enlist, Pool!TakeGranted, Proved!TakeGranted, Pool!Posted, Proved!Posted
  <2>2. ASSUME NEW c, NEW i PROVE Pool!Release(c, i) => Proved!Release(c, i)
    BY <2>b DEF Pool!Release, Proved!Release, Pool!PutBack, Proved!PutBack, Pool!LongestWaiting,
         Proved!LongestWaiting, Pool!WithoutLongest, Proved!WithoutLongest
  <2>3. ASSUME NEW h PROVE Pool!HandOver(h) => Proved!HandOver(h)
    BY DEF Pool!HandOver, Proved!HandOver
  <2>4. ASSUME NEW c, NEW d, NEW i PROVE Pool!Pass(c, d, i) => Proved!Pass(c, d, i)
    BY <2>b DEF Pool!Pass, Proved!Pass
  <2>5. Pool!Next => Proved!Next
    BY <2>1, <2>2, <2>3, <2>4 DEF Pool!Next, Proved!Next
  <2>6. UNCHANGED Pool!vars => UNCHANGED Proved!vars
    BY DEF Pool!vars, Proved!vars
  <2> QED BY <2>5, <2>6
<1> QED BY <1>2, <1>3, <1>4, <1>5, <1>6, PTL DEF Pool!Spec, Proved!Spec

\* Where transactions are not moved over one another and the queue takes
\* abandonFn, the database implements a client of the pool: it gives back what
\* it holds, once, and so no connection is lost or in two places and none lies
\* free while a coroutine waits.
THEOREM ImplementsPool ==
  ASSUME "assign" \notin Calls, "fireAndForget" \notin MeetFullQueue
  PROVE  Spec => UsesPoolProperly
<1>1. Init => IInv /\ Fresh /\ Pool!Init
  <2>1. Init => Fresh
    BY DEF Init, Fresh
  <2> QED BY <2>1, InitHolds DEF Init
<1>2. IInv /\ Fresh /\ [Next]_vars => IInv' /\ Fresh' /\ [Pool!Next]_(Pool!vars)
  BY Step, FreshStep, StepMaps
<1>3. Spec => Pool!Spec
  BY <1>1, <1>2, PTL DEF Spec, Pool!Spec
<1> QED BY <1>3, PoolKeepsItsPromises DEF UsesPoolProperly
=============================================================================
