--------------------------- MODULE PipePoolProofs ---------------------------
(***************************************************************************)
(* Proofs about the pool of pipes for any limit and any coroutines, with   *)
(* waits that time out and pipe2() failing as they like.                   *)
(***************************************************************************)
EXTENDS PipePool, FiniteSetTheorems, SequenceTheorems, TLAPS

TypeOK ==
  /\ freePipes \in Seq(Pipes)
  /\ waiters \in Seq(Nat)
  /\ created \in Int
  /\ content \in [Pipes -> Int]
  /\ pc \in [Coroutines -> {"idle", "suspended", "filling", "draining"}]
  /\ key \in [Coroutines -> Nat]
  /\ woken \in [Coroutines -> {"no", "fired", "timedOut"}]
  /\ pipe \in [Coroutines -> Pipes \cup {NoPipe}]
  /\ remaining \in [Coroutines -> Int]
  /\ nextKey \in Nat
  /\ calm \in BOOLEAN

Open == {p \in Pipes : content[p] # -1}

\* A pipe is open while it is free or held; it is free once, and then empty,
\* or held by one coroutine.
Owned ==
  /\ created = Cardinality(Open) /\ created <= MaxPipes
  /\ \A i, j \in 1..Len(freePipes) : freePipes[i] = freePipes[j] => i = j
  /\ \A c, d \in Coroutines : pipe[c] # NoPipe /\ pipe[c] = pipe[d] => c = d
  /\ \A i \in 1..Len(freePipes) : /\ content[freePipes[i]] = 0
                                  /\ \A c \in Coroutines : pipe[c] # freePipes[i]
  /\ \A c \in Coroutines : pipe[c] # NoPipe => content[pipe[c]] # -1
  /\ \A p \in Open : \/ \E i \in 1..Len(freePipes) : freePipes[i] = p
                     \/ \E c \in Coroutines : pipe[c] = p

\* Where a coroutine is tells what it has.
Control ==
  \A c \in Coroutines :
    /\ pipe[c] # NoPipe <=> pc[c] \in {"filling", "draining"}
    /\ key[c] # 0 => pc[c] = "suspended" /\ woken[c] = "no"
    /\ woken[c] # "no" => pc[c] = "suspended"

\* Everyone who is suspended is on the list, under a key of its own; keys of
\* others are there only if a wait has timed out.
Listed ==
  /\ \A i \in 1..Len(waiters) : waiters[i] \in 1..nextKey
  /\ \A i, j \in 1..Len(waiters) : waiters[i] = waiters[j] => i = j
  /\ \A c \in Coroutines : key[c] # 0 => \E i \in 1..Len(waiters) : waiters[i] = key[c]
  /\ \A c, d \in Coroutines : key[c] # 0 /\ key[c] = key[d] => c = d
  /\ calm => \A i \in 1..Len(waiters) : \E c \in Coroutines : key[c] = waiters[i]

\* While somebody is suspended, for every pipe to be had somebody is woken.
Fired == {c \in Coroutines : woken[c] = "fired"}
ToBeHad == Len(freePipes) + MaxPipes - created
Matched ==
  /\ IsFiniteSet(Fired)
  /\ calm /\ (\E c \in Coroutines : key[c] # 0) => ToBeHad <= Cardinality(Fired)

IInv == TypeOK /\ Owned /\ Control /\ Listed /\ Matched

-----------------------------------------------------------------------------
\* Taking the last pipe, the first waiter, and adding at the end.
LEMMA Sequence ==
  ASSUME NEW S, NEW q \in Seq(S)
  PROVE  /\ Len(q) \in Nat
         /\ q # <<>> => /\ Len(q) >= 1 /\ q[Len(q)] \in S /\ Head(q) = q[1]
                        /\ Tail(q) \in Seq(S) /\ Len(Tail(q)) = Len(q) - 1
                        /\ \A k \in 1..Len(q) - 1 : Tail(q)[k] = q[k + 1]
                        /\ SubSeq(q, 1, Len(q) - 1) \in Seq(S)
                        /\ Len(SubSeq(q, 1, Len(q) - 1)) = Len(q) - 1
                        /\ \A k \in 1..Len(q) - 1 : SubSeq(q, 1, Len(q) - 1)[k] = q[k]
         /\ \A e \in S : /\ Append(q, e) \in Seq(S) /\ Len(Append(q, e)) = Len(q) + 1
                         /\ \A k \in 1..Len(q) : Append(q, e)[k] = q[k]
                         /\ Append(q, e)[Len(q) + 1] = e
<1>1. Len(q) \in Nat /\ \A k \in 1..Len(q) : q[k] \in S
  OBVIOUS
<1>2. ASSUME q # <<>>
      PROVE  /\ Len(q) >= 1 /\ q[Len(q)] \in S /\ Head(q) = q[1]
             /\ Tail(q) \in Seq(S) /\ Len(Tail(q)) = Len(q) - 1
             /\ \A k \in 1..Len(q) - 1 : Tail(q)[k] = q[k + 1]
  BY <1>2
<1>3. ASSUME q # <<>>
      PROVE  /\ SubSeq(q, 1, Len(q) - 1) \in Seq(S)
             /\ Len(SubSeq(q, 1, Len(q) - 1)) = Len(q) - 1
             /\ \A k \in 1..Len(q) - 1 : SubSeq(q, 1, Len(q) - 1)[k] = q[k]
  <2> DEFINE n == Len(q) - 1
  <2>1. n \in Nat /\ \A k \in 1..n : q[k] \in S
    BY <1>1, <1>2, <1>3
  <2> HIDE DEF n
  <2>2. /\ SubSeq(q, 1, n) \in Seq(S)
        /\ Len(SubSeq(q, 1, n)) = IF 1 <= n THEN n - 1 + 1 ELSE 0
        /\ \A k \in 1..n - 1 + 1 : SubSeq(q, 1, n)[k] = q[1 + k - 1]
    BY <2>1, SubSeqProperties
  <2>3. Len(SubSeq(q, 1, n)) = n /\ \A k \in 1..n : SubSeq(q, 1, n)[k] = q[k]
    BY <2>1, <2>2
  <2> QED BY <2>2, <2>3 DEF n
<1>4. \A e \in S : /\ Append(q, e) \in Seq(S) /\ Len(Append(q, e)) = Len(q) + 1
                   /\ \A k \in 1..Len(q) : Append(q, e)[k] = q[k]
                   /\ Append(q, e)[Len(q) + 1] = e
  OBVIOUS
<1> QED BY <1>1, <1>2, <1>3, <1>4

\* What the invariant says of the pipes is what PipesAccounted says.
LEMMA Accounted == IInv => PipesAccounted
<1> SUFFICES ASSUME IInv PROVE PipesAccounted
  OBVIOUS
<1>1. ASSUME NEW p \in Pipes
      PROVE  Cardinality({i \in 1..Len(freePipes) : freePipes[i] = p})
               + Cardinality({c \in Coroutines : pipe[c] = p}) = IF content[p] = -1 THEN 0 ELSE 1
  <2> DEFINE F == {i \in 1..Len(freePipes) : freePipes[i] = p}
             H == {c \in Coroutines : pipe[c] = p}
  <2>0. p # NoPipe
    BY PipePoolAssumption
  <2>1. CASE content[p] = -1
    <3>1. F = {} /\ H = {}
      BY <2>0, <2>1 DEF IInv, Owned
    <3>2. Cardinality({}) = 0
      BY FS_EmptySet
    <3> HIDE DEF F, H
    <3>3. Cardinality(F) = 0 /\ Cardinality(H) = 0
      BY <3>1, <3>2
    <3> QED BY <2>1, <3>3 DEF F, H
  <2>2. CASE content[p] # -1 /\ \E i \in 1..Len(freePipes) : freePipes[i] = p
    <3> PICK i \in 1..Len(freePipes) : freePipes[i] = p
      BY <2>2
    <3>1. F = {i} /\ H = {}
      BY DEF IInv, Owned
    <3>2. Cardinality({i}) = 1 /\ Cardinality({}) = 0
      BY FS_Singleton, FS_EmptySet
    <3> HIDE DEF F, H
    <3>3. Cardinality(F) = 1 /\ Cardinality(H) = 0
      BY <3>1, <3>2
    <3> QED BY <2>2, <3>3 DEF F, H
  <2>3. CASE content[p] # -1 /\ \E c \in Coroutines : pipe[c] = p
    <3> PICK c \in Coroutines : pipe[c] = p
      BY <2>3
    <3>1. F = {} /\ H = {c}
      BY <2>0 DEF IInv, Owned
    <3>2. Cardinality({c}) = 1 /\ Cardinality({}) = 0
      BY FS_Singleton, FS_EmptySet
    <3> HIDE DEF F, H
    <3>3. Cardinality(F) = 0 /\ Cardinality(H) = 1
      BY <3>1, <3>2
    <3> QED BY <2>3, <3>3 DEF F, H
  <2> QED BY <2>1, <2>2, <2>3 DEF IInv, Owned, Open
<1> QED BY <1>1 DEF PipesAccounted, IInv, Owned, Open

\* At first nothing is open and nobody waits.
LEMMA InitHolds == Init => IInv
<1> SUFFICES ASSUME Init PROVE IInv
  OBVIOUS
<1>1. Open = {} /\ Fired = {}
  BY DEF Init, Open, Fired
<1>2. IsFiniteSet({}) /\ Cardinality({}) = 0
  BY FS_EmptySet
<1>3. TypeOK
  BY DEF Init, TypeOK
<1>4. Owned
  BY <1>1, <1>2, PipePoolAssumption DEF Init, Owned
<1>5. Control /\ Listed
  BY DEF Init, Control, Listed
<1>6. Matched
  BY <1>1, <1>2 DEF Init, Matched
<1> QED BY <1>3, <1>4, <1>5, <1>6 DEF IInv

-----------------------------------------------------------------------------
(* acquire() *)

\* A coroutine that has no pipe and is suspended under no key gets a pipe,
\* makes one or gets a key.
LEMMA AcquireStep ==
  ASSUME IInv, NEW c \in Coroutines, Acquire(c),
         pc[c] \in {"idle", "suspended"}, key[c] = 0,
         woken' = [woken EXCEPT ![c] = "no"],
         remaining' \in [Coroutines -> Int],
         UNCHANGED calm
  PROVE  IInv'
<1>p. pipe[c] = NoPipe
  BY DEF IInv, Control
<1>w. \A d \in Coroutines : woken'[d] = IF d = c THEN "no" ELSE woken[d]
  BY DEF IInv, TypeOK
<1>f. /\ Fired' = Fired \ {c} /\ IsFiniteSet(Fired')
      /\ Cardinality(Fired) \in Nat /\ Cardinality(Fired') \in Nat
      /\ Cardinality(Fired') >= Cardinality(Fired) - 1
  <2>1. Fired' = Fired \ {c}
    BY <1>w DEF Fired
  <2>2. IsFiniteSet(Fired) /\ Cardinality(Fired) \in Nat
    BY FS_CardinalityType DEF IInv, Matched
  <2>3. IsFiniteSet(Fired \ {c})
        /\ Cardinality(Fired \ {c}) = IF c \in Fired THEN Cardinality(Fired) - 1 ELSE Cardinality(Fired)
    BY <2>2, FS_RemoveElement
  <2>4. c \in Fired => Cardinality(Fired) # 0
    BY <2>2, FS_EmptySet
  <2> QED BY <2>1, <2>2, <2>3, <2>4
<1>q. Len(freePipes) \in Nat /\ created \in Int /\ MaxPipes \in Nat
  <2>1. MaxPipes \in Nat
    BY PipePoolAssumption
  <2>2. freePipes \in Seq(Pipes) /\ created \in Int
    BY DEF IInv, TypeOK
  <2>3. Len(freePipes) \in Nat
    BY <2>2
  <2> QED BY <2>1, <2>2, <2>3
<1>1. CASE TakeFree(c)
  <2> DEFINE p == freePipes[Len(freePipes)]
  <2>1. /\ freePipes # <<>> /\ pipe' = [pipe EXCEPT ![c] = p] /\ pc' = [pc EXCEPT ![c] = "filling"]
        /\ freePipes' = SubSeq(freePipes, 1, Len(freePipes) - 1)
        /\ UNCHANGED <<created, content, waiters, key, nextKey>>
    BY <1>1 DEF TakeFree, Hold
  <2>2. /\ Len(freePipes) >= 1 /\ p \in Pipes /\ freePipes' \in Seq(Pipes) /\ Len(freePipes') = Len(freePipes) - 1
        /\ \A k \in 1..Len(freePipes') : k \in 1..Len(freePipes) /\ freePipes'[k] = freePipes[k]
    <3>1. freePipes \in Seq(Pipes)
      BY DEF IInv, TypeOK
    <3> HIDE DEF p
    <3>2. /\ Len(freePipes) >= 1 /\ freePipes[Len(freePipes)] \in Pipes
          /\ freePipes' \in Seq(Pipes) /\ Len(freePipes') = Len(freePipes) - 1
          /\ \A k \in 1..Len(freePipes) - 1 : freePipes'[k] = freePipes[k]
      BY <2>1, <3>1, Sequence
    <3> QED BY <3>2, <1>q DEF p
  <2>3. /\ p # NoPipe /\ content[p] = 0 /\ \A d \in Coroutines : pipe[d] # p
        /\ \A k \in 1..Len(freePipes') : freePipes'[k] # p
    BY <2>2, <1>q, PipePoolAssumption DEF IInv, Owned
  <2>e. \A q \in Pipes : (\E k \in 1..Len(freePipes) : freePipes[k] = q) =>
          q = p \/ \E k \in 1..Len(freePipes') : freePipes'[k] = q
    BY <2>2, <1>q
  <2> HIDE DEF p
  <2>4. \A d \in Coroutines : /\ pipe'[d] = IF d = c THEN p ELSE pipe[d]
                              /\ pc'[d] = IF d = c THEN "filling" ELSE pc[d]
    BY <2>1 DEF IInv, TypeOK
  <2>5. TypeOK'
    BY <2>1, <2>2 DEF IInv, TypeOK
  <2>6. Owned'
    <3>1. Open' = Open
      BY <2>1 DEF Open
    <3>2. \A d, e \in Coroutines : pipe'[d] # NoPipe /\ pipe'[d] = pipe'[e] => d = e
      BY <2>3, <2>4 DEF IInv, Owned
    <3>3. \A k \in 1..Len(freePipes') : content'[freePipes'[k]] = 0 /\ \A d \in Coroutines : pipe'[d] # freePipes'[k]
      BY <2>1, <2>2, <2>3, <2>4 DEF IInv, Owned
    <3>4. \A q \in Open' : \/ \E k \in 1..Len(freePipes') : freePipes'[k] = q
                           \/ \E d \in Coroutines : pipe'[d] = q
      BY <2>e, <2>4, <3>1, <1>p, PipePoolAssumption DEF IInv, Owned, Open
    <3>5. \A d \in Coroutines : pipe'[d] # NoPipe => content'[pipe'[d]] # -1
      BY <2>1, <2>3, <2>4 DEF IInv, Owned
    <3>6. \A i, j \in 1..Len(freePipes') : freePipes'[i] = freePipes'[j] => i = j
      BY <2>2 DEF IInv, Owned
    <3> QED BY <2>1, <3>1, <3>2, <3>3, <3>4, <3>5, <3>6 DEF IInv, Owned
  <2>7. Control'
    BY <2>1, <2>3, <2>4, <1>w DEF IInv, Control
  <2>8. Listed'
    BY <2>1 DEF IInv, Listed
  <2>9. Matched'
    BY <2>1, <2>2, <1>q, <1>f DEF IInv, Matched, ToBeHad
  <2> QED BY <2>5, <2>6, <2>7, <2>8, <2>9 DEF IInv
<1>2. CASE Create(c)
  <2> PICK p \in Pipes : /\ content[p] = -1 /\ Hold(c, p)
                         /\ content' = [content EXCEPT ![p] = 0]
    BY <1>2 DEF Create
  <2>1. /\ freePipes = <<>> /\ created < MaxPipes /\ created' = created + 1
        /\ pipe' = [pipe EXCEPT ![c] = p] /\ pc' = [pc EXCEPT ![c] = "filling"]
        /\ UNCHANGED <<freePipes, waiters, key, nextKey>>
    BY <1>2, <1>q DEF Create, Hold, AtCapacity
  <2>3. p # NoPipe /\ \A d \in Coroutines : pipe[d] # p
    BY PipePoolAssumption DEF IInv, Owned
  <2>4. /\ \A d \in Coroutines : /\ pipe'[d] = IF d = c THEN p ELSE pipe[d]
                                 /\ pc'[d] = IF d = c THEN "filling" ELSE pc[d]
        /\ \A q \in Pipes : content'[q] = IF q = p THEN 0 ELSE content[q]
    BY <2>1 DEF IInv, TypeOK
  <2>5. TypeOK'
    <3>0. content \in [Pipes -> Int]
      BY DEF IInv, TypeOK
    <3>1. content' \in [Pipes -> Int] /\ created' \in Int
      BY <3>0, <2>1, <1>q
    <3>2. /\ pipe' \in [Coroutines -> Pipes \cup {NoPipe}]
          /\ pc' \in [Coroutines -> {"idle", "suspended", "filling", "draining"}]
          /\ woken' \in [Coroutines -> {"no", "fired", "timedOut"}]
      BY <2>1 DEF IInv, TypeOK
    <3> QED BY <2>1, <3>1, <3>2 DEF IInv, TypeOK
  <2>6. Owned'
    <3>1. Open' = Open \cup {p} /\ p \notin Open
      BY <2>4 DEF Open
    <3>2. Cardinality(Open') = Cardinality(Open) + 1
      <4>1. IsFiniteSet(Open)
        BY PipePoolAssumption, FS_Subset DEF Open
      <4> QED BY <3>1, <4>1, FS_AddElement
    <3>3. \A d, e \in Coroutines : pipe'[d] # NoPipe /\ pipe'[d] = pipe'[e] => d = e
      BY <2>3, <2>4 DEF IInv, Owned
    <3>4. \A d \in Coroutines : pipe'[d] # NoPipe => content'[pipe'[d]] # -1
      <4>1. \A d \in Coroutines : pipe[d] # NoPipe => pipe[d] \in Pipes /\ content[pipe[d]] # -1
        BY DEF IInv, Owned, TypeOK
      <4> QED BY <2>3, <2>4, <4>1
    <3>5. \A q \in Open' : \E d \in Coroutines : pipe'[d] = q
      BY <2>1, <2>4, <3>1, <1>p, PipePoolAssumption DEF IInv, Owned, Open
    <3>6. created' = Cardinality(Open') /\ created' <= MaxPipes
      BY <2>1, <3>2, <1>q DEF IInv, Owned
    <3> QED BY <2>1, <3>3, <3>4, <3>5, <3>6 DEF Owned
  <2>7. Control'
    BY <2>1, <2>3, <2>4, <1>w DEF IInv, Control
  <2>8. Listed'
    BY <2>1 DEF IInv, Listed
  <2>9. Matched'
    BY <2>1, <1>q, <1>f DEF IInv, Matched, ToBeHad
  <2> QED BY <2>5, <2>6, <2>7, <2>8, <2>9 DEF IInv
<1>3. CASE Wait(c)
  <2>1. /\ freePipes = <<>> /\ (created >= MaxPipes \/ ~calm)
        /\ nextKey' = nextKey + 1 /\ key' = [key EXCEPT ![c] = nextKey + 1]
        /\ waiters' = Append(waiters, nextKey + 1) /\ pc' = [pc EXCEPT ![c] = "suspended"]
        /\ UNCHANGED <<freePipes, created, content, pipe>>
    BY <1>3 DEF Wait, AtCapacity
  <2>2. /\ nextKey \in Nat /\ Len(waiters) \in Nat
        /\ waiters' \in Seq(Nat) /\ Len(waiters') = Len(waiters) + 1
        /\ \A k \in 1..Len(waiters) : waiters'[k] = waiters[k]
        /\ waiters'[Len(waiters) + 1] = nextKey + 1
    <3>1. waiters \in Seq(Nat) /\ nextKey \in Nat
      BY DEF IInv, TypeOK
    <3>2. nextKey + 1 \in Nat
      BY <3>1
    <3> QED BY <2>1, <3>1, <3>2, Sequence
  <2>3. \A d \in Coroutines : /\ key'[d] = IF d = c THEN nextKey + 1 ELSE key[d]
                              /\ pc'[d] = IF d = c THEN "suspended" ELSE pc[d]
    BY <2>1 DEF IInv, TypeOK
  <2>4. TypeOK'
    <3>0. key \in [Coroutines -> Nat] /\ nextKey + 1 \in Nat
      BY <2>2 DEF IInv, TypeOK
    <3>k. key' \in [Coroutines -> Nat]
      BY <3>0, <2>1
    <3>1. /\ pc' \in [Coroutines -> {"idle", "suspended", "filling", "draining"}]
          /\ woken' \in [Coroutines -> {"no", "fired", "timedOut"}]
      BY <2>1 DEF IInv, TypeOK
    <3>2. nextKey' \in Nat
      BY <2>1, <2>2
    <3> QED BY <2>1, <2>2, <3>k, <3>1, <3>2 DEF IInv, TypeOK
  <2>5. Owned'
    BY <2>1 DEF IInv, Owned, Open
  <2>6. Control'
    BY <2>1, <2>3, <1>w, <1>p DEF IInv, Control
  <2>7. Listed'
    <3>1. \A d \in Coroutines : key[d] # 0 => key[d] \in 1..nextKey
      BY DEF IInv, Listed
    <3>2. \A k \in 1..Len(waiters') : k \in 1..Len(waiters) \/ k = Len(waiters) + 1
      BY <2>2
    <3>3. \A k \in 1..Len(waiters') : waiters'[k] \in 1..nextKey'
      BY <2>1, <2>2, <3>2 DEF IInv, Listed
    <3>4. \A i, j \in 1..Len(waiters') : waiters'[i] = waiters'[j] => i = j
      <4>1. \A k \in 1..Len(waiters) : waiters[k] # nextKey + 1
        BY <2>2 DEF IInv, Listed
      <4> QED BY <2>2, <3>2, <4>1 DEF IInv, Listed
    <3>5. \A d \in Coroutines : key'[d] # 0 => \E k \in 1..Len(waiters') : waiters'[k] = key'[d]
      <4> SUFFICES ASSUME NEW d \in Coroutines, key'[d] # 0 PROVE \E k \in 1..Len(waiters') : waiters'[k] = key'[d]
        OBVIOUS
      <4>1. CASE d = c
        <5>1. Len(waiters) + 1 \in 1..Len(waiters')
          BY <2>2
        <5> QED BY <4>1, <5>1, <2>2, <2>3
      <4>2. CASE d # c
        <5> PICK k \in 1..Len(waiters) : waiters[k] = key[d]
          BY <4>2, <2>3 DEF IInv, Listed
        <5>1. k \in 1..Len(waiters') /\ waiters'[k] = waiters[k]
          BY <2>2
        <5> QED BY <4>2, <2>3, <5>1
      <4> QED BY <4>1, <4>2
    <3>6. \A d, e \in Coroutines : key'[d] # 0 /\ key'[d] = key'[e] => d = e
      BY <2>2, <2>3, <3>1 DEF IInv, Listed
    <3>7. calm => \A k \in 1..Len(waiters') : \E d \in Coroutines : key'[d] = waiters'[k]
      <4> SUFFICES ASSUME calm, NEW k \in 1..Len(waiters') PROVE \E d \in Coroutines : key'[d] = waiters'[k]
        OBVIOUS
      <4>1. CASE k = Len(waiters) + 1
        BY <4>1, <2>2, <2>3
      <4>2. CASE k \in 1..Len(waiters)
        <5> PICK d \in Coroutines : key[d] = waiters[k]
          BY <4>2 DEF IInv, Listed
        <5>1. key[d] # 0
          BY <4>2, <2>2 DEF IInv, Listed
        <5> QED BY <5>1, <4>2, <2>2, <2>3
      <4> QED BY <3>2, <4>1, <4>2
    <3> QED BY <3>3, <3>4, <3>5, <3>6, <3>7 DEF Listed
  <2>8. Matched'
    BY <2>1, <1>q, <1>f DEF Matched, ToBeHad
  <2> QED BY <2>4, <2>5, <2>6, <2>7, <2>8 DEF IInv
<1> QED BY <1>1, <1>2, <1>3 DEF Acquire

-----------------------------------------------------------------------------
(* release() and discard() *)

\* wakeOneWaiter() takes one key off the list.  Unless a wait has timed out, it
\* wakes the coroutine that has it.
LEMMA WakeEffect ==
  ASSUME IInv, WakeOneWaiter
  PROVE  /\ waiters' \in Seq(Nat)
         /\ key' \in [Coroutines -> Nat]
         /\ woken' \in [Coroutines -> {"no", "fired", "timedOut"}]
         /\ \A c \in Coroutines : (key'[c] = key[c] /\ woken'[c] = woken[c]) \/ (key[c] # 0 /\ key'[c] = 0)
         /\ \A i \in 1..Len(waiters') : waiters'[i] \in 1..nextKey
         /\ \A i, j \in 1..Len(waiters') : waiters'[i] = waiters'[j] => i = j
         /\ \A c \in Coroutines : key'[c] # 0 => \E i \in 1..Len(waiters') : waiters'[i] = key'[c]
         /\ calm => \A i \in 1..Len(waiters') : \E c \in Coroutines : key'[c] = waiters'[i]
         /\ IsFiniteSet(Fired')
         /\ calm /\ (\E c \in Coroutines : key'[c] # 0) => Cardinality(Fired') = Cardinality(Fired) + 1
<1>t. /\ waiters \in Seq(Nat) /\ key \in [Coroutines -> Nat]
      /\ woken \in [Coroutines -> {"no", "fired", "timedOut"}] /\ nextKey \in Nat /\ Len(waiters) \in Nat
  <2>1. waiters \in Seq(Nat) /\ key \in [Coroutines -> Nat]
        /\ woken \in [Coroutines -> {"no", "fired", "timedOut"}] /\ nextKey \in Nat
    BY DEF IInv, TypeOK
  <2> QED BY <2>1
<1>1. CASE waiters = <<>>
  <2>1. UNCHANGED <<waiters, key, woken>>
    BY <1>1 DEF WakeOneWaiter
  <2>2. Fired' = Fired
    BY <2>1 DEF Fired
  <2>3. \A c \in Coroutines : key[c] = 0
    BY <1>1 DEF IInv, Listed
  <2>4. IsFiniteSet(Fired)
    BY DEF IInv, Matched
  <2> QED BY <1>t, <1>1, <2>1, <2>2, <2>3, <2>4
<1>2. CASE waiters # <<>>
  <2> DEFINE h == Head(waiters)
  <2>1. /\ waiters' = Tail(waiters)
        /\ woken' = [c \in Coroutines |-> IF key[c] = h THEN "fired" ELSE woken[c]]
        /\ key' = [c \in Coroutines |-> IF key[c] = h THEN 0 ELSE key[c]]
    BY <1>2 DEF WakeOneWaiter
  <2>2. /\ Len(waiters) >= 1 /\ h = waiters[1]
        /\ waiters' \in Seq(Nat) /\ Len(waiters') = Len(waiters) - 1
        /\ \A k \in 1..Len(waiters) - 1 : waiters'[k] = waiters[k + 1]
    BY <1>t, <1>2, <2>1, Sequence
  <2>3. h \in 1..nextKey
    BY <1>t, <2>2 DEF IInv, Listed
  <2> HIDE DEF h
  <2>4. \A c \in Coroutines : /\ woken'[c] = IF key[c] = h THEN "fired" ELSE woken[c]
                              /\ key'[c] = IF key[c] = h THEN 0 ELSE key[c]
    BY <2>1
  <2>5. /\ key' \in [Coroutines -> Nat] /\ woken' \in [Coroutines -> {"no", "fired", "timedOut"}]
        /\ \A c \in Coroutines : (key'[c] = key[c] /\ woken'[c] = woken[c]) \/ (key[c] # 0 /\ key'[c] = 0)
    <3>1. h # 0
      BY <1>t, <2>3
    <3>2. key' \in [Coroutines -> Nat]
      BY <1>t, <2>1
    <3>3. woken' \in [Coroutines -> {"no", "fired", "timedOut"}]
      BY <1>t, <2>1
    <3> QED BY <2>4, <3>1, <3>2, <3>3
  <2>6. \A k \in 1..Len(waiters') : k + 1 \in 1..Len(waiters) /\ waiters'[k] = waiters[k + 1] /\ k + 1 # 1
    BY <1>t, <2>2
  <2>7. \A k \in 1..Len(waiters') : waiters'[k] \in 1..nextKey /\ waiters'[k] # h
    <3>1. 1 \in 1..Len(waiters)
      BY <1>t, <2>2
    <3>2. \A k \in 1..Len(waiters') : waiters[k + 1] \in 1..nextKey /\ waiters[k + 1] # waiters[1]
      BY <2>6, <3>1 DEF IInv, Listed
    <3> QED BY <2>2, <2>6, <3>2
  <2>8. \A i, j \in 1..Len(waiters') : waiters'[i] = waiters'[j] => i = j
    <3> SUFFICES ASSUME NEW i \in 1..Len(waiters'), NEW j \in 1..Len(waiters'), waiters'[i] = waiters'[j]
                 PROVE  i = j
      OBVIOUS
    <3>1. i + 1 = j + 1
      BY <2>6 DEF IInv, Listed
    <3> QED BY <3>1
  <2>9. \A c \in Coroutines : key'[c] # 0 => \E i \in 1..Len(waiters') : waiters'[i] = key'[c]
    <3> SUFFICES ASSUME NEW c \in Coroutines, key'[c] # 0 PROVE \E i \in 1..Len(waiters') : waiters'[i] = key'[c]
      OBVIOUS
    <3>1. key'[c] = key[c] /\ key[c] # h /\ key[c] # 0
      BY <2>4
    <3> PICK k \in 1..Len(waiters) : waiters[k] = key[c]
      BY <3>1 DEF IInv, Listed
    <3>2. k # 1
      BY <3>1, <2>2
    <3>3. k - 1 \in 1..Len(waiters') /\ waiters'[k - 1] = waiters[k]
      BY <1>t, <2>2, <3>2
    <3> QED BY <3>1, <3>3
  <2>10. ASSUME calm, NEW i \in 1..Len(waiters') PROVE \E c \in Coroutines : key'[c] = waiters'[i]
    <3> PICK c \in Coroutines : key[c] = waiters[i + 1]
      BY <2>10, <2>6 DEF IInv, Listed
    <3> QED BY <2>4, <2>6, <2>7
  <2>11. IsFiniteSet(Fired')
         /\ (calm /\ (\E c \in Coroutines : key'[c] # 0) => Cardinality(Fired') = Cardinality(Fired) + 1)
    <3>0. IsFiniteSet(Fired)
      BY DEF IInv, Matched
    <3>1. CASE \E c \in Coroutines : key[c] = h
      <4> PICK c \in Coroutines : key[c] = h
        BY <3>1
      <4>0. key[c] # 0
        BY <1>t, <2>3
      <4>1. \A d \in Coroutines : key[d] = h => d = c
        BY <4>0 DEF IInv, Listed
      <4>2. woken[c] = "no"
        BY <4>0 DEF IInv, Control
      <4>3. Fired' = Fired \cup {c} /\ c \notin Fired
        BY <2>4, <4>1, <4>2 DEF Fired
      <4> QED BY <3>0, <4>3, FS_AddElement
    <3>2. CASE ~ \E c \in Coroutines : key[c] = h
      <4>1. Fired' = Fired
        BY <2>4, <3>2 DEF Fired
      <4>2. ~calm
        <5>1. 1 \in 1..Len(waiters)
          BY <1>t, <2>2
        <5> QED BY <2>2, <3>2, <5>1 DEF IInv, Listed
      <4> QED BY <3>0, <4>1, <4>2
    <3> QED BY <3>1, <3>2
  <2> QED BY <2>2, <2>5, <2>7, <2>8, <2>9, <2>10, <2>11
<1> QED BY <1>1, <1>2

\* A coroutine that is through with its pipe releases or discards it.
LEMMA GiveBackStep ==
  ASSUME IInv, NEW c \in Coroutines, pc[c] \in {"filling", "draining"},
         \/ Release(c) /\ content' = [content EXCEPT ![pipe[c]] = 0]
         \/ Discard(c),
         Done(c), UNCHANGED <<nextKey, calm>>
  PROVE  IInv'
<1> DEFINE p == pipe[c]
<1>1. /\ p \in Pipes /\ p # NoPipe /\ content[p] # -1
      /\ \A d \in Coroutines : d # c => pipe[d] # p
      /\ \A i \in 1..Len(freePipes) : freePipes[i] # p
  BY PipePoolAssumption DEF IInv, Control, TypeOK, Owned
<1> HIDE DEF p
<1>2. /\ pc' = [pc EXCEPT ![c] = "idle"] /\ pipe' = [pipe EXCEPT ![c] = NoPipe]
      /\ remaining' = [remaining EXCEPT ![c] = 0]
  BY DEF Done
<1>3. \A d \in Coroutines : /\ pc'[d] = IF d = c THEN "idle" ELSE pc[d]
                            /\ pipe'[d] = IF d = c THEN NoPipe ELSE pipe[d]
  BY <1>2 DEF IInv, TypeOK
<1>4. WakeOneWaiter
  BY DEF Release, Discard
<1>5. /\ waiters' \in Seq(Nat) /\ key' \in [Coroutines -> Nat]
      /\ woken' \in [Coroutines -> {"no", "fired", "timedOut"}]
      /\ \A d \in Coroutines : (key'[d] = key[d] /\ woken'[d] = woken[d]) \/ (key[d] # 0 /\ key'[d] = 0)
  BY <1>4, WakeEffect
<1>6. /\ pc' \in [Coroutines -> {"idle", "suspended", "filling", "draining"}]
      /\ pipe' \in [Coroutines -> Pipes \cup {NoPipe}]
      /\ remaining' \in [Coroutines -> Int]
  <2>1. remaining \in [Coroutines -> Int]
    BY DEF IInv, TypeOK
  <2> QED BY <1>2, <2>1 DEF IInv, TypeOK
<1>7. Control'
  BY <1>3, <1>5 DEF IInv, Control
<1>8. Listed'
  <2>1. /\ \A i \in 1..Len(waiters') : waiters'[i] \in 1..nextKey
        /\ \A i, j \in 1..Len(waiters') : waiters'[i] = waiters'[j] => i = j
        /\ \A d \in Coroutines : key'[d] # 0 => \E i \in 1..Len(waiters') : waiters'[i] = key'[d]
        /\ calm => \A i \in 1..Len(waiters') : \E d \in Coroutines : key'[d] = waiters'[i]
    BY <1>4, WakeEffect
  <2>2. \A d, e \in Coroutines : key'[d] # 0 /\ key'[d] = key'[e] => d = e
    BY <1>5 DEF IInv, Listed
  <2> QED BY <2>1, <2>2 DEF Listed
<1>q. freePipes \in Seq(Pipes) /\ Len(freePipes) \in Nat /\ created \in Int /\ MaxPipes \in Nat
  <2>1. freePipes \in Seq(Pipes) /\ created \in Int
    BY DEF IInv, TypeOK
  <2> QED BY <2>1, PipePoolAssumption
<1>f. /\ IsFiniteSet(Fired') /\ Cardinality(Fired) \in Nat
      /\ calm /\ (\E d \in Coroutines : key'[d] # 0) => /\ Cardinality(Fired') = Cardinality(Fired) + 1
                                                        /\ ToBeHad <= Cardinality(Fired)
  <2>1. IsFiniteSet(Fired')
        /\ (calm /\ (\E d \in Coroutines : key'[d] # 0) => Cardinality(Fired') = Cardinality(Fired) + 1)
    BY <1>4, WakeEffect
  <2>2. Cardinality(Fired) \in Nat
    BY FS_CardinalityType DEF IInv, Matched
  <2>3. (\E d \in Coroutines : key'[d] # 0) => \E d \in Coroutines : key[d] # 0
    BY <1>5
  <2> QED BY <2>1, <2>2, <2>3 DEF IInv, Matched
<1>9. CASE Release(c) /\ content' = [content EXCEPT ![pipe[c]] = 0]
  <2>1. freePipes' = Append(freePipes, p) /\ UNCHANGED created /\ content' = [content EXCEPT ![p] = 0]
    BY <1>9 DEF Release, p
  <2>2. /\ freePipes' \in Seq(Pipes) /\ Len(freePipes') = Len(freePipes) + 1
        /\ \A k \in 1..Len(freePipes) : freePipes'[k] = freePipes[k]
        /\ freePipes'[Len(freePipes) + 1] = p
    BY <1>1, <1>q, <2>1, Sequence
  <2>3. content' \in [Pipes -> Int] /\ \A q \in Pipes : content'[q] = IF q = p THEN 0 ELSE content[q]
    <3>1. content \in [Pipes -> Int] /\ p \in Pipes
      BY <1>1 DEF IInv, TypeOK
    <3> QED BY <2>1, <3>1
  <2>4. TypeOK'
    BY <1>5, <1>6, <2>1, <2>2, <2>3 DEF IInv, TypeOK
  <2>5. Owned'
    <3>i. \A k \in 1..Len(freePipes') : \/ k = Len(freePipes) + 1 /\ freePipes'[k] = p
                                        \/ k \in 1..Len(freePipes) /\ freePipes'[k] = freePipes[k]
      BY <1>q, <2>2
    <3>j. Len(freePipes) + 1 \in 1..Len(freePipes') /\ \A k \in 1..Len(freePipes) : k \in 1..Len(freePipes')
      BY <1>q, <2>2
    <3>1. Open' = Open
      BY <1>1, <2>3 DEF Open
    <3>2. \A i, j \in 1..Len(freePipes') : freePipes'[i] = freePipes'[j] => i = j
      BY <1>1, <3>i DEF IInv, Owned
    <3>3. \A d, e \in Coroutines : pipe'[d] # NoPipe /\ pipe'[d] = pipe'[e] => d = e
      BY <1>3 DEF IInv, Owned
    <3>4. \A k \in 1..Len(freePipes') : content'[freePipes'[k]] = 0 /\ \A d \in Coroutines : pipe'[d] # freePipes'[k]
      <4>1. \A k \in 1..Len(freePipes) : freePipes[k] \in Pipes /\ freePipes[k] # NoPipe
        BY <1>q, PipePoolAssumption
      <4> QED BY <1>1, <1>3, <2>3, <3>i, <4>1 DEF IInv, Owned
    <3>5. \A d \in Coroutines : pipe'[d] # NoPipe => content'[pipe'[d]] # -1
      <4>1. \A d \in Coroutines : pipe[d] # NoPipe => pipe[d] \in Pipes /\ content[pipe[d]] # -1
        BY DEF IInv, Owned, TypeOK
      <4> QED BY <1>3, <2>3, <4>1
    <3>6. \A q \in Open' : \/ \E k \in 1..Len(freePipes') : freePipes'[k] = q
                           \/ \E d \in Coroutines : pipe'[d] = q
      <4> SUFFICES ASSUME NEW q \in Open, ~ \E d \in Coroutines : pipe'[d] = q
                   PROVE  \E k \in 1..Len(freePipes') : freePipes'[k] = q
        BY <3>1
      <4>1. CASE q = p
        BY <4>1, <2>2, <3>j
      <4>2. CASE q # p
        <5>1. \A d \in Coroutines : pipe[d] # q
          BY <4>2, <1>3 DEF p
        <5> PICK k \in 1..Len(freePipes) : freePipes[k] = q
          BY <5>1 DEF IInv, Owned
        <5> QED BY <2>2, <3>j
      <4> QED BY <4>1, <4>2
    <3> QED BY <2>1, <3>1, <3>2, <3>3, <3>4, <3>5, <3>6 DEF IInv, Owned
  <2>6. Matched'
    BY <1>f, <1>q, <2>1, <2>2 DEF Matched, ToBeHad
  <2> QED BY <1>7, <1>8, <2>4, <2>5, <2>6 DEF IInv
<1>10. CASE Discard(c)
  <2>1. UNCHANGED freePipes /\ created' = created - 1 /\ content' = [content EXCEPT ![p] = -1]
    BY <1>10 DEF Discard, p
  <2>3. content' \in [Pipes -> Int] /\ \A q \in Pipes : content'[q] = IF q = p THEN -1 ELSE content[q]
    <3>1. content \in [Pipes -> Int] /\ p \in Pipes
      BY <1>1 DEF IInv, TypeOK
    <3> QED BY <2>1, <3>1
  <2>4. TypeOK'
    <3>1. created' \in Int
      BY <1>q, <2>1
    <3> QED BY <1>5, <1>6, <2>1, <2>3, <3>1 DEF IInv, TypeOK
  <2>5. Owned'
    <3>1. Open' = Open \ {p} /\ p \in Open
      BY <1>1, <2>3 DEF Open
    <3>2. Cardinality(Open') = Cardinality(Open) - 1
      <4>1. IsFiniteSet(Open)
        BY PipePoolAssumption, FS_Subset DEF Open
      <4> QED BY <3>1, <4>1, FS_RemoveElement
    <3>3. created' = Cardinality(Open') /\ created' <= MaxPipes
      BY <1>q, <2>1, <3>2 DEF IInv, Owned
    <3>4. \A d, e \in Coroutines : pipe'[d] # NoPipe /\ pipe'[d] = pipe'[e] => d = e
      BY <1>3 DEF IInv, Owned
    <3>5. \A k \in 1..Len(freePipes') : content'[freePipes'[k]] = 0 /\ \A d \in Coroutines : pipe'[d] # freePipes'[k]
      <4>1. \A k \in 1..Len(freePipes) : freePipes[k] \in Pipes /\ freePipes[k] # NoPipe
        BY <1>q, PipePoolAssumption
      <4> QED BY <1>1, <1>3, <2>1, <2>3, <4>1 DEF IInv, Owned
    <3>6. \A d \in Coroutines : pipe'[d] # NoPipe => content'[pipe'[d]] # -1
      <4>1. \A d \in Coroutines : pipe[d] # NoPipe => pipe[d] \in Pipes /\ content[pipe[d]] # -1
        BY DEF IInv, Owned, TypeOK
      <4> QED BY <1>1, <1>3, <2>3, <4>1
    <3>7. \A q \in Open' : \/ \E k \in 1..Len(freePipes') : freePipes'[k] = q
                           \/ \E d \in Coroutines : pipe'[d] = q
      <4> SUFFICES ASSUME NEW q \in Open, q # p, ~ \E d \in Coroutines : pipe'[d] = q
                   PROVE  \E k \in 1..Len(freePipes) : freePipes[k] = q
        BY <2>1, <3>1
      <4>1. \A d \in Coroutines : pipe[d] # q
        BY <1>3 DEF p
      <4> QED BY <4>1 DEF IInv, Owned
    <3> QED BY <2>1, <3>3, <3>4, <3>5, <3>6, <3>7 DEF IInv, Owned
  <2>6. Matched'
    BY <1>f, <1>q, <2>1 DEF Matched, ToBeHad
  <2> QED BY <1>7, <1>8, <2>4, <2>5, <2>6 DEF IInv
<1> QED BY <1>9, <1>10

\* The loop of sendFileSplice() changes what is in the pipe it holds.
LEMMA LoopStep ==
  ASSUME IInv, NEW c \in Coroutines, pc[c] \in {"filling", "draining"},
         NEW n \in Int, n # -1, content' = [content EXCEPT ![pipe[c]] = n],
         NEW s \in {"filling", "draining"}, pc' = [pc EXCEPT ![c] = s],
         remaining' \in [Coroutines -> Int],
         UNCHANGED <<freePipes, waiters, created, key, woken, pipe, nextKey, calm>>
  PROVE  IInv'
<1>1. /\ pipe[c] \in Pipes /\ pipe[c] # NoPipe /\ content[pipe[c]] # -1
      /\ \A i \in 1..Len(freePipes) : freePipes[i] # pipe[c] /\ freePipes[i] \in Pipes
  <2>1. pipe[c] # NoPipe /\ pipe[c] \in Pipes
    BY DEF IInv, Control, TypeOK
  <2>2. freePipes \in Seq(Pipes)
    BY DEF IInv, TypeOK
  <2> QED BY <2>1, <2>2 DEF IInv, Owned
<1>2. content' \in [Pipes -> Int] /\ \A q \in Pipes : content'[q] = IF q = pipe[c] THEN n ELSE content[q]
  <2>1. content \in [Pipes -> Int]
    BY DEF IInv, TypeOK
  <2> QED BY <2>1
<1>3. TypeOK'
  BY <1>2 DEF IInv, TypeOK
<1>4. Owned'
  <2>1. Open' = Open
    BY <1>1, <1>2 DEF Open
  <2>2. \A d \in Coroutines : pipe[d] # NoPipe => content'[pipe[d]] # -1
    <3>1. \A d \in Coroutines : pipe[d] # NoPipe => pipe[d] \in Pipes /\ content[pipe[d]] # -1
      BY DEF IInv, Owned, TypeOK
    <3> QED BY <1>2, <3>1
  <2>3. \A i \in 1..Len(freePipes) : content'[freePipes[i]] = 0
    BY <1>1, <1>2 DEF IInv, Owned
  <2> QED BY <2>1, <2>2, <2>3 DEF IInv, Owned
<1>5. Control'
  <2>1. \A d \in Coroutines : pc'[d] = IF d = c THEN s ELSE pc[d]
    BY DEF IInv, TypeOK
  <2> QED BY <2>1 DEF IInv, Control
<1>6. Listed'
  BY DEF IInv, Listed
<1>7. Matched'
  <2>1. Fired' = Fired /\ ToBeHad' = ToBeHad
    BY DEF Fired, ToBeHad
  <2> QED BY <2>1 DEF IInv, Matched
<1> QED BY <1>3, <1>4, <1>5, <1>6, <1>7 DEF IInv

\* Every step of a coroutine keeps the invariant.
LEMMA Step == IInv /\ [Next]_vars => IInv'
<1> SUFFICES ASSUME IInv, [Next]_vars PROVE IInv'
  OBVIOUS
<1>0. CASE UNCHANGED vars
  BY <1>0 DEF vars, IInv, TypeOK, Owned, Open, Control, Listed, Matched, Fired, ToBeHad
<1>1. ASSUME NEW c \in Coroutines, SendFileSplice(c), UNCHANGED calm PROVE IInv'
  <2> PICK n \in 1..FileSize : remaining' = [remaining EXCEPT ![c] = n]
    BY <1>1 DEF SendFileSplice
  <2>1. pc[c] = "idle" /\ Acquire(c) /\ UNCHANGED woken
    BY <1>1 DEF SendFileSplice
  <2>2. key[c] = 0 /\ woken[c] = "no"
    BY <2>1 DEF IInv, Control
  <2>3. woken' = [woken EXCEPT ![c] = "no"]
    BY <2>1, <2>2 DEF IInv, TypeOK
  <2>4. remaining' \in [Coroutines -> Int]
    BY PipePoolAssumption DEF IInv, TypeOK
  <2> QED BY <1>1, <2>1, <2>2, <2>3, <2>4, AcquireStep
<1>2. ASSUME NEW c \in Coroutines, TimeOut(c), UNCHANGED calm PROVE IInv'
  <2>1. /\ ~calm /\ key[c] # 0
        /\ woken' = [woken EXCEPT ![c] = "timedOut"] /\ key' = [key EXCEPT ![c] = 0]
        /\ UNCHANGED <<freePipes, waiters, created, content, pc, pipe, remaining, nextKey, calm>>
    BY <1>2 DEF TimeOut
  <2>2. \A d \in Coroutines : /\ woken'[d] = IF d = c THEN "timedOut" ELSE woken[d]
                              /\ key'[d] = IF d = c THEN 0 ELSE key[d]
    BY <2>1 DEF IInv, TypeOK
  <2>3. TypeOK'
    BY <2>1 DEF IInv, TypeOK
  <2>4. Owned'
    BY <2>1 DEF IInv, Owned, Open
  <2>5. Control'
    BY <2>1, <2>2 DEF IInv, Control
  <2>6. Listed'
    <3>1. \A d \in Coroutines : key'[d] # 0 => key'[d] = key[d]
      BY <2>2
    <3> QED BY <2>1, <3>1 DEF IInv, Listed
  <2>7. Matched'
    <3>1. Fired' = Fired
      <4>1. woken[c] = "no"
        BY <2>1 DEF IInv, Control
      <4> QED BY <2>2, <4>1 DEF Fired
    <3> QED BY <2>1, <3>1 DEF IInv, Matched
  <2> QED BY <2>3, <2>4, <2>5, <2>6, <2>7 DEF IInv
<1>3. ASSUME NEW c \in Coroutines, ResumeFired(c), UNCHANGED calm PROVE IInv'
  <2>1. woken[c] = "fired" /\ Acquire(c) /\ woken' = [woken EXCEPT ![c] = "no"] /\ remaining' = remaining
    BY <1>3 DEF ResumeFired
  <2>2. pc[c] = "suspended" /\ key[c] = 0
    BY <2>1 DEF IInv, Control
  <2>3. remaining' \in [Coroutines -> Int]
    BY <2>1 DEF IInv, TypeOK
  <2> QED BY <1>3, <2>1, <2>2, <2>3, AcquireStep
<1>4. ASSUME NEW c \in Coroutines, ResumeTimedOut(c), UNCHANGED calm PROVE IInv'
  <2>1. /\ woken[c] = "timedOut"
        /\ pc' = [pc EXCEPT ![c] = "idle"] /\ woken' = [woken EXCEPT ![c] = "no"]
        /\ remaining' = [remaining EXCEPT ![c] = 0]
        /\ UNCHANGED <<freePipes, waiters, created, content, key, pipe, nextKey, calm>>
    BY <1>4 DEF ResumeTimedOut
  <2>2. \A d \in Coroutines : /\ woken'[d] = IF d = c THEN "no" ELSE woken[d]
                              /\ pc'[d] = IF d = c THEN "idle" ELSE pc[d]
    BY <2>1 DEF IInv, TypeOK
  <2>3. TypeOK'
    BY <2>1 DEF IInv, TypeOK
  <2>4. Owned'
    BY <2>1 DEF IInv, Owned, Open
  <2>5. Control'
    BY <2>1, <2>2 DEF IInv, Control
  <2>6. Listed'
    BY <2>1 DEF IInv, Listed
  <2>7. Matched'
    <3>1. Fired' = Fired
      BY <2>1, <2>2 DEF Fired
    <3> QED BY <2>1, <3>1 DEF IInv, Matched, ToBeHad
  <2> QED BY <2>3, <2>4, <2>5, <2>6, <2>7 DEF IInv
<1>5. ASSUME NEW c \in Coroutines, FillPipe(c), UNCHANGED calm PROVE IInv'
  <2>1. /\ pc[c] = "filling" /\ pc' = [pc EXCEPT ![c] = "draining"]
        /\ UNCHANGED <<freePipes, waiters, created, key, woken, pipe, nextKey, calm>>
    BY <1>5 DEF FillPipe
  <2> PICK n \in 1..Min({remaining[c], ChunkSize}) :
             /\ content' = [content EXCEPT ![pipe[c]] = n]
             /\ remaining' = [remaining EXCEPT ![c] = @ - n]
    BY <1>5 DEF FillPipe
  <2>2. n \in Int /\ n # -1
    OBVIOUS
  <2>3. remaining' \in [Coroutines -> Int]
    BY <2>2 DEF IInv, TypeOK
  <2> QED BY <2>1, <2>2, <2>3, LoopStep
<1>6. ASSUME NEW c \in Coroutines, DrainPart(c), UNCHANGED calm PROVE IInv'
  <2>1. pc[c] = "draining" /\ UNCHANGED <<freePipes, waiters, created, pc, key, woken, pipe, remaining, nextKey, calm>>
    BY <1>6 DEF DrainPart
  <2> PICK n \in 1..content[pipe[c]] - 1 : content' = [content EXCEPT ![pipe[c]] = @ - n]
    BY <1>6 DEF DrainPart
  <2> DEFINE m == content[pipe[c]] - n
  <2>2. m \in Int /\ m # -1
    <3>1. content[pipe[c]] \in Int
      BY <2>1 DEF IInv, TypeOK, Control
    <3> QED BY <3>1
  <2>3. content' = [content EXCEPT ![pipe[c]] = m]
    OBVIOUS
  <2>4. pc' = [pc EXCEPT ![c] = "draining"] /\ remaining' \in [Coroutines -> Int]
    BY <2>1 DEF IInv, TypeOK
  <2> HIDE DEF m
  <2> QED BY <2>1, <2>2, <2>3, <2>4, LoopStep
<1>7. ASSUME NEW c \in Coroutines, DrainRest(c), UNCHANGED calm PROVE IInv'
  <2>1. pc[c] = "draining" /\ content' = [content EXCEPT ![pipe[c]] = 0] /\ UNCHANGED <<nextKey, calm>>
    BY <1>7 DEF DrainRest
  <2>2. CASE /\ pc' = [pc EXCEPT ![c] = "filling"]
             /\ UNCHANGED <<freePipes, waiters, created, key, woken, pipe, remaining>>
    <3>1. remaining' \in [Coroutines -> Int] /\ 0 \in Int /\ 0 # -1
      BY <2>2 DEF IInv, TypeOK
    <3> QED BY <2>1, <2>2, <3>1, LoopStep
  <2>3. CASE Release(c) /\ Done(c)
    BY <2>1, <2>3, GiveBackStep
  <2> QED BY <1>7, <2>2, <2>3 DEF DrainRest
<1>8. ASSUME NEW c \in Coroutines, SpliceFails(c), UNCHANGED calm PROVE IInv'
  <2>1. pc[c] \in {"filling", "draining"} /\ Discard(c) /\ Done(c) /\ UNCHANGED <<nextKey, calm>>
    BY <1>8 DEF SpliceFails
  <2> QED BY <2>1, GiveBackStep
<1> QED BY <1>0, <1>1, <1>2, <1>3, <1>4, <1>5, <1>6, <1>7, <1>8 DEF Next

\* The invariant holds throughout.
LEMMA Invariance == Spec => []IInv
<1> QED BY InitHolds, Step, PTL DEF Spec

-----------------------------------------------------------------------------
\* However sends, failures and time-outs interleave, created_ is the number of
\* open pipes, each is in freePipes_ or with one coroutine, and a pipe given
\* back is empty (acquire(), release() and discard() of PipePool.cpp).
THEOREM NoPipeLeaks == Spec => []PipesAccounted
<1> QED BY Invariance, Accounted, PTL

\* While no wait times out and pipe2() works, no coroutine stays suspended on
\* a pool that has a pipe for it, unless somebody was woken to take that pipe
\* (wakeOneWaiter() of PipePool.cpp).
THEOREM NobodyStranded == Spec => []NoStrandedWaiter
<1>1. IInv => NoStrandedWaiter
  <2> SUFFICES ASSUME IInv, calm, \E c \in Coroutines : key[c] # 0,
                      freePipes # <<>> \/ created < MaxPipes
               PROVE  \E c \in Coroutines : woken[c] = "fired"
    BY DEF NoStrandedWaiter
  <2>1. freePipes \in Seq(Pipes) /\ created \in Int /\ created <= MaxPipes /\ MaxPipes \in Nat
    BY PipePoolAssumption DEF IInv, TypeOK, Owned
  <2>2. ToBeHad >= 1
    <3>1. Len(freePipes) \in Nat /\ (freePipes # <<>> => Len(freePipes) >= 1)
      BY <2>1, Sequence
    <3> QED BY <2>1, <3>1 DEF ToBeHad
  <2>3. ToBeHad <= Cardinality(Fired) /\ ToBeHad \in Int /\ Cardinality(Fired) \in Nat
    <3>1. Cardinality(Fired) \in Nat
      BY FS_CardinalityType DEF IInv, Matched
    <3>2. Len(freePipes) \in Nat
      BY <2>1
    <3> QED BY <2>1, <3>1, <3>2 DEF IInv, Matched, ToBeHad
  <2>4. Fired # {}
    <3>1. Cardinality({}) = 0
      BY FS_EmptySet
    <3>2. Cardinality(Fired) # 0
      BY <2>2, <2>3
    <3> QED BY <3>1, <3>2
  <2> QED BY <2>4 DEF Fired
<1> QED BY <1>1, Invariance, PTL
=============================================================================
