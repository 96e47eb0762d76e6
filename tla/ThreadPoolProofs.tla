-------------------------- MODULE ThreadPoolProofs --------------------------
(***************************************************************************)
(* Proofs about the thread pool for any set of jobs, any non-empty set of  *)
(* workers and any queue size.                                             *)
(***************************************************************************)
EXTENDS ThreadPool, TLAPS

\* The pool's own bookkeeping: what is queued is queued once and waits for a
\* worker, what runs has a worker, and a worker exits only when nothing more
\* will come.
QueueInv ==
  /\ \A i \in 1..Len(jobQueue) : jpc[jobQueue[i]] = "queued"
  /\ \A i, k \in 1..Len(jobQueue) : jobQueue[i] = jobQueue[k] => i = k
  /\ \A j \in Jobs : jpc[j] = "queued" => \E i \in 1..Len(jobQueue) : jobQueue[i] = j
  /\ \A j \in Jobs : jpc[j] \in {"running", "returned", "done", "posting"} =>
                       \E w \in Workers : worker[w] = j
  /\ \A w \in Workers : worker[w] = "exited" => stop # "no" /\ jobQueue = <<>>
  /\ stop = "joined" => \A w \in Workers : worker[w] = "exited"

\* The handshake between a job and its submitter over the flag: the flag is
\* set as soon as one of them has exchanged it, and the second one posts.
Handshake(j) ==
  /\ jpc[j] = "none" <=> co[j] \in {"idle", "rejected"}
  /\ done[j] <=> jpc[j] \in {"done", "posting", "finished"}
  /\ result[j] # "none" <=> jpc[j] \in {"returned", "done", "posting", "finished"}
  /\ co[j] \in {"submitted", "suspending", "exchanging", "suspended", "resumed"} =>
       hasExecutor[j]
  /\ co[j] \in {"exchanging", "suspended"} => caller[j]
  /\ caller[j] => co[j] \in {"exchanging", "suspended", "resumed"}
  /\ flag[j] <=> \/ co[j] = "suspended"
                 \/ co[j] = "resumed" /\ caller[j]
                 \/ hasExecutor[j] /\ jpc[j] \in {"posting", "finished"}
  /\ jpc[j] = "posting" => co[j] = "suspended"
  /\ posted[j] = IF jpc[j] = "finished" /\ caller[j] /\ co[j] \in {"suspended", "resumed"}
                 THEN 1 ELSE 0
  /\ co[j] = "resumed" => done[j]
  /\ co[j] = "resumed" /\ caller[j] => jpc[j] = "finished"

HandshakeInv == \A j \in Jobs : Handshake(j)

IInv == TypeOK /\ QueueInv /\ HandshakeInv

-----------------------------------------------------------------------------
\* What taking a job from the front of the queue leaves (workerLoop()).
LEMMA HeadTail ==
  ASSUME NEW S, NEW q \in Seq(S), q # <<>>
  PROVE  /\ Head(q) \in S /\ Head(q) = q[1]
         /\ Tail(q) \in Seq(S) /\ Len(Tail(q)) = Len(q) - 1
         /\ \A i \in 1..Len(q) - 1 : Tail(q)[i] = q[i + 1]
  OBVIOUS

\* What adding a job at the back of the queue leaves (enqueue()).
LEMMA AppendLast ==
  ASSUME NEW S, NEW q \in Seq(S), NEW e \in S
  PROVE  /\ Append(q, e) \in Seq(S) /\ Len(Append(q, e)) = Len(q) + 1 /\ Len(q) \in Nat
         /\ \A i \in 1..Len(q) : Append(q, e)[i] = q[i]
         /\ Append(q, e)[Len(q) + 1] = e
  OBVIOUS

\* Posting counts up (Executor::post()).
LEMMA PostType ==
  ASSUME TypeOK, NEW j \in Jobs PROVE [posted EXCEPT ![j] = @ + 1] \in [Jobs -> Nat]
  BY DEF TypeOK

\* Every step keeps the types and the bound on the queue (enqueue(),
\* workerLoop(), runJob() and the awaitable).
LEMMA TypeStep == ASSUME TypeOK, [Next]_vars PROVE TypeOK'
<1>0. \A j \in Jobs : [posted EXCEPT ![j] = @ + 1] \in [Jobs -> Nat]
  BY PostType
<1> USE ThreadPoolAssumption DEF TypeOK, WorkerStates, JobPhases, CoPhases, stateVars, poolVars
<1>2. ASSUME NEW j \in Jobs, Submitter(j) PROVE TypeOK'
  <2>1. CASE Submit(j) \/ FireAndForget(j)
    <3>1. jobQueue' \in Seq(Jobs) /\ Len(jobQueue') <= MaxQueueSize
      <4>1. CASE jobQueue' = jobQueue
        BY <4>1
      <4>2. CASE jobQueue' = Append(jobQueue, j) /\ ~Full
        BY <4>2, AppendLast DEF Full
      <4> QED BY <2>1, <4>1, <4>2 DEF Submit, FireAndForget, Enqueue
    <3>2. hasExecutor' \in [Jobs -> BOOLEAN]
      BY <2>1 DEF Submit, FireAndForget, Enqueue
    <3>3. co' \in [Jobs -> CoPhases] /\ jpc' \in [Jobs -> JobPhases]
      BY <2>1 DEF Submit, FireAndForget, Enqueue
    <3> QED BY <2>1, <3>1, <3>2, <3>3 DEF Submit, FireAndForget, Enqueue
  <2>2. CASE Notify(j)
    BY <2>2 DEF Notify, NotifyOne
  <2>3. CASE DropAwaitable(j) \/ AwaitReady(j) \/ SetCaller(j) \/ AwaitResume(j)
    BY <2>3 DEF DropAwaitable, AwaitReady, SetCaller, AwaitResume
  <2>4. CASE AwaitSuspend(j)
    <3>1. flag' \in [Jobs -> BOOLEAN]
      BY <2>4 DEF AwaitSuspend
    <3>2. posted' \in [Jobs -> Nat]
      <4>1. posted' = posted \/ posted' = [posted EXCEPT ![j] = @ + 1]
        BY <2>4 DEF AwaitSuspend, SelfPost, Post
      <4> QED BY <4>1, <1>0
    <3> QED BY <2>4, <3>1, <3>2 DEF AwaitSuspend
  <2> QED BY <1>2, <2>1, <2>2, <2>3, <2>4 DEF Submitter
<1>3. ASSUME NEW j \in Jobs, RunJob(j) PROVE TypeOK'
  <2>1. CASE RunCallable(j)
    BY <2>1 DEF RunCallable
  <2>3. CASE SetDone(j)
    BY <2>3 DEF SetDone
  <2>4. CASE PostCaller(j)
    BY <2>4, <1>0 DEF PostCaller, Post
  <2>2. CASE JobComplete(j)
    <3>1. flag' \in [Jobs -> BOOLEAN]
      BY <2>2 DEF JobComplete
    <3> QED BY <2>2, <3>1 DEF JobComplete
  <2> QED BY <1>3, <2>1, <2>2, <2>3, <2>4 DEF RunJob
<1>4. ASSUME NEW w \in Workers, WorkerLoop(w) PROVE TypeOK'
  <2>1. CASE TakeOrExit(w) /\ jobQueue # <<>>
    <3>1. /\ Head(jobQueue) \in Jobs
          /\ Tail(jobQueue) \in Seq(Jobs) /\ Len(Tail(jobQueue)) = Len(jobQueue) - 1
      BY <2>1, HeadTail
    <3>2. jobQueue' = Tail(jobQueue)
      BY <2>1 DEF TakeOrExit
    <3>3. jobQueue' \in Seq(Jobs) /\ Len(jobQueue') <= MaxQueueSize
      BY <3>1, <3>2
    <3>4. worker' \in [Workers -> WorkerStates \cup Jobs]
      <4>1. worker' = [worker EXCEPT ![w] = Head(jobQueue)]
        BY <2>1 DEF TakeOrExit
      <4>2. ASSUME NEW e \in Jobs PROVE [worker EXCEPT ![w] = e] \in [Workers -> WorkerStates \cup Jobs]
        OBVIOUS
      <4> QED BY <3>1, <4>1, <4>2
    <3>5. jpc' \in [Jobs -> JobPhases]
      BY <2>1 DEF TakeOrExit
    <3> QED BY <2>1, <3>3, <3>4, <3>5 DEF TakeOrExit
  <2>3. CASE TakeOrExit(w) /\ jobQueue = <<>>
    BY <2>3 DEF TakeOrExit
  <2>2. CASE SpuriousWakeup(w) \/ JobReturns(w)
    BY <2>2 DEF SpuriousWakeup, JobReturns
  <2> QED BY <1>4, <2>1, <2>2, <2>3 DEF WorkerLoop
<1>5. ASSUME Destructor PROVE TypeOK'
  BY <1>5 DEF Destructor, BeginDestruction, NotifyAll, Join
<1>6. ASSUME UNCHANGED vars PROVE TypeOK'
  BY <1>6 DEF vars
<1> QED BY <1>2, <1>3, <1>4, <1>5, <1>6 DEF Next

\* Every step keeps the handshake of every job: only the submitter and the
\* worker of that job touch its state.
LEMMA HandshakeStep == ASSUME IInv, [Next]_vars PROVE HandshakeInv'
<1> SUFFICES ASSUME NEW k \in Jobs PROVE Handshake(k)'
  BY DEF HandshakeInv
<1> USE ThreadPoolAssumption
<1>0. TypeOK /\ Handshake(k) /\ HandshakeInv
  BY DEF IInv, HandshakeInv
<1> USE <1>0 DEF TypeOK, WorkerStates, JobPhases, CoPhases, stateVars, poolVars, Handshake
<1>2. ASSUME NEW j \in Jobs, Submitter(j) PROVE Handshake(k)'
  <2>1. CASE Submit(j) \/ FireAndForget(j)
    BY <2>1 DEF Submit, FireAndForget, Enqueue, Full
  <2>2. CASE Notify(j)
    BY <2>2 DEF Notify
  <2>3. CASE DropAwaitable(j)
    BY <2>3 DEF DropAwaitable
  <2>4. CASE AwaitReady(j)
    BY <2>4 DEF AwaitReady
  <2>5. CASE SetCaller(j)
    BY <2>5 DEF SetCaller
  <2>6. CASE AwaitSuspend(j)
    BY <2>6 DEF AwaitSuspend, SelfPost, Post
  <2>7. CASE AwaitResume(j)
    BY <2>7 DEF AwaitResume
  <2> QED BY <1>2, <2>1, <2>2, <2>3, <2>4, <2>5, <2>6, <2>7 DEF Submitter
<1>3. ASSUME NEW j \in Jobs, RunJob(j) PROVE Handshake(k)'
  <2>1. CASE RunCallable(j)
    BY <2>1 DEF RunCallable
  <2>2. CASE SetDone(j)
    BY <2>2 DEF SetDone
  <2>3. CASE JobComplete(j)
    BY <2>3 DEF JobComplete
  <2>4. CASE PostCaller(j)
    BY <2>4 DEF PostCaller, Post
  <2> QED BY <1>3, <2>1, <2>2, <2>3, <2>4 DEF RunJob
<1>4. ASSUME NEW w \in Workers, WorkerLoop(w) PROVE Handshake(k)'
  <2>1. CASE TakeOrExit(w) /\ jobQueue # <<>>
    <3>1. jpc[Head(jobQueue)] = "queued" /\ Head(jobQueue) \in Jobs
      BY <2>1 DEF IInv, QueueInv
    <3> QED BY <2>1, <3>1 DEF TakeOrExit
  <2>2. CASE TakeOrExit(w) /\ jobQueue = <<>>
    BY <2>2 DEF TakeOrExit
  <2>3. CASE SpuriousWakeup(w) \/ JobReturns(w)
    BY <2>3 DEF SpuriousWakeup, JobReturns
  <2> QED BY <1>4, <2>1, <2>2, <2>3 DEF WorkerLoop
<1>5. ASSUME Destructor PROVE Handshake(k)'
  BY <1>5 DEF Destructor, BeginDestruction, NotifyAll, Join
<1>6. ASSUME UNCHANGED vars PROVE Handshake(k)'
  BY <1>6 DEF vars
<1> QED BY <1>2, <1>3, <1>4, <1>5, <1>6 DEF Next

\* Every step keeps the pool's bookkeeping of queued, running and finished
\* jobs (enqueue() and workerLoop(), under the lock).
LEMMA QueueStep == ASSUME IInv, [Next]_vars PROVE QueueInv'
<1> USE ThreadPoolAssumption
<1>0. TypeOK /\ QueueInv /\ HandshakeInv
  BY DEF IInv
<1>q. ASSUME UNCHANGED <<jobQueue, stop, jpc, worker>> PROVE QueueInv'
  BY <1>0, <1>q DEF QueueInv
<1>w. ASSUME NEW w \in Workers, worker[w] \notin Jobs, worker[w] # "exited", stop # "joined",
             worker' = [worker EXCEPT ![w] = "check"], UNCHANGED <<jobQueue, stop, jpc>>
      PROVE  QueueInv'
  BY <1>0, <1>w DEF QueueInv, TypeOK
<1> USE <1>0 DEF TypeOK, WorkerStates, JobPhases, CoPhases, stateVars, poolVars
<1>1. ASSUME NEW j \in Jobs, NEW e, Enqueue(j, e) PROVE QueueInv'
  <2>1. jpc[j] = "none"
    BY <1>1 DEF Enqueue, HandshakeInv, Handshake
  <2>2. CASE Full
    BY <1>1, <2>2 DEF Enqueue, QueueInv
  <2>3. CASE ~Full
    <3>1. /\ jobQueue' = Append(jobQueue, j) /\ jpc' = [jpc EXCEPT ![j] = "queued"]
          /\ stop = "no" /\ UNCHANGED <<worker, stop>>
      BY <1>1, <2>3 DEF Enqueue
    <3>2. /\ Len(jobQueue') = Len(jobQueue) + 1 /\ Len(jobQueue) \in Nat
          /\ \A i \in 1..Len(jobQueue) : jobQueue'[i] = jobQueue[i]
          /\ jobQueue'[Len(jobQueue) + 1] = j
      BY <3>1, AppendLast
    <3>3. \A i \in 1..Len(jobQueue) : jobQueue[i] \in Jobs /\ jobQueue[i] # j
      BY <2>1 DEF QueueInv
    <3> HIDE DEF TypeOK
    <3>4. jpc \in [Jobs -> JobPhases] /\ worker \in [Workers -> WorkerStates \cup Jobs]
      BY DEF TypeOK
    <3>5. \A i \in 1..Len(jobQueue') : jpc'[jobQueue'[i]] = "queued"
      BY <3>1, <3>2, <3>3, <3>4 DEF QueueInv
    <3>6. \A i, k \in 1..Len(jobQueue') : jobQueue'[i] = jobQueue'[k] => i = k
      BY <3>2, <3>3 DEF QueueInv
    <3>7. ASSUME NEW k \in Jobs, jpc'[k] = "queued"
          PROVE  \E i \in 1..Len(jobQueue') : jobQueue'[i] = k
      <4>1. CASE k = j
        BY <3>2, <4>1
      <4>2. CASE k # j
        <5>1. jpc[k] = "queued"
          BY <3>1, <3>4, <3>7, <4>2
        <5>2. PICK i \in 1..Len(jobQueue) : jobQueue[i] = k
          BY <5>1 DEF QueueInv
        <5> QED BY <3>2, <5>2
      <4> QED BY <4>1, <4>2
    <3>8. \A k \in Jobs : jpc'[k] \in {"running", "returned", "done", "posting"} =>
                           \E w \in Workers : worker'[w] = k
      BY <3>1, <3>4 DEF QueueInv
    <3>9. \A w \in Workers : worker'[w] # "exited"
      BY <3>1 DEF QueueInv
    <3>10. stop' # "joined"
      BY <3>1
    <3> QED BY <3>5, <3>6, <3>7, <3>8, <3>9, <3>10 DEF QueueInv
  <2> QED BY <2>2, <2>3
<1>2. ASSUME NEW j \in Jobs, Submitter(j) PROVE QueueInv'
  <2>1. CASE Submit(j) \/ FireAndForget(j)
    BY <1>1, <2>1 DEF Submit, FireAndForget
  <2>2. CASE Notify(j)
    <3>1. UNCHANGED <<jobQueue, stop, jpc>>
      BY <2>2 DEF Notify
    <3>2. CASE UNCHANGED worker
      BY <3>1, <3>2, <1>q
    <3>3. ASSUME NEW w \in Workers, worker[w] = "waiting", worker' = [worker EXCEPT ![w] = "check"]
          PROVE  QueueInv'
      <4>1. worker[w] \notin Jobs
        BY <3>3
      <4>2. worker[w] # "exited" /\ stop # "joined"
        BY <3>3 DEF QueueInv
      <4> QED BY <3>1, <3>3, <4>1, <4>2, <1>w
    <3> QED BY <2>2, <3>2, <3>3 DEF Notify, NotifyOne
  <2>3. CASE DropAwaitable(j) \/ AwaitReady(j) \/ SetCaller(j) \/ AwaitResume(j) \/ AwaitSuspend(j)
    <3>1. UNCHANGED <<jobQueue, stop, jpc, worker>>
      BY <2>3 DEF DropAwaitable, AwaitReady, SetCaller, AwaitResume, AwaitSuspend
    <3> QED BY <3>1, <1>q
  <2> QED BY <1>2, <2>1, <2>2, <2>3 DEF Submitter
<1>3. ASSUME NEW j \in Jobs, RunJob(j) PROVE QueueInv'
  <2>1. UNCHANGED <<jobQueue, stop, worker>>
    BY <1>3 DEF RunJob, RunCallable, SetDone, JobComplete, PostCaller
  <2>2. /\ \A k \in Jobs : k # j => jpc'[k] = jpc[k]
        /\ jpc[j] \in {"running", "returned", "done", "posting"}
        /\ jpc'[j] # "queued"
    BY <1>3 DEF RunJob, RunCallable, SetDone, JobComplete, PostCaller
  <2>3. \A i \in 1..Len(jobQueue) : jobQueue[i] \in Jobs /\ jobQueue[i] # j
    BY <2>2 DEF QueueInv
  <2> HIDE DEF TypeOK
  <2>4. \A i \in 1..Len(jobQueue') : jpc'[jobQueue'[i]] = "queued"
    BY <2>1, <2>2, <2>3 DEF QueueInv
  <2>5. \A k \in Jobs : jpc'[k] = "queued" => \E i \in 1..Len(jobQueue') : jobQueue'[i] = k
    BY <2>1, <2>2 DEF QueueInv
  <2>6. \A k \in Jobs : jpc'[k] \in {"running", "returned", "done", "posting"} =>
                         \E w \in Workers : worker'[w] = k
    BY <2>1, <2>2 DEF QueueInv
  <2> QED BY <2>1, <2>4, <2>5, <2>6 DEF QueueInv
<1>4. ASSUME NEW w \in Workers, WorkerLoop(w) PROVE QueueInv'
  <2>1. CASE TakeOrExit(w) /\ jobQueue # <<>>
    <3> DEFINE h == Head(jobQueue)
    <3>1. /\ h \in Jobs /\ h = jobQueue[1]
          /\ Len(Tail(jobQueue)) = Len(jobQueue) - 1 /\ Len(jobQueue) \in Nat \ {0}
          /\ \A i \in 1..Len(jobQueue) - 1 : Tail(jobQueue)[i] = jobQueue[i + 1]
      BY <2>1, HeadTail
    <3>2. /\ jobQueue' = Tail(jobQueue) /\ worker' = [worker EXCEPT ![w] = h]
          /\ jpc' = [jpc EXCEPT ![h] = "running"] /\ stop' = stop /\ worker[w] = "check"
      BY <2>1 DEF TakeOrExit
    <3>3. /\ jpc \in [Jobs -> JobPhases] /\ worker \in [Workers -> WorkerStates \cup Jobs]
          /\ \A i \in 1..Len(jobQueue) : jobQueue[i] \in Jobs
      OBVIOUS
    <3> HIDE DEF TypeOK, h
    <3>4. \A i \in 2..Len(jobQueue) : jobQueue[i] # h
      BY <3>1 DEF QueueInv
    <3>5. \A i \in 1..Len(jobQueue') : jobQueue'[i] = jobQueue[i + 1] /\ i + 1 \in 2..Len(jobQueue)
      BY <3>1, <3>2
    <3>6. \A i \in 1..Len(jobQueue') : jpc'[jobQueue'[i]] = "queued"
      BY <3>1, <3>2, <3>3, <3>4, <3>5 DEF QueueInv
    <3>7. \A i, k \in 1..Len(jobQueue') : jobQueue'[i] = jobQueue'[k] => i = k
      BY <3>1, <3>2, <3>5 DEF QueueInv
    <3>8. ASSUME NEW k \in Jobs, jpc'[k] = "queued"
          PROVE  \E i \in 1..Len(jobQueue') : jobQueue'[i] = k
      <4>1. jpc[k] = "queued" /\ k # h
        BY <3>1, <3>2, <3>3, <3>8
      <4>2. PICK i \in 1..Len(jobQueue) : jobQueue[i] = k
        BY <4>1 DEF QueueInv
      <4>3. i - 1 \in 1..Len(jobQueue') /\ jobQueue'[i - 1] = k
        BY <3>1, <3>2, <3>5, <4>1, <4>2
      <4> QED BY <4>3
    <3>9. ASSUME NEW k \in Jobs, jpc'[k] \in {"running", "returned", "done", "posting"}
          PROVE  \E v \in Workers : worker'[v] = k
      <4>1. CASE k = h
        BY <3>2, <3>3, <4>1
      <4>2. CASE k # h
        <5>1. PICK v \in Workers : worker[v] = k
          BY <3>1, <3>2, <3>3, <3>9, <4>2 DEF QueueInv
        <5>2. v # w
          BY <3>2, <5>1
        <5> QED BY <3>2, <3>3, <5>1, <5>2
      <4> QED BY <4>1, <4>2
    <3>10. \A v \in Workers : worker'[v] # "exited"
      BY <2>1, <3>1, <3>2, <3>3 DEF QueueInv
    <3>11. stop' # "joined"
      BY <3>2 DEF QueueInv
    <3> QED BY <3>6, <3>7, <3>8, <3>9, <3>10, <3>11 DEF QueueInv
  <2>2. CASE TakeOrExit(w) /\ jobQueue = <<>>
    BY <2>2 DEF TakeOrExit, QueueInv
  <2>3. CASE SpuriousWakeup(w) \/ JobReturns(w)
    BY <2>3 DEF SpuriousWakeup, JobReturns, QueueInv
  <2> QED BY <1>4, <2>1, <2>2, <2>3 DEF WorkerLoop
<1>5. ASSUME Destructor PROVE QueueInv'
  BY <1>5 DEF Destructor, BeginDestruction, NotifyAll, Join, QueueInv
<1>6. ASSUME UNCHANGED vars PROVE QueueInv'
  BY <1>6 DEF vars, QueueInv
<1> QED BY <1>2, <1>3, <1>4, <1>5, <1>6 DEF Next

-----------------------------------------------------------------------------
\* A pool that was just constructed satisfies the invariant.
LEMMA InitInv == ASSUME Init PROVE IInv
<1> USE ThreadPoolAssumption DEF Init
<1>1. TypeOK
  BY DEF TypeOK, WorkerStates, JobPhases, CoPhases
<1>2. QueueInv
  BY DEF QueueInv
<1>3. HandshakeInv
  BY DEF HandshakeInv, Handshake
<1> QED BY <1>1, <1>2, <1>3 DEF IInv

\* The invariant holds in every state of the pool.
THEOREM Invariance == Spec => []IInv
<1>1. Init => IInv
  BY InitInv
<1>2. IInv /\ [Next]_vars => IInv'
  <2> SUFFICES ASSUME IInv, [Next]_vars PROVE IInv'
    OBVIOUS
  <2>1. TypeOK'
    BY TypeStep DEF IInv
  <2>2. QueueInv' /\ HandshakeInv'
    BY QueueStep, HandshakeStep
  <2> QED BY <2>1, <2>2 DEF IInv
<1> QED BY <1>1, <1>2, PTL DEF Spec

\* jobQueue_ never holds more than maxQueueSize_ jobs and all state keeps its
\* type, whatever the number of threads and jobs.
THEOREM TypeCorrect == Spec => []TypeOK
<1>1. IInv => TypeOK
  BY DEF IInv
<1> QED BY <1>1, Invariance, PTL

\* await_suspend() and runJob() never both post the coroutine, and neither
\* posts one that has not suspended.
THEOREM PostsOnce == Spec => []PostedOnce
<1>1. IInv => PostedOnce
  <2> SUFFICES ASSUME IInv, NEW j \in Jobs
               PROVE  /\ posted[j] <= 1
                      /\ posted[j] = 1 => caller[j] /\ co[j] \in {"suspended", "resumed"}
                      /\ jpc[j] = "posting" => caller[j] /\ co[j] = "suspended" /\ posted[j] = 0
    BY DEF PostedOnce
  <2>1. Handshake(j)
    BY DEF IInv, HandshakeInv
  <2> QED BY <2>1 DEF Handshake
<1> QED BY <1>1, Invariance, PTL

\* await_resume() never reads a result that runJob() has not written.
THEOREM ResultsArrive == Spec => []ResultBeforeResume
<1>1. IInv => ResultBeforeResume
  <2> SUFFICES ASSUME IInv, NEW j \in Jobs, posted[j] > 0 \/ co[j] = "resumed"
               PROVE  result[j] # "none"
    BY DEF ResultBeforeResume
  <2>1. Handshake(j)
    BY DEF IInv, HandshakeInv
  <2> QED BY <2>1 DEF Handshake
<1> QED BY <1>1, Invariance, PTL

\* ~ThreadPool() joins its threads only after every job that enqueue() accepted
\* has run.
THEOREM DestructorRunsAll == Spec => []DestructorDrains
<1>1. IInv => DestructorDrains
  <2> SUFFICES ASSUME IInv, stop = "joined", NEW j \in Jobs
               PROVE  jpc[j] \in {"none", "finished"}
    BY DEF DestructorDrains
  <2>1. TypeOK /\ QueueInv
    BY DEF IInv
  <2>2. \A w \in Workers : worker[w] = "exited"
    BY <2>1 DEF QueueInv
  <2>3. jobQueue = <<>>
    BY <2>1, <2>2, ThreadPoolAssumption DEF QueueInv
  <2>4. jpc[j] # "queued"
    BY <2>1, <2>3 DEF QueueInv
  <2>5. jpc[j] \notin {"running", "returned", "done", "posting"}
    BY <2>1, <2>2, ThreadPoolAssumption DEF QueueInv, WorkerStates
  <2> QED BY <2>1, <2>4, <2>5 DEF TypeOK, JobPhases
<1> QED BY <1>1, Invariance, PTL

-----------------------------------------------------------------------------
\* A step that queues a job leaves a notification on its way, and a worker
\* that goes to sleep has seen an empty queue.
LEMMA NoSleepStep == ASSUME TypeOK, NoSleepOnWork, [Next]_vars PROVE NoSleepOnWork'
<1> USE ThreadPoolAssumption DEF NoSleepOnWork, stateVars, poolVars
<1>0. worker \in [Workers -> WorkerStates \cup Jobs] /\ "waiting" \notin Jobs
  BY DEF TypeOK, WorkerStates
<1>c. co \in [Jobs -> CoPhases]
  BY DEF TypeOK
<1>1. ASSUME NEW j \in Jobs, Submitter(j) PROVE NoSleepOnWork'
  <2>1. CASE Submit(j) \/ FireAndForget(j)
    BY <2>1, <1>c DEF Submit, FireAndForget, Enqueue
  <2>2. CASE Notify(j)
    <3>1. \E w \in Workers : worker'[w] # "waiting"
      <4>1. CASE \E w \in Workers : worker[w] = "waiting"
        <5>1. PICK w \in Workers : worker' = [worker EXCEPT ![w] = "check"]
          BY <2>2, <4>1 DEF Notify, NotifyOne
        <5> QED BY <5>1, <1>0
      <4>2. CASE ~ \E w \in Workers : worker[w] = "waiting"
        BY <2>2, <4>2 DEF Notify, NotifyOne
      <4> QED BY <4>1, <4>2
    <3> QED BY <3>1
  <2>3. CASE DropAwaitable(j) \/ AwaitReady(j) \/ SetCaller(j) \/ AwaitResume(j) \/ AwaitSuspend(j)
    <3>1. /\ UNCHANGED <<jobQueue, stop, worker>>
          /\ \A k \in Jobs : co[k] = "notifying" => co'[k] = "notifying"
      BY <2>3, <1>c DEF DropAwaitable, AwaitReady, SetCaller, AwaitResume, AwaitSuspend
    <3> QED BY <3>1
  <2> QED BY <1>1, <2>1, <2>2, <2>3 DEF Submitter
<1>2. ASSUME NEW j \in Jobs, RunJob(j) PROVE NoSleepOnWork'
  <2>1. UNCHANGED <<jobQueue, stop, worker, co>>
    BY <1>2 DEF RunJob, RunCallable, SetDone, JobComplete, PostCaller
  <2> QED BY <2>1
<1>3. ASSUME NEW w \in Workers, WorkerLoop(w) PROVE NoSleepOnWork'
  <2>1. CASE TakeOrExit(w) /\ jobQueue # <<>>
    <3>1. worker' = [worker EXCEPT ![w] = Head(jobQueue)] /\ Head(jobQueue) \in Jobs
      BY <2>1, HeadTail DEF TakeOrExit, TypeOK
    <3> QED BY <3>1, <1>0
  <2>2. CASE TakeOrExit(w) /\ jobQueue = <<>>
    BY <2>2 DEF TakeOrExit
  <2>3. CASE SpuriousWakeup(w) \/ JobReturns(w)
    BY <2>3, <1>0 DEF SpuriousWakeup, JobReturns
  <2> QED BY <1>3, <2>1, <2>2, <2>3 DEF WorkerLoop
<1>4. ASSUME Destructor PROVE NoSleepOnWork'
  BY <1>4, <1>0 DEF Destructor, BeginDestruction, NotifyAll, Join
<1>5. ASSUME UNCHANGED vars PROVE NoSleepOnWork'
  BY <1>5 DEF vars
<1> QED BY <1>1, <1>2, <1>3, <1>4, <1>5 DEF Next

\* Jobs never lie in jobQueue_ with every worker asleep and nobody about to
\* notify: notify_one() after the unlock loses no wake-up.
THEOREM NoLostWakeup == Spec => []NoSleepOnWork
<1>1. Init => NoSleepOnWork
  BY DEF Init, NoSleepOnWork
<1>2. IInv /\ NoSleepOnWork /\ [Next]_vars => NoSleepOnWork'
  BY NoSleepStep DEF IInv
<1> QED BY <1>1, <1>2, Invariance, PTL DEF Spec

-----------------------------------------------------------------------------
\* Every step of the pool is a step of the abstract future or leaves it as it
\* is: only enqueue(), `done = true`, await_ready() and the resumption show.
LEMMA FutureStep == ASSUME IInv, [Next]_vars PROVE [F!Next]_F!vars
<1> USE ThreadPoolAssumption
<1>0. TypeOK /\ \A j \in Jobs : Handshake(j)
  BY DEF IInv, HandshakeInv
<1>a. co \in [Jobs -> CoPhases] /\ done \in [Jobs -> BOOLEAN]
  BY <1>0 DEF TypeOK
<1>s. ASSUME UNCHANGED <<co, done>> PROVE UNCHANGED F!vars
  BY <1>s DEF F!vars, Status, Awaiter
<1>1. ASSUME NEW j \in Jobs, Submitter(j) PROVE [F!Next]_F!vars
  <2>1. CASE Submit(j) \/ FireAndForget(j)
    <3>1. /\ co[j] = "idle" /\ UNCHANGED done /\ ~done[j]
          /\ \/ co' = [co EXCEPT ![j] = "rejected"]
             \/ co' = [co EXCEPT ![j] = "notifying"]
      BY <2>1, <1>0 DEF Submit, FireAndForget, Enqueue, Handshake
    <3>2. CASE co' = [co EXCEPT ![j] = "rejected"]
      BY <3>1, <3>2, <1>a DEF F!Next, F!Reject, Status, Awaiter
    <3>3. CASE co' = [co EXCEPT ![j] = "notifying"]
      BY <3>1, <3>3, <1>a DEF F!Next, F!Accept, Status, Awaiter
    <3> QED BY <3>1, <3>2, <3>3
  <2>2. CASE Notify(j) \/ DropAwaitable(j) \/ SetCaller(j) \/ AwaitSuspend(j)
    <3>1. /\ UNCHANGED done
          /\ \/ co[j] = "notifying" /\ co' = [co EXCEPT ![j] = "submitted"]
             \/ co[j] \in {"notifying", "submitted"} /\ co' = [co EXCEPT ![j] = "gone"]
             \/ co[j] = "suspending" /\ co' = [co EXCEPT ![j] = "exchanging"]
             \/ co[j] = "exchanging" /\ co' = [co EXCEPT ![j] = "suspended"]
      BY <2>2 DEF Notify, DropAwaitable, SetCaller, AwaitSuspend, stateVars
    <3> QED BY <3>1, <1>a DEF F!vars, Status, Awaiter
  <2>3. CASE AwaitReady(j)
    <3>1. co[j] = "submitted" /\ UNCHANGED done
      BY <2>3 DEF AwaitReady, stateVars
    <3>2. CASE done[j]
      BY <2>3, <3>1, <3>2, <1>a DEF AwaitReady, F!Next, F!Resume, Status, Awaiter
    <3>3. CASE ~done[j]
      BY <2>3, <3>1, <3>3, <1>a DEF AwaitReady, F!Next, F!Await, Status, Awaiter
    <3> QED BY <3>2, <3>3
  <2>4. CASE AwaitResume(j)
    <3>1. co[j] = "suspended" /\ UNCHANGED done /\ done[j] /\ co' = [co EXCEPT ![j] = "resumed"]
      BY <2>4, <1>0 DEF AwaitResume, stateVars, Handshake
    <3> QED BY <3>1, <1>a DEF F!Next, F!Resume, Status, Awaiter
  <2> QED BY <1>1, <2>1, <2>2, <2>3, <2>4 DEF Submitter
<1>2. ASSUME NEW j \in Jobs, RunJob(j) PROVE [F!Next]_F!vars
  <2>1. CASE SetDone(j)
    <3>1. co[j] \notin {"idle", "rejected"} /\ ~done[j] /\ done' = [done EXCEPT ![j] = TRUE] /\ UNCHANGED co
      BY <2>1, <1>0 DEF SetDone, Handshake
    <3> QED BY <3>1, <1>a DEF F!Next, F!Complete, Status, Awaiter
  <2>2. CASE RunCallable(j) \/ JobComplete(j) \/ PostCaller(j)
    BY <2>2, <1>s DEF RunCallable, JobComplete, PostCaller
  <2> QED BY <1>2, <2>1, <2>2 DEF RunJob
<1>3. ASSUME NEW w \in Workers, WorkerLoop(w) PROVE [F!Next]_F!vars
  BY <1>3, <1>s DEF WorkerLoop, TakeOrExit, SpuriousWakeup, JobReturns, stateVars
<1>4. ASSUME Destructor PROVE [F!Next]_F!vars
  BY <1>4, <1>s DEF Destructor, BeginDestruction, NotifyAll, Join, stateVars
<1>5. ASSUME UNCHANGED vars PROVE [F!Next]_F!vars
  BY <1>5, <1>s DEF vars, stateVars
<1> QED BY <1>1, <1>2, <1>3, <1>4, <1>5 DEF Next

\* The pool with its queue, its threads and its flag implements the abstract
\* future that submit() promises.
THEOREM Refinement == Spec => ImplementsFuture
<1>1. Init => F!Init
  BY DEF Init, F!Init, Status, Awaiter
<1>2. IInv /\ [Next]_vars => [F!Next]_F!vars
  BY FutureStep
<1> QED BY <1>1, <1>2, Invariance, PTL DEF Spec, ImplementsFuture, F!Spec

=============================================================================
