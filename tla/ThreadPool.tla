----------------------------- MODULE ThreadPool -----------------------------
(***************************************************************************)
(* The awaitable thread pool (rukh/pool): coroutines submit jobs, worker   *)
(* threads run them, and the job and the coroutine that awaits it agree    *)
(* through one atomic flag on who posts the coroutine to its executor.     *)
(*                                                                         *)
(* Each job has one submitter, the coroutine that may co_await it.  What a *)
(* callable computes is abstracted to whether it returned or threw.  post  *)
(* is the executor's (module Executor); here it is counted.  Definitions   *)
(* marked "seeded fault" are not part of the model (see Executor).         *)
(***************************************************************************)
EXTENDS Integers, Sequences

CONSTANTS Jobs, Workers, MaxQueueSize   \* maxQueueSize_

WorkerStates == {"check", "waiting", "exited"}

ASSUME ThreadPoolAssumption ==
  /\ MaxQueueSize \in Nat
  /\ Workers # {}
  /\ Jobs \cap WorkerStates = {}

VARIABLES
  jobQueue,    \* jobQueue_
  stop,        \* ~ThreadPool: "no", "set" (shutdown_), "notified", "joined"
  worker,      \* what each thread is at: "check", "waiting", "exited" or its job
  jpc,         \* runJob of each job
  co,          \* the submitter of each job
  hasExecutor, \* state->executor is set: submitted, not fired and forgotten
  result,      \* state->result or state->exception
  done,        \* state->done
  caller,      \* state->caller is set
  flag,        \* state->callerSetOrJobComplete
  posted       \* how often the caller was posted

poolVars  == <<jobQueue, stop, worker>>
stateVars == <<hasExecutor, result, done, caller, flag, posted>>
vars == <<poolVars, jpc, co, stateVars>>

JobPhases == {"none", "queued", "running", "returned", "done", "posting", "finished"}
CoPhases == {"idle", "notifying", "submitted", "suspending", "exchanging",
             "suspended", "resumed", "rejected", "gone"}

Init ==
  /\ jobQueue = <<>> /\ stop = "no"
  /\ worker = [w \in Workers |-> "check"]
  /\ jpc = [j \in Jobs |-> "none"]
  /\ co = [j \in Jobs |-> "idle"]
  /\ hasExecutor = [j \in Jobs |-> FALSE]
  /\ result = [j \in Jobs |-> "none"]
  /\ done = [j \in Jobs |-> FALSE]
  /\ caller = [j \in Jobs |-> FALSE]
  /\ flag = [j \in Jobs |-> FALSE]
  /\ posted = [j \in Jobs |-> 0]

-----------------------------------------------------------------------------
(* The submitting coroutine *)

FullLate == Len(jobQueue) > MaxQueueSize  \* seeded fault
Full == Len(jobQueue) >= MaxQueueSize

\* enqueue() under the lock: full means an exception, which submit() lets out
\* and fireAndForget() logs, dropping the job.
Enqueue(j, executor) ==
  /\ stop = "no" /\ co[j] = "idle"
  /\ hasExecutor' = [hasExecutor EXCEPT ![j] = executor]
  /\ \/ /\ Full
        /\ co' = [co EXCEPT ![j] = "rejected"]
        /\ UNCHANGED <<jobQueue, jpc>>
     \/ /\ ~Full
        /\ co' = [co EXCEPT ![j] = "notifying"]
        /\ jobQueue' = Append(jobQueue, j)
        /\ jpc' = [jpc EXCEPT ![j] = "queued"]
  /\ UNCHANGED <<stop, worker, result, done, caller, flag, posted>>

Submit(j) == Enqueue(j, TRUE)
FireAndForget(j) == Enqueue(j, FALSE)

\* cv_.notify_one() wakes one waiting worker, if there is one.
NotifyNobody == UNCHANGED worker  \* seeded fault
NotifyOne ==
  IF \E w \in Workers : worker[w] = "waiting"
  THEN \E w \in Workers : /\ worker[w] = "waiting"
                          /\ worker' = [worker EXCEPT ![w] = "check"]
  ELSE UNCHANGED worker

\* notify_one() comes after the lock is released.
Notify(j) ==
  /\ co[j] = "notifying"
  /\ NotifyOne
  /\ co' = [co EXCEPT ![j] = IF hasExecutor[j] THEN "submitted" ELSE "gone"]
  /\ UNCHANGED <<jobQueue, stop, jpc, stateVars>>

\* The awaitable may be dropped without being awaited.
DropAwaitable(j) ==
  /\ co[j] = "submitted"
  /\ co' = [co EXCEPT ![j] = "gone"]
  /\ UNCHANGED <<poolVars, jpc, stateVars>>

AwaitReadyAlways(j) ==  \* seeded fault
  /\ co[j] = "submitted"
  /\ co' = [co EXCEPT ![j] = "resumed"]
  /\ UNCHANGED <<poolVars, jpc, stateVars>>
AwaitReady(j) ==
  /\ co[j] = "submitted"
  /\ co' = [co EXCEPT ![j] = IF done[j] THEN "resumed" ELSE "suspending"]
  /\ UNCHANGED <<poolVars, jpc, stateVars>>

\* await_suspend(): first the handle, ...
SetCaller(j) ==
  /\ co[j] = "suspending"
  /\ caller' = [caller EXCEPT ![j] = TRUE]
  /\ co' = [co EXCEPT ![j] = "exchanging"]
  /\ UNCHANGED <<poolVars, jpc, hasExecutor, result, done, flag, posted>>

\* ... then the exchange; if the job got there first the coroutine posts itself.
Post(j) == posted' = [posted EXCEPT ![j] = @ + 1]
SelfPostIfDone(j) == IF done[j] THEN Post(j) ELSE UNCHANGED posted  \* seeded fault
NoSelfPost(j) == UNCHANGED posted  \* seeded fault
SelfPost(j) == IF flag[j] THEN Post(j) ELSE UNCHANGED posted
AwaitSuspend(j) ==
  /\ co[j] = "exchanging"
  /\ flag' = [flag EXCEPT ![j] = TRUE]
  /\ SelfPost(j)
  /\ co' = [co EXCEPT ![j] = "suspended"]
  /\ UNCHANGED <<poolVars, jpc, hasExecutor, result, done, caller>>

\* The executor resumes what was posted; await_resume() takes the result.
AwaitResume(j) ==
  /\ co[j] = "suspended" /\ posted[j] > 0
  /\ co' = [co EXCEPT ![j] = "resumed"]
  /\ UNCHANGED <<poolVars, jpc, stateVars>>

-----------------------------------------------------------------------------
(* The worker threads *)

TakeOrExitAtOnce(w) ==  \* seeded fault
  /\ worker[w] = "check"
  /\ \/ /\ jobQueue # <<>> /\ stop = "no"
        /\ worker' = [worker EXCEPT ![w] = Head(jobQueue)]
        /\ jpc' = [jpc EXCEPT ![Head(jobQueue)] = "running"]
        /\ jobQueue' = Tail(jobQueue)
     \/ /\ jobQueue = <<>> \/ stop # "no"
        /\ worker' = [worker EXCEPT ![w] = IF stop = "no" THEN "waiting" ELSE "exited"]
        /\ UNCHANGED <<jobQueue, jpc>>
  /\ UNCHANGED <<stop, co, stateVars>>

\* One evaluation of the wait predicate under the lock.
TakeOrExit(w) ==
  /\ worker[w] = "check"
  /\ \/ /\ jobQueue # <<>>
        /\ worker' = [worker EXCEPT ![w] = Head(jobQueue)]
        /\ jpc' = [jpc EXCEPT ![Head(jobQueue)] = "running"]
        /\ jobQueue' = Tail(jobQueue)
     \/ /\ jobQueue = <<>>
        /\ worker' = [worker EXCEPT ![w] = IF stop = "no" THEN "waiting" ELSE "exited"]
        /\ UNCHANGED <<jobQueue, jpc>>
  /\ UNCHANGED <<stop, co, stateVars>>

SpuriousWakeup(w) ==
  /\ worker[w] = "waiting"
  /\ worker' = [worker EXCEPT ![w] = "check"]
  /\ UNCHANGED <<jobQueue, stop, jpc, co, stateVars>>

\* runJob(): the callable returns or throws, ...
ForgetException(j) ==  \* seeded fault
  /\ jpc[j] = "running"
  /\ \E r \in {"value", "none"} : result' = [result EXCEPT ![j] = r]
  /\ jpc' = [jpc EXCEPT ![j] = "returned"]
  /\ UNCHANGED <<poolVars, co, hasExecutor, done, caller, flag, posted>>
RunCallable(j) ==
  /\ jpc[j] = "running"
  /\ \E r \in {"value", "exception"} : result' = [result EXCEPT ![j] = r]
  /\ jpc' = [jpc EXCEPT ![j] = "returned"]
  /\ UNCHANGED <<poolVars, co, hasExecutor, done, caller, flag, posted>>

\* ... done is set, ...
SetDone(j) ==
  /\ jpc[j] = "returned"
  /\ done' = [done EXCEPT ![j] = TRUE]
  /\ jpc' = [jpc EXCEPT ![j] = "done"]
  /\ UNCHANGED <<poolVars, co, hasExecutor, result, caller, flag, posted>>

\* ... and unless it was fired and forgotten, the exchange decides whether the
\* caller waits to be posted.
JobComplete(j) ==
  /\ jpc[j] = "done"
  /\ flag' = [flag EXCEPT ![j] = IF hasExecutor[j] THEN TRUE ELSE @]
  /\ jpc' = [jpc EXCEPT ![j] = IF hasExecutor[j] /\ flag[j] THEN "posting" ELSE "finished"]
  /\ UNCHANGED <<poolVars, co, hasExecutor, result, done, caller, posted>>

PostCaller(j) ==
  /\ jpc[j] = "posting"
  /\ Post(j)
  /\ jpc' = [jpc EXCEPT ![j] = "finished"]
  /\ UNCHANGED <<poolVars, co, hasExecutor, result, done, caller, flag>>

JobReturns(w) ==
  /\ \E j \in Jobs : worker[w] = j /\ jpc[j] = "finished"
  /\ worker' = [worker EXCEPT ![w] = "check"]
  /\ UNCHANGED <<jobQueue, stop, jpc, co, stateVars>>

-----------------------------------------------------------------------------
(* The destructor, which the owner calls when nobody submits any more *)

BeginDestruction ==
  /\ stop = "no" /\ \A j \in Jobs : co[j] # "notifying"
  /\ stop' = "set"
  /\ UNCHANGED <<jobQueue, worker, jpc, co, stateVars>>

NotifyAll ==
  /\ stop = "set"
  /\ stop' = "notified"
  /\ worker' = [w \in Workers |-> IF worker[w] = "waiting" THEN "check" ELSE worker[w]]
  /\ UNCHANGED <<jobQueue, jpc, co, stateVars>>

Join ==
  /\ stop = "notified" /\ \A w \in Workers : worker[w] = "exited"
  /\ stop' = "joined"
  /\ UNCHANGED <<jobQueue, worker, jpc, co, stateVars>>

-----------------------------------------------------------------------------
Submitter(j) ==
  \/ Submit(j) \/ FireAndForget(j) \/ Notify(j) \/ DropAwaitable(j)
  \/ AwaitReady(j) \/ SetCaller(j) \/ AwaitSuspend(j) \/ AwaitResume(j)
RunJob(j) == RunCallable(j) \/ SetDone(j) \/ JobComplete(j) \/ PostCaller(j)
WorkerLoop(w) == TakeOrExit(w) \/ SpuriousWakeup(w) \/ JobReturns(w)
Destructor == BeginDestruction \/ NotifyAll \/ Join

Next ==
  \/ \E j \in Jobs : Submitter(j) \/ RunJob(j)
  \/ \E w \in Workers : WorkerLoop(w)
  \/ Destructor

Spec == Init /\ [][Next]_vars

\* Threads are scheduled, callables return, and an executor resumes what is
\* posted.  Nobody has to submit or to await; no spurious wake-up is owed.
Fairness ==
  /\ \A j \in Jobs : WF_vars(Notify(j)) /\ WF_vars(SetCaller(j))
                     /\ WF_vars(AwaitSuspend(j)) /\ WF_vars(AwaitResume(j))
                     /\ WF_vars(RunJob(j))
  /\ \A w \in Workers : WF_vars(TakeOrExit(w)) /\ WF_vars(JobReturns(w))
  /\ WF_vars(NotifyAll) /\ WF_vars(Join)

FairSpec == Spec /\ Fairness

-----------------------------------------------------------------------------
(* Properties *)

\* Every variable keeps its type, and the queue never exceeds maxQueueSize_.
TypeOK ==
  /\ jobQueue \in Seq(Jobs) /\ Len(jobQueue) <= MaxQueueSize
  /\ stop \in {"no", "set", "notified", "joined"}
  /\ worker \in [Workers -> WorkerStates \cup Jobs]
  /\ jpc \in [Jobs -> JobPhases]
  /\ co \in [Jobs -> CoPhases]
  /\ hasExecutor \in [Jobs -> BOOLEAN]
  /\ result \in [Jobs -> {"none", "value", "exception"}]
  /\ done \in [Jobs -> BOOLEAN]
  /\ caller \in [Jobs -> BOOLEAN]
  /\ flag \in [Jobs -> BOOLEAN]
  /\ posted \in [Jobs -> Nat]

\* Whichever of await_suspend() and runJob() exchanges the flag first, the
\* coroutine is posted at most once, only after it has suspended, and with its
\* handle set.
PostedOnce ==
  \A j \in Jobs :
    /\ posted[j] <= 1
    /\ posted[j] = 1 => caller[j] /\ co[j] \in {"suspended", "resumed"}
    /\ jpc[j] = "posting" => caller[j] /\ co[j] = "suspended" /\ posted[j] = 0

\* await_resume() finds the result or the exception of the job, on the path
\* without a suspension as well.
ResultBeforeResume ==
  \A j \in Jobs : posted[j] > 0 \/ co[j] = "resumed" => result[j] # "none"

\* The condition variable loses no wake-up: jobs are queued while every worker
\* sleeps only as long as a notification is on its way.
NoSleepOnWork ==
  jobQueue # <<>> /\ (\A w \in Workers : worker[w] = "waiting") =>
    stop = "set" \/ \E j \in Jobs : co[j] = "notifying"

\* The destructor returns only when every accepted job has run.
DestructorDrains ==
  stop = "joined" => \A j \in Jobs : jpc[j] \in {"none", "finished"}

-----------------------------------------------------------------------------
(* The promise the pool makes to a coroutine: a future *)

Status(j) ==
  CASE co[j] = "idle" -> "idle"
    [] co[j] = "rejected" -> "rejected"
    [] OTHER -> IF done[j] THEN "completed" ELSE "accepted"

Awaiter(j) ==
  CASE co[j] \in {"suspending", "exchanging", "suspended"} -> "waiting"
    [] co[j] = "resumed" -> "resumed"
    [] OTHER -> "none"

F == INSTANCE Future WITH status <- [j \in Jobs |-> Status(j)],
                          awaiter <- [j \in Jobs |-> Awaiter(j)]

\* The pool implements the abstract future: a job is accepted or rejected once,
\* completes once, and its awaiter goes on exactly once and only after it.
ImplementsFuture == F!Spec

\* Under the scheduling assumed above it also keeps the future's promises of
\* progress.
ImplementsFairFuture == F!FairSpec

=============================================================================
