--------------------------- MODULE ExecutorProofs ---------------------------
(***************************************************************************)
(* Proofs about the executor for any coroutines, sockets and workloads:    *)
(* posts of pool threads are not lost, a handle has exactly one holder,    *)
(* timeouts are genuine, no readiness is lost, and the tables agree.       *)
(*                                                                         *)
(* The posts need IInv alone.  The holders need Core: that no two places   *)
(* have a coroutine rests on fresh keys and numbers (Keyed, Numbered), on  *)
(* coroutines being suspended on sockets of their own (OnOwnFd) and on     *)
(* live coroutines having different ones (Owned).  Timely and Watched are  *)
(* proved on top of Core.                                                  *)
(***************************************************************************)
EXTENDS Executor, FiniteSetTheorems, SequenceTheorems, TLAPS

\* Events are left over only while they are being handled: epoll_wait() never
\* overwrites any.
HandledFirst == events # {} => pc \in {"events", "drainPool"}

IInv == HandledFirst /\ PostedIsSignalled

-----------------------------------------------------------------------------
\* No socket is the eventfd.
LEMMA SocketIsNoEventFd == ASSUME NEW t \in Tasks PROVE FdOf[t] # EventFd
<1>1. FdOf[t] \in Nat
  BY ExecutorAssumption
<1> QED BY <1>1 DEF EventFd

\* A step that takes neither posts nor signals away and forgets no event of
\* the eventfd; when it moves on, there was nothing to drain.
LEMMA CalmStep ==
  ASSUME IInv, UNCHANGED <<eventFdSet, poolResumeQueue, posting>>,
         EventFd \in readyList => EventFd \in readyList',
         events' \subseteq events, \A e \in events : e.fd = EventFd => e \in events',
         pc' = pc \/ (pc # "drainPool" /\ events = {})
  PROVE  IInv'
<1>1. HandledFirst'
  BY DEF IInv, HandledFirst
<1>2. PostedIsSignalled'
  BY DEF IInv, PostedIsSignalled
<1> QED BY <1>1, <1>2 DEF IInv

\* The same for the steps that leave epoll's lists alone.
LEMMA QuietStep == ASSUME IInv, UNCHANGED <<eventFdSet, poolResumeQueue, posting, readyList, events, pc>> PROVE IInv'
  BY CalmStep

\* epoll_ctl() and the waits for writing only add to the ready list.
LEMMA CtlKeeps ==
  ASSUME NEW fd, NEW mask, EpollCtl(fd, mask) \/ EnableWriteEvents(fd) \/ DisableWriteEvents(fd)
  PROVE  readyList \subseteq readyList'
<1>1. ASSUME NEW m, EpollCtl(fd, m) PROVE readyList \subseteq readyList'
  BY <1>1 DEF EpollCtl
<1> QED BY <1>1 DEF EnableWriteEvents, DisableWriteEvents

\* What coroutines do.
LEMMA CoroutineStep == ASSUME IInv, Coroutine PROVE IInv'
<1>1. ASSUME NEW timeout \in Timeouts, AcceptLoopStart(timeout) PROVE IInv'
  <2>1. readyList \subseteq readyList'
    BY <1>1, CtlKeeps DEF AcceptLoopStart
  <2>2. UNCHANGED <<eventFdSet, poolResumeQueue, posting, events, pc>>
    BY <1>1 DEF AcceptLoopStart, WaitForRead, Leave, postVars
  <2> QED BY <2>1, <2>2, CalmStep
<1>2. ASSUME NEW timeout \in Timeouts, AcceptLoopWait(timeout) PROVE IInv'
  BY <1>2, QuietStep DEF AcceptLoopWait, WaitForRead, Leave, postVars, epollVars
<1>3. ASSUME NEW c \in Tasks, Accept(c) PROVE IInv'
  BY <1>3, QuietStep DEF Accept, loopVars, postVars
<1>4. CASE AcceptLoopReturns
  BY <1>4, QuietStep DEF AcceptLoopReturns, Finish, epollVars, postVars
<1>5. ASSUME NEW t \in Tasks, RegisterReadFd(t) PROVE IInv'
  <2>1. readyList \subseteq readyList'
    BY <1>5, CtlKeeps DEF RegisterReadFd
  <2>2. UNCHANGED <<eventFdSet, poolResumeQueue, posting, events, pc>>
    BY <1>5 DEF RegisterReadFd, loopVars, postVars
  <2> QED BY <2>1, <2>2, CalmStep
<1>6. ASSUME NEW t \in Tasks, NEW timeout \in Timeouts, ReadOrSuspend(t, timeout) PROVE IInv'
  <2>1. UNCHANGED <<eventFdSet, poolResumeQueue, posting, readyList, events>>
    BY <1>6 DEF ReadOrSuspend, postVars
  <2>2. UNCHANGED pc
    BY <1>6 DEF ReadOrSuspend, WaitForRead, Leave, loopVars
  <2> QED BY <2>1, <2>2, QuietStep
<1>7. ASSUME NEW t \in Tasks, NEW timeout \in Timeouts, WriteOrSuspend(t, timeout) PROVE IInv'
  <2>1. UNCHANGED <<eventFdSet, poolResumeQueue, posting, events>>
    BY <1>7 DEF WriteOrSuspend, postVars
  <2>2. UNCHANGED pc
    BY <1>7 DEF WriteOrSuspend, WaitForWrite, Leave, loopVars
  <2>3. readyList \subseteq readyList'
    BY <1>7, CtlKeeps DEF WriteOrSuspend
  <2> QED BY <2>1, <2>2, <2>3, CalmStep
<1>8. ASSUME NEW t \in Tasks, NEW timeout \in Timeouts, WaitForEvent(t, timeout) PROVE IInv'
  BY <1>8, QuietStep DEF WaitForEvent, Leave, postVars, epollVars
<1>9. ASSUME NEW t \in Tasks, NEW key \in eventKeys, FireEvent(t, key) PROVE IInv'
  BY <1>9, QuietStep DEF FireEvent, loopVars, postVars, epollVars
<1>10. ASSUME NEW t \in Tasks, NEW cycles \in Cycles, WakeMeIn(t, cycles) PROVE IInv'
  BY <1>10, QuietStep DEF WakeMeIn, Leave, postVars, epollVars
<1>11. ASSUME NEW t \in Tasks, NEW kind \in OpKinds, SubmitOp(t, kind) PROVE IInv'
  BY <1>11, QuietStep DEF SubmitOp, Leave, postVars, epollVars
<1>12. ASSUME NEW t \in Tasks, AwaitPoolJob(t) PROVE IInv'
  BY <1>12, QuietStep DEF AwaitPoolJob, Leave, epollVars
<1>13. ASSUME NEW t \in Tasks, ConnectionReturns(t) \/ ConnectionThrows(t) PROVE IInv'
  <2>1. UNCHANGED <<eventFdSet, poolResumeQueue, posting, events, pc>> /\ readyList' = readyList \ {FdOf[t]}
    BY <1>13 DEF ConnectionReturns, ConnectionThrows, Finish, CloseFd, postVars
  <2>2. EventFd \in readyList => EventFd \in readyList'
    BY <2>1, SocketIsNoEventFd
  <2> QED BY <2>1, <2>2, CalmStep
<1>14. CASE AcceptLoop
  BY <1>14, <1>1, <1>2, <1>3, <1>4 DEF AcceptLoop
<1>15. ASSUME NEW t \in Tasks, Connection(t) PROVE IInv'
  BY <1>15, <1>5, <1>6, <1>7, <1>8, <1>9, <1>10, <1>11, <1>12, <1>13 DEF Connection
<1> QED BY <1>14, <1>15 DEF Coroutine

\* The turn of the loop: epoll_wait() takes the eventfd off the ready list
\* into the events, reading it is followed by the drain.
LEMMA LoopStep == ASSUME IInv, Loop PROVE IInv'
<1>1. CASE TopOfLoop
  <2>1. pc = "top" /\ UNCHANGED <<eventFdSet, poolResumeQueue, posting, readyList, events>>
    BY <1>1 DEF TopOfLoop, postVars, epollVars
  <2>2. events = {}
    BY <2>1 DEF IInv, HandledFirst
  <2> QED BY <2>1, <2>2, CalmStep
<1>2. CASE Resume
  <2>1. pc = "ready" /\ UNCHANGED <<eventFdSet, poolResumeQueue, posting, events>>
    BY <1>2 DEF Resume, postVars, epollVars
  <2>2. events = {}
    BY <2>1 DEF IInv, HandledFirst
  <2>3. readyList \subseteq readyList'
    BY <1>2, CtlKeeps DEF Resume, epollVars
  <2> QED BY <2>1, <2>2, <2>3, CalmStep
<1>3. CASE EpollWait
  <2>1. /\ pc = "ready" /\ pc' = "events" /\ UNCHANGED <<eventFdSet, poolResumeQueue, posting>>
        /\ EventFd \in readyList /\ eventFdSet => [fd |-> EventFd, mask |-> {"IN"}] \in events'
    BY <1>3 DEF EpollWait, postVars
  <2>2. events = {}
    BY <2>1 DEF IInv, HandledFirst
  <2>3. [fd |-> EventFd, mask |-> {"IN"}].fd = EventFd
    OBVIOUS
  <2>4. PostedIsSignalled'
    BY <2>1, <2>2, <2>3 DEF IInv, PostedIsSignalled
  <2> QED BY <2>1, <2>4 DEF IInv, HandledFirst
<1>4. ASSUME NEW e \in events, ReadEventFd(e) PROVE IInv'
  BY <1>4 DEF ReadEventFd, IInv, HandledFirst, PostedIsSignalled
<1>5. ASSUME NEW e \in events, HandleEvent(e) PROVE IInv'
  <2>1. UNCHANGED <<eventFdSet, poolResumeQueue, posting, readyList, pc>> /\ events' = events \ {e} /\ e.fd # EventFd
    BY <1>5 DEF HandleEvent, loopVars, postVars
  <2> QED BY <2>1, CalmStep
<1>6. CASE DrainPoolResumeQueue
  BY <1>6 DEF DrainPoolResumeQueue, IInv, HandledFirst, PostedIsSignalled
<1>7. CASE EventsHandled
  BY <1>7, CalmStep DEF EventsHandled, postVars, epollVars
<1>8. ASSUME NEW d \in taskDeadlines, SweepDeadline(d) PROVE IInv'
  BY <1>8, QuietStep DEF SweepDeadline, loopVars, postVars, epollVars
<1>9. CASE EndOfTurn
  <2>1. pc = "sweep" /\ UNCHANGED <<eventFdSet, poolResumeQueue, posting, readyList, events>>
    BY <1>9 DEF EndOfTurn, postVars, epollVars
  <2>2. events = {}
    BY <2>1 DEF IInv, HandledFirst
  <2> QED BY <2>1, <2>2, CalmStep
<1> QED BY <1>1, <1>2, <1>3, <1>4, <1>5, <1>6, <1>7, <1>8, <1>9 DEF Loop

\* Pool threads, the kernel and time.
LEMMA EnvironmentStep == ASSUME IInv, Environment PROVE IInv'
<1>1. ASSUME NEW t \in Tasks, PostPush(t) PROVE IInv'
  BY <1>1 DEF PostPush, loopVars, epollVars, IInv, HandledFirst, PostedIsSignalled
<1>2. ASSUME NEW t \in Tasks, PostSignal(t) PROVE IInv'
  BY <1>2 DEF PostSignal, loopVars, IInv, HandledFirst, PostedIsSignalled
<1>3. ASSUME NEW fd, NEW what, SocketEvent(fd, what) PROVE IInv'
  <2>1. UNCHANGED <<eventFdSet, poolResumeQueue, posting, events, pc>> /\ readyList \subseteq readyList'
    BY <1>3 DEF SocketEvent, loopVars, postVars
  <2> QED BY <2>1, CalmStep
<1>4. CASE PeerConnects \/ \E t \in Tasks : PeerSends(t) \/ PeerReads(t) \/ PeerHangsUp(t)
  BY <1>3, <1>4 DEF PeerConnects, PeerSends, PeerReads, PeerHangsUp
<1>5. ASSUME NEW u \in inflight, Complete(u) PROVE IInv'
  BY <1>5, QuietStep DEF Complete, loopVars, postVars, epollVars
<1>6. CASE Tick
  BY <1>6, QuietStep DEF Tick, loopVars, postVars, epollVars
<1>7. CASE SignalShutdown
  BY <1>7, QuietStep DEF SignalShutdown, loopVars, postVars, epollVars
<1> QED BY <1>1, <1>2, <1>4, <1>5, <1>6, <1>7 DEF Environment

\* Every step keeps both.
LEMMA PostInvariant == Spec => []IInv
<1>1. Init => IInv
  BY DEF Init, IInv, HandledFirst, PostedIsSignalled
<1>2. IInv /\ [Next]_vars => IInv'
  <2> SUFFICES ASSUME IInv, [Next]_vars PROVE IInv'
    OBVIOUS
  <2>1. CASE UNCHANGED vars
    BY <2>1, QuietStep DEF vars, loopVars, postVars, epollVars
  <2> QED BY <2>1, CoroutineStep, LoopStep, EnvironmentStep DEF Next
<1> QED BY <1>1, <1>2, PTL DEF Spec

\* However posts of pool threads interleave with the read of the eventfd and
\* the drain of poolResumeQueue_, a coroutine in the queue is going to be
\* drained (post() and run() of Executor.cpp).
THEOREM NoPostIsLost == Spec => []PostedIsSignalled
<1>1. IInv => PostedIsSignalled
  BY DEF IInv
<1> QED BY <1>1, PostInvariant, PTL

-----------------------------------------------------------------------------
(* One holder: the invariant *)

\* What syntheticEventKey_ supplies.
Keys == Int \ Nat

Suspended == [handle : Tasks, waitingForWrite : BOOLEAN, suspensionSeq : Nat]

\* ownedTaskMap_ is the inverse of ownedTasks_, and no two live coroutines
\* serve the same socket.
Owned ==
  /\ ownedTasks \in Seq(Tasks)
  /\ ownedTaskMap \in [Live -> Nat]
  /\ \A t \in Live : ownedTaskMap[t] + 1 \in DOMAIN ownedTasks /\ ownedTasks[ownedTaskMap[t] + 1] = t
  /\ \A i \in DOMAIN ownedTasks : ownedTaskMap[ownedTasks[i]] = i - 1
  /\ \A s, t \in Live : FdOf[s] = FdOf[t] => s = t
  /\ \A t \in Live \ {Root} : FdOf[t] # Listener

\* Numbers of operations are used once, and the kernel has only such numbers as
\* are in one of the two maps.
OpTypes ==
  /\ preps \in [OpKinds -> Seq([userData : Nat, handle : Tasks])]
  /\ DOMAIN pendingOps = OpKinds
  /\ \A k \in OpKinds : /\ IsFiniteSet(DOMAIN pendingOps[k])
                        /\ DOMAIN pendingOps[k] \subseteq Nat
                        /\ pendingOps[k] \in [DOMAIN pendingOps[k] -> Tasks]
  /\ inflight \subseteq Nat /\ completions \in Seq(Nat)
PrepsDiffer ==
  \A k, l \in OpKinds : \A i \in DOMAIN preps[k], j \in DOMAIN preps[l] :
    preps[k][i].userData = preps[l][j].userData => k = l /\ i = j
PrepsAreNew ==
  \A k, l \in OpKinds : \A i \in DOMAIN preps[k] : preps[k][i].userData \notin DOMAIN pendingOps[l]
MapsDiffer == \A k, l \in OpKinds : k # l => DOMAIN pendingOps[k] \cap DOMAIN pendingOps[l] = {}
KernelsAreKnown == \A u \in inflight \cup Range(completions) : \E k \in OpKinds : u \in DOMAIN pendingOps[k]
CompletedOnce ==
  /\ \A i, j \in DOMAIN completions : completions[i] = completions[j] => i = j
  /\ inflight \cap Range(completions) = {}
Numbered == OpTypes /\ PrepsDiffer /\ PrepsAreNew /\ MapsDiffer /\ KernelsAreKnown /\ CompletedOnce

\* Finitely many keys and sequence numbers are in use, so that there is always
\* another; a slot of the wheel has a key once.
SuspendedTypes ==
  /\ IsFiniteSet(DOMAIN suspendedTasks) /\ DOMAIN suspendedTasks \subseteq Fds \cup Keys
  /\ suspendedTasks \in [DOMAIN suspendedTasks -> Suspended]
DeadlineTypes ==
  IsFiniteSet(taskDeadlines) /\ taskDeadlines \subseteq [left : Nat, fd : Int, suspensionSeq : Nat]
EventTypes == IsFiniteSet(eventKeys) /\ eventKeys \subseteq Keys
SlotTypes ==
  /\ wakeUpQueue \in [0..MaxWakeupTurn - 1 -> Seq(Keys)] /\ wakeTime \in 0..MaxWakeupTurn - 1
  /\ \A n \in DOMAIN wakeUpQueue : \A i, j \in DOMAIN wakeUpQueue[n] :
       wakeUpQueue[n][i] = wakeUpQueue[n][j] => i = j
Keyed == SuspendedTypes /\ DeadlineTypes /\ EventTypes /\ SlotTypes

\* The coroutines in each place that holds handles.
Places == {"ready", "suspended", "filePrep", "splicePrep", "fileOp", "spliceOp",
           "posted", "job", "current"}
InReady == {readyQueue[i].task : i \in DOMAIN readyQueue} \ {NullHandle}
InSuspended == {suspendedTasks[k].handle : k \in DOMAIN suspendedTasks}
InPreps(kind) == {preps[kind][i].handle : i \in DOMAIN preps[kind]}
InCurrent == {t \in Tasks : current = <<t>>}
Held == [p \in Places |->
           CASE p = "ready"      -> InReady
             [] p = "suspended"  -> InSuspended
             [] p = "filePrep"   -> InPreps("file")
             [] p = "splicePrep" -> InPreps("splice")
             [] p = "fileOp"     -> Range(pendingOps["file"])
             [] p = "spliceOp"   -> Range(pendingOps["splice"])
             [] p = "posted"     -> Range(poolResumeQueue)
             [] p = "job"        -> poolJobs
             [] p = "current"    -> InCurrent]

\* No two places have a coroutine, ...
Apart(H) == \A p, q \in Places : p # q => H[p] \cap H[q] = {}
Total(H) == UNION {H[p] : p \in Places}

\* ... and none has one twice.
OnceReady ==
  /\ readyQueue \in Seq([task : Tasks \cup {NullHandle}, timedOut : BOOLEAN])
  /\ \A i, j \in DOMAIN readyQueue :
       i # j /\ readyQueue[i].task = readyQueue[j].task => readyQueue[i].task = NullHandle
OnceSuspended ==
  \A k, l \in DOMAIN suspendedTasks : suspendedTasks[k].handle = suspendedTasks[l].handle => k = l
OncePreps ==
  \A kind \in OpKinds : \A i, j \in DOMAIN preps[kind] : preps[kind][i].handle = preps[kind][j].handle => i = j
OnceOps ==
  \A kind \in OpKinds : \A u, v \in DOMAIN pendingOps[kind] : pendingOps[kind][u] = pendingOps[kind][v] => u = v
OncePosted ==
  /\ poolResumeQueue \in Seq(Tasks)
  /\ \A i, j \in DOMAIN poolResumeQueue : poolResumeQueue[i] = poolResumeQueue[j] => i = j
Once == OnceReady /\ OnceSuspended /\ OncePreps /\ OnceOps /\ OncePosted

Holding ==
  /\ current = <<>> \/ \E t \in Tasks : current = <<t>>
  /\ poolJobs \subseteq Tasks
  /\ Once /\ Apart(Held) /\ Total(Held) = Live

\* Who is suspended on a socket serves it.
OnOwnFd == \A fd \in Fds \cap DOMAIN suspendedTasks : FdOf[suspendedTasks[fd].handle] = fd

\* What holders rest on.
Core == Owned /\ Numbered /\ Keyed /\ Holding /\ OnOwnFd

\* Suspensions only end.
Shrinks ==
  /\ DOMAIN suspendedTasks' \subseteq DOMAIN suspendedTasks
  /\ \A k \in DOMAIN suspendedTasks' : suspendedTasks'[k] = suspendedTasks[k]

\* Who becomes ready has not timed out.
NoNewTimeout ==
  \A i \in DOMAIN readyQueue' :
    \/ i \in DOMAIN readyQueue /\ readyQueue'[i] = readyQueue[i]
    \/ ~readyQueue'[i].timedOut

-----------------------------------------------------------------------------
(* The tables of owned coroutines *)

\* Spawning: the new task has the last index.
LEMMA SpawnOwned ==
  ASSUME Owned, NEW c \in Callers, Root \in Live, SpawnTask(c)
  PROVE  Owned' /\ Live' = Live \cup {c}
<1>1. c \in Tasks /\ c \notin Live /\ c # Root /\ \A d \in Live : FdOf[d] # FdOf[c]
  BY DEF Callers
<1>2. ownedTasks \in Seq(Tasks) /\ ownedTasks' = Append(ownedTasks, c)
  BY DEF Owned, SpawnTask
<1>3. /\ ownedTasks' \in Seq(Tasks) /\ DOMAIN ownedTasks' = DOMAIN ownedTasks \cup {Len(ownedTasks) + 1}
      /\ \A i \in DOMAIN ownedTasks : ownedTasks'[i] = ownedTasks[i]
      /\ ownedTasks'[Len(ownedTasks) + 1] = c
      /\ Len(ownedTasks) \in Nat /\ DOMAIN ownedTasks = 1..Len(ownedTasks)
  BY <1>1, <1>2
<1>4. Live' = Live \cup {c}
  BY <1>3 DEF Live, Range
<1>5. ownedTaskMap' = [x \in Live \cup {c} |-> IF x = c THEN Len(ownedTasks) ELSE ownedTaskMap[x]]
  BY DEF SpawnTask, With, Owned
<1>6. ownedTaskMap' \in [Live' -> Nat]
  BY <1>3, <1>4, <1>5 DEF Owned
<1>7. \A t \in Live' : ownedTaskMap'[t] + 1 \in DOMAIN ownedTasks' /\ ownedTasks'[ownedTaskMap'[t] + 1] = t
  BY <1>3, <1>4, <1>5 DEF Owned
<1>8. \A i \in DOMAIN ownedTasks' : ownedTaskMap'[ownedTasks'[i]] = i - 1
  <2>1. \A i \in DOMAIN ownedTasks : ownedTasks[i] \in Live
    BY DEF Live, Range
  <2>2. \A i \in DOMAIN ownedTasks : ownedTaskMap'[ownedTasks'[i]] = i - 1
    <3> SUFFICES ASSUME NEW i \in DOMAIN ownedTasks PROVE ownedTaskMap'[ownedTasks'[i]] = i - 1
      OBVIOUS
    <3>1. ownedTasks'[i] = ownedTasks[i] /\ ownedTasks[i] \in Live /\ ownedTasks[i] # c
      BY <1>1, <1>3, <2>1
    <3>2. ownedTaskMap[ownedTasks[i]] = i - 1
      BY DEF Owned
    <3> QED BY <1>5, <3>1, <3>2
  <2>3. ownedTaskMap'[ownedTasks'[Len(ownedTasks) + 1]] = (Len(ownedTasks) + 1) - 1
    BY <1>3, <1>5
  <2> QED BY <1>3, <2>2, <2>3
<1>9. Live \subseteq Tasks
  BY <1>2 DEF Live, Range
<1>10. \A s, t \in Live' : FdOf[s] = FdOf[t] => s = t
  BY <1>1, <1>4 DEF Owned
<1>11. \A t \in Live' \ {Root} : FdOf[t] # Listener
  BY <1>1, <1>4 DEF Owned, Listener
<1> QED BY <1>3, <1>4, <1>6, <1>7, <1>8, <1>10, <1>11 DEF Owned, Listener

\* Reaping: the last task moves into the gap.
LEMMA ReapOwned ==
  ASSUME Owned, NEW t \in Live, ReapRoot(t)
  PROVE  Owned' /\ Live' = Live \ {t}
<1> DEFINE n == Len(ownedTasks)
           index == ownedTaskMap[t]
           moved == ownedTasks[n]
<1>1. /\ ownedTasks \in Seq(Tasks) /\ n \in Nat /\ DOMAIN ownedTasks = 1..n
      /\ index \in Nat /\ index + 1 \in 1..n /\ ownedTasks[index + 1] = t
      /\ n > 0 /\ (n - 1) + 1 = n
  BY DEF Owned
<1>2. \A i \in 1..n : ownedTasks[i] \in Live /\ ownedTasks[i] \in Tasks /\ ownedTaskMap[ownedTasks[i]] = i - 1
  <2>1. \A i \in 1..n : ownedTasks[i] \in Live
    BY <1>1 DEF Live, Range
  <2>2. \A i \in 1..n : ownedTasks[i] \in Tasks
    BY <1>1
  <2>3. \A i \in DOMAIN ownedTasks : ownedTaskMap[ownedTasks[i]] = i - 1
    BY DEF Owned
  <2> QED BY <1>1, <2>1, <2>2, <2>3
<1>3. ownedTasks' = SubSeq([ownedTasks EXCEPT ![index + 1] = moved], 1, n - 1)
  BY <1>1 DEF ReapRoot
<1>4. /\ ownedTasks' \in Seq(Tasks) /\ DOMAIN ownedTasks' = 1..(n - 1)
      /\ \A i \in 1..(n - 1) : ownedTasks'[i] = IF i = index + 1 THEN moved ELSE ownedTasks[i]
  <2> DEFINE s == [ownedTasks EXCEPT ![index + 1] = moved]
  <2>1. s \in Seq(Tasks) /\ Len(s) = n /\ \A i \in 1..n : s[i] = IF i = index + 1 THEN moved ELSE ownedTasks[i]
    BY <1>1, <1>2
  <2> HIDE DEF s
  <2>2. ownedTasks' = SubSeq(s, 1, n - 1)
    BY <1>3 DEF s
  <2> QED BY <1>1, <2>1, <2>2
<1>5. ownedTaskMap' = [x \in Live \ {t} |-> IF x = moved THEN index ELSE ownedTaskMap[x]]
  <2>1. ownedTaskMap' = Without([ownedTaskMap EXCEPT ![moved] = index], t)
    BY <1>1 DEF ReapRoot
  <2>2. ownedTaskMap \in [Live -> Nat]
    BY DEF Owned
  <2> QED BY <2>1, <2>2 DEF Without, Restrict
<1>6. Live' = Live \ {t}
  <2>1. \A i \in DOMAIN ownedTasks' : ownedTasks'[i] \in Live \ {t}
    BY <1>1, <1>2, <1>4
  <2>2. \A x \in Live \ {t} : \E i \in DOMAIN ownedTasks' : ownedTasks'[i] = x
    <3> SUFFICES ASSUME NEW x \in Live \ {t} PROVE \E i \in DOMAIN ownedTasks' : ownedTasks'[i] = x
      OBVIOUS
    <3>1. PICK i \in 1..n : ownedTasks[i] = x
      BY <1>1 DEF Live, Range
    <3>2. CASE i = n
      <4>1. index + 1 \in 1..(n - 1)
        BY <1>1, <3>1, <3>2
      <4> QED BY <1>4, <3>1, <3>2, <4>1
    <3>3. CASE i # n
      <4>1. i \in 1..(n - 1)
        <5>1. n \in Nat /\ i \in 1..n
          BY <1>1
        <5> HIDE DEF n
        <5> QED BY <3>3, <5>1
      <4>2. i # index + 1
        BY <1>1, <3>1
      <4> QED BY <1>4, <3>1, <4>1, <4>2
    <3> QED BY <3>2, <3>3
  <2>3. Live' = {ownedTasks'[i] : i \in DOMAIN ownedTasks'}
    BY DEF Live, Range
  <2> QED BY <2>1, <2>2, <2>3
<1>7. ownedTaskMap' \in [Live' -> Nat]
  BY <1>1, <1>5, <1>6 DEF Owned
<1>8. \A x \in Live' : ownedTaskMap'[x] + 1 \in DOMAIN ownedTasks' /\ ownedTasks'[ownedTaskMap'[x] + 1] = x
  <2> SUFFICES ASSUME NEW x \in Live \ {t}
               PROVE  ownedTaskMap'[x] + 1 \in DOMAIN ownedTasks' /\ ownedTasks'[ownedTaskMap'[x] + 1] = x
    BY <1>6
  <2>1. ownedTaskMap[x] \in Nat /\ ownedTaskMap[x] + 1 \in 1..n /\ ownedTasks[ownedTaskMap[x] + 1] = x
    BY <1>1 DEF Owned
  <2>2. CASE x = moved
    <3>1. index + 1 # n
      BY <1>1, <2>2
    <3> QED BY <1>1, <1>4, <1>5, <2>2, <3>1
  <2>3. CASE x # moved
    <3>1. ownedTaskMap[x] + 1 # n /\ ownedTaskMap[x] # index
      BY <1>1, <2>1, <2>3
    <3> QED BY <1>1, <1>4, <1>5, <2>1, <2>3, <3>1
  <2> QED BY <2>2, <2>3
<1>9. \A i \in DOMAIN ownedTasks' : ownedTaskMap'[ownedTasks'[i]] = i - 1
  <2> SUFFICES ASSUME NEW i \in 1..(n - 1) PROVE ownedTaskMap'[ownedTasks'[i]] = i - 1
    BY <1>4
  <2>1. CASE i = index + 1
    <3>1. ownedTasks'[i] = moved /\ moved \in Live /\ ownedTaskMap[moved] = n - 1
      BY <1>1, <1>2, <1>4, <2>1
    <3>2. moved # t
      BY <1>1, <2>1, <3>1
    <3> QED BY <1>1, <1>5, <2>1, <3>1, <3>2
  <2>2. CASE i # index + 1
    <3>1. ownedTasks'[i] = ownedTasks[i] /\ ownedTasks[i] \in Live /\ ownedTaskMap[ownedTasks[i]] = i - 1
      BY <1>1, <1>2, <1>4, <2>2
    <3>2. ownedTasks[i] # t /\ ownedTasks[i] # moved
      BY <1>1, <1>2, <2>2, <3>1
    <3> QED BY <1>5, <3>1, <3>2
  <2> QED BY <2>1, <2>2
<1> QED BY <1>4, <1>6, <1>7, <1>8, <1>9 DEF Owned, Listener

-----------------------------------------------------------------------------
(* Numbers that are not in use *)

\* There is always another number.
LEMMA FreshIsFresh == ASSUME NEW used, IsFiniteSet(used) PROVE Fresh(used) \in Nat /\ Fresh(used) \notin used
<1> DEFINE n == Cardinality(used)
<1>1. n \in Nat
  BY FS_CardinalityType
<1>2. \E m \in 0..n : m \notin used
  <2> SUFFICES ASSUME 0..n \subseteq used PROVE FALSE
    OBVIOUS
  <2>1. Cardinality(0..n) = n + 1
    BY <1>1, FS_Interval
  <2>2. Cardinality(0..n) <= n
    BY FS_Subset
  <2> QED BY <1>1, <2>1, <2>2
<1>3. Fresh(used) \in 0..n /\ Fresh(used) \notin used
  BY <1>2 DEF Fresh
<1> QED BY <1>1, <1>3

\* The elements of a sequence and the values of a function with a finite domain
\* are finitely many.
LEMMA RangeFinite == ASSUME NEW f, IsFiniteSet(DOMAIN f) PROVE IsFiniteSet(Range(f))
<1> DEFINE g == [x \in DOMAIN f |-> f[x]]
<1>1. g \in Surjection(DOMAIN f, Range(f))
  BY DEF Surjection, Range
<1> QED BY <1>1, FS_Surjection
\* A sequence has finitely many members.
LEMMA SeqFinite == ASSUME NEW S, NEW s \in Seq(S) PROVE IsFiniteSet(Range(s))
<1>1. DOMAIN s = 1..Len(s) /\ Len(s) \in Nat
  OBVIOUS
<1>2. IsFiniteSet(DOMAIN s)
  BY <1>1, FS_Interval
<1> QED BY <1>2, RangeFinite

\* nextSeq_ supplies a number that no deadline and no suspension has.
LEMMA FreshSeqIsFresh ==
  ASSUME Keyed
  PROVE  /\ FreshSeq \in Nat
         /\ \A d \in taskDeadlines : d.suspensionSeq # FreshSeq
         /\ \A k \in DOMAIN suspendedTasks : suspendedTasks[k].suspensionSeq # FreshSeq
<1> DEFINE A == {d.suspensionSeq : d \in taskDeadlines}
           B == {s.suspensionSeq : s \in Range(suspendedTasks)}
<1>1. IsFiniteSet(A)
  <2> DEFINE f == [d \in taskDeadlines |-> d.suspensionSeq]
  <2>1. f \in Surjection(taskDeadlines, A)
    BY DEF Surjection
  <2> QED BY <2>1, FS_Surjection DEF Keyed, SuspendedTypes, DeadlineTypes, EventTypes, SlotTypes
<1>2. IsFiniteSet(B)
  <2> DEFINE f == [s \in Range(suspendedTasks) |-> s.suspensionSeq]
  <2>1. f \in Surjection(Range(suspendedTasks), B)
    BY DEF Surjection
  <2>2. IsFiniteSet(Range(suspendedTasks))
    BY RangeFinite DEF Keyed, SuspendedTypes, DeadlineTypes, EventTypes, SlotTypes
  <2> QED BY <2>1, <2>2, FS_Surjection
<1>3. IsFiniteSet(A \cup B)
  BY <1>1, <1>2, FS_Union
<1>4. FreshSeq = Fresh(A \cup B)
  BY DEF FreshSeq
<1>5. FreshSeq \in Nat /\ FreshSeq \notin A \cup B
  BY <1>3, <1>4, FreshIsFresh
<1>6. \A k \in DOMAIN suspendedTasks : suspendedTasks[k] \in Range(suspendedTasks)
  BY DEF Range
<1> QED BY <1>5, <1>6

\* syntheticEventKey_ supplies a key that is in no table.
LEMMA FreshKeyIsFresh ==
  ASSUME Keyed
  PROVE  /\ FreshKey \in Keys
         /\ FreshKey \notin DOMAIN suspendedTasks /\ FreshKey \notin eventKeys
         /\ \A d \in taskDeadlines : d.fd # FreshKey
         /\ \A n \in DOMAIN wakeUpQueue : FreshKey \notin Range(wakeUpQueue[n])
<1> DEFINE A == {d.fd : d \in taskDeadlines}
           B == UNION {Range(wakeUpQueue[i]) : i \in DOMAIN wakeUpQueue}
           C == A \cup DOMAIN suspendedTasks \cup eventKeys \cup B
           N == {-1 - k : k \in C}
<1>1. IsFiniteSet(A)
  <2> DEFINE f == [d \in taskDeadlines |-> d.fd]
  <2>1. f \in Surjection(taskDeadlines, A)
    BY DEF Surjection
  <2> QED BY <2>1, FS_Surjection DEF Keyed, SuspendedTypes, DeadlineTypes, EventTypes, SlotTypes
<1>2. IsFiniteSet(B)
  <2> DEFINE f == [i \in DOMAIN wakeUpQueue |-> Range(wakeUpQueue[i])]
             R == {Range(wakeUpQueue[i]) : i \in DOMAIN wakeUpQueue}
  <2>1. IsFiniteSet(DOMAIN wakeUpQueue)
    <3>1. DOMAIN wakeUpQueue = 0..MaxWakeupTurn - 1 /\ MaxWakeupTurn - 1 \in Nat
      BY ExecutorAssumption DEF Keyed, SuspendedTypes, DeadlineTypes, EventTypes, SlotTypes
    <3> QED BY <3>1, FS_Interval
  <2>2. f \in Surjection(DOMAIN wakeUpQueue, R)
    BY DEF Surjection
  <2>3. IsFiniteSet(R)
    BY <2>1, <2>2, FS_Surjection
  <2>4. \A r \in R : IsFiniteSet(r)
    BY SeqFinite DEF Keyed, SuspendedTypes, DeadlineTypes, EventTypes, SlotTypes
  <2> QED BY <2>3, <2>4, FS_UNION
<1>3. IsFiniteSet(C)
  BY <1>1, <1>2, FS_Union DEF Keyed, SuspendedTypes, DeadlineTypes, EventTypes, SlotTypes
<1>4. IsFiniteSet(N)
  <2> DEFINE f == [k \in C |-> -1 - k]
  <2>1. f \in Surjection(C, N)
    BY DEF Surjection
  <2> QED BY <1>3, <2>1, FS_Surjection
<1>5. FreshKey = -1 - Fresh(N)
  BY DEF FreshKey
<1>6. Fresh(N) \in Nat /\ Fresh(N) \notin N
  BY <1>4, FreshIsFresh
<1>7. FreshKey \notin C /\ FreshKey \in Keys
  <2> HIDE DEF C
  <2>1. FreshKey \in Int /\ -1 - FreshKey = Fresh(N)
    BY <1>5, <1>6
  <2>2. FreshKey \in C => -1 - FreshKey \in N
    OBVIOUS
  <2>3. FreshKey < 0
    BY <1>5, <1>6
  <2>4. FreshKey \in Keys
    BY <2>1, <2>3 DEF Keys
  <2> HIDE DEF N
  <2> QED BY <1>6, <2>1, <2>2, <2>4
<1> QED BY <1>7

\* nextUserData_ supplies a number that no operation has.
LEMMA FreshUserDataIsFresh ==
  ASSUME Numbered
  PROVE  /\ FreshUserData \in Nat
         /\ \A k \in OpKinds : /\ FreshUserData \notin DOMAIN pendingOps[k]
                               /\ \A i \in DOMAIN preps[k] : preps[k][i].userData # FreshUserData
<1> DEFINE P(k) == {p.userData : p \in Range(preps[k])}
           Q(k) == P(k) \cup DOMAIN pendingOps[k]
           U == UNION {Q(k) : k \in OpKinds}
<1>1. \A k \in OpKinds : IsFiniteSet(Q(k))
  <2> SUFFICES ASSUME NEW k \in OpKinds PROVE IsFiniteSet(Q(k))
    OBVIOUS
  <2> DEFINE f == [p \in Range(preps[k]) |-> p.userData]
  <2>1. IsFiniteSet(Range(preps[k]))
    BY SeqFinite DEF Numbered, OpTypes
  <2>2. f \in Surjection(Range(preps[k]), P(k))
    BY DEF Surjection
  <2>3. IsFiniteSet(P(k))
    BY <2>1, <2>2, FS_Surjection
  <2> QED BY <2>3, FS_Union DEF Numbered, OpTypes
<1>2. U = Q("file") \cup Q("splice")
  BY DEF OpKinds
<1>3. IsFiniteSet(U)
  <2>1. IsFiniteSet(Q("file")) /\ IsFiniteSet(Q("splice"))
    BY <1>1 DEF OpKinds
  <2> HIDE DEF Q, U
  <2> QED BY <1>2, <2>1, FS_Union
<1>4. FreshUserData = Fresh(U)
  BY DEF FreshUserData
<1>5. FreshUserData \in Nat /\ FreshUserData \notin U
  BY <1>3, <1>4, FreshIsFresh
<1>6. \A k \in OpKinds : \A i \in DOMAIN preps[k] : preps[k][i].userData \in P(k)
  BY DEF Range
<1> QED BY <1>5, <1>6

-----------------------------------------------------------------------------
(* Operations of io_uring *)

\* What an entry at the end of a queue changes.
LEMMA AppendIs ==
  ASSUME NEW S, NEW s \in Seq(S), NEW x \in S
  PROVE  /\ Append(s, x) \in Seq(S) /\ Len(s) \in Nat
         /\ DOMAIN s = 1..Len(s) /\ DOMAIN Append(s, x) = DOMAIN s \cup {Len(s) + 1} /\ Len(s) + 1 \notin DOMAIN s
         /\ \A i \in DOMAIN s : Append(s, x)[i] = s[i]
         /\ Append(s, x)[Len(s) + 1] = x
  OBVIOUS

\* A new operation gets a number of its own.
LEMMA SubmitNumbered ==
  ASSUME Numbered, NEW t \in Tasks, NEW kind \in OpKinds, SubmitOp(t, kind)
  PROVE  Numbered'
<1> DEFINE r == [userData |-> FreshUserData, handle |-> t]
           n == Len(preps[kind])
           R == [userData : Nat, handle : Tasks]
<1>1. /\ preps \in [OpKinds -> Seq(R)]
      /\ preps' = [preps EXCEPT ![kind] = Append(@, r)]
      /\ UNCHANGED <<pendingOps, inflight, completions>>
  BY DEF SubmitOp, Numbered, OpTypes
<1>2. /\ FreshUserData \in Nat
      /\ \A k \in OpKinds : /\ FreshUserData \notin DOMAIN pendingOps[k]
                            /\ \A i \in DOMAIN preps[k] : preps[k][i].userData # FreshUserData
  BY FreshUserDataIsFresh
<1>3. r \in R /\ r.userData = FreshUserData
  BY <1>2
<1> HIDE DEF r, R
<1>4. /\ preps'[kind] = Append(preps[kind], r) /\ preps[kind] \in Seq(R)
      /\ \A k \in OpKinds : k # kind => preps'[k] = preps[k]
  BY <1>1
<1>5. /\ preps'[kind] \in Seq(R) /\ DOMAIN preps'[kind] = DOMAIN preps[kind] \cup {n + 1}
      /\ n + 1 \notin DOMAIN preps[kind]
      /\ preps'[kind][n + 1] = r /\ \A i \in DOMAIN preps[kind] : preps'[kind][i] = preps[kind][i]
  BY <1>3, <1>4, AppendIs
<1>6. preps' \in [OpKinds -> Seq(R)]
  BY <1>1, <1>3, <1>5
<1>7. \A k \in OpKinds : \A i \in DOMAIN preps'[k] :
        \/ i \in DOMAIN preps[k] /\ preps'[k][i] = preps[k][i]
        \/ k = kind /\ i = n + 1 /\ preps'[k][i] = r
  BY <1>4, <1>5
<1> HIDE DEF n
<1>8. PrepsDiffer'
  BY <1>2, <1>3, <1>7 DEF Numbered, PrepsDiffer
<1>9. PrepsAreNew'
  BY <1>1, <1>2, <1>3, <1>7 DEF Numbered, PrepsAreNew
<1>10. OpTypes'
  BY <1>1, <1>6 DEF Numbered, OpTypes, R
<1> QED BY <1>1, <1>8, <1>9, <1>10 DEF Numbered, MapsDiffer, KernelsAreKnown, CompletedOnce

\* A number goes from the kernel's operations to its completions.
LEMMA CompleteNumbered == ASSUME Numbered, NEW u \in inflight, Complete(u) PROVE Numbered'
<1>1. /\ completions \in Seq(Nat) /\ u \in Nat /\ u \notin Range(completions)
      /\ completions' = Append(completions, u) /\ inflight' = inflight \ {u}
      /\ UNCHANGED <<preps, pendingOps>>
  BY DEF Complete, Numbered, OpTypes, CompletedOnce
<1>2. /\ completions' \in Seq(Nat)
      /\ DOMAIN completions' = DOMAIN completions \cup {Len(completions) + 1}
      /\ \A i \in DOMAIN completions : completions'[i] = completions[i]
      /\ completions'[Len(completions) + 1] = u
  BY <1>1, AppendIs
<1>3. Range(completions') = Range(completions) \cup {u}
  BY <1>2 DEF Range
<1>4. \A i \in DOMAIN completions : completions[i] # u
  BY <1>1 DEF Range
<1>5. CompletedOnce'
  BY <1>1, <1>2, <1>3, <1>4 DEF Numbered, CompletedOnce
<1>6. KernelsAreKnown'
  BY <1>1, <1>3 DEF Numbered, KernelsAreKnown
<1>7. OpTypes'
  BY <1>1, <1>2 DEF Numbered, OpTypes
<1> QED BY <1>1, <1>5, <1>6, <1>7 DEF Numbered, PrepsDiffer, PrepsAreNew, MapsDiffer

\* drainCompletions() removes numbers and their entries.
LEMMA DrainNumbered ==
  ASSUME Numbered, pendingOps' = OpsLeft, completions' = <<>>, UNCHANGED <<preps, inflight>>
  PROVE  Numbered'
<1>1. \A k \in OpKinds : /\ DOMAIN pendingOps'[k] = DOMAIN pendingOps[k] \ Range(completions)
                         /\ pendingOps'[k] = [u \in DOMAIN pendingOps'[k] |-> pendingOps[k][u]]
  BY DEF OpsLeft, Restrict
<1>2. DOMAIN pendingOps' = OpKinds
  BY DEF OpsLeft
<1>3. \A k \in OpKinds : IsFiniteSet(DOMAIN pendingOps'[k])
  <2> SUFFICES ASSUME NEW k \in OpKinds PROVE IsFiniteSet(DOMAIN pendingOps'[k])
    OBVIOUS
  <2>1. IsFiniteSet(DOMAIN pendingOps[k]) /\ DOMAIN pendingOps'[k] \subseteq DOMAIN pendingOps[k]
    BY <1>1 DEF Numbered, OpTypes
  <2> QED BY <2>1, FS_Subset
<1>4. \A k \in OpKinds : DOMAIN pendingOps'[k] \subseteq Nat /\ pendingOps'[k] \in [DOMAIN pendingOps'[k] -> Tasks]
  <2> SUFFICES ASSUME NEW k \in OpKinds
               PROVE  DOMAIN pendingOps'[k] \subseteq Nat /\ pendingOps'[k] \in [DOMAIN pendingOps'[k] -> Tasks]
    OBVIOUS
  <2>1. DOMAIN pendingOps[k] \subseteq Nat /\ \A u \in DOMAIN pendingOps[k] : pendingOps[k][u] \in Tasks
    BY DEF Numbered, OpTypes
  <2> QED BY <1>1, <2>1
<1>5. completions' \in Seq(Nat) /\ Range(completions') = {} /\ DOMAIN completions' = {}
  BY DEF Range
<1>6. OpTypes'
  BY <1>2, <1>3, <1>4, <1>5 DEF Numbered, OpTypes
<1>7. KernelsAreKnown'
  BY <1>1, <1>5 DEF Numbered, KernelsAreKnown, CompletedOnce
<1>8. PrepsAreNew'
  BY <1>1 DEF Numbered, PrepsAreNew
<1>9. MapsDiffer'
  BY <1>1 DEF Numbered, MapsDiffer
<1>10. CompletedOnce'
  BY <1>5 DEF CompletedOnce
<1> QED BY <1>6, <1>7, <1>8, <1>9, <1>10 DEF Numbered, PrepsDiffer

\* What the end of a turn submits: a prefix of each queue.
Taken(k, n) == {preps[k][i].userData : i \in 1..n[k]}
Submits(n) ==
  /\ n \in [OpKinds -> Nat] /\ \A k \in OpKinds : n[k] <= Len(preps[k])
  /\ DOMAIN preps' = OpKinds /\ DOMAIN pendingOps' = OpKinds
  /\ preps' \in [OpKinds -> Seq([userData : Nat, handle : Tasks])]
  /\ \A k \in OpKinds :
       /\ DOMAIN preps'[k] = 1..(Len(preps[k]) - n[k])
       /\ \A i \in DOMAIN preps'[k] : preps'[k][i] = preps[k][i + n[k]]
       /\ DOMAIN pendingOps'[k] = DOMAIN pendingOps[k] \cup Taken(k, n)
       /\ \A i \in 1..n[k] : pendingOps'[k][preps[k][i].userData] = preps[k][i].handle
       /\ \A u \in DOMAIN pendingOps[k] : pendingOps'[k][u] = pendingOps[k][u]
       /\ pendingOps'[k] \in [DOMAIN pendingOps'[k] -> Tasks]
  /\ inflight' = inflight \cup Taken("file", n) \cup Taken("splice", n)

\* The first m entries of a queue and the others.
LEMMA CutIs ==
  ASSUME NEW S, NEW s \in Seq(S), NEW m \in Nat, m <= Len(s), NEW r, r = SubSeq(s, 1, m)
  PROVE  Len(r) = m /\ DOMAIN r = 1..m /\ \A i \in 1..m : r[i] = s[i]
<1>1. Len(s) \in Nat /\ DOMAIN s = 1..Len(s) /\ \A i \in 1..Len(s) : s[i] \in S
  OBVIOUS
<1> QED BY <1>1
\* The rest of a sequence after its first m entries.
LEMMA RestIs ==
  ASSUME NEW S, NEW s \in Seq(S), NEW m \in Nat, m <= Len(s), NEW r, r = SubSeq(s, m + 1, Len(s))
  PROVE  r \in Seq(S) /\ DOMAIN r = 1..(Len(s) - m) /\ \A i \in DOMAIN r : r[i] = s[i + m]
<1>1. Len(s) \in Nat /\ DOMAIN s = 1..Len(s) /\ \A i \in 1..Len(s) : s[i] \in S
  OBVIOUS
<1> QED BY <1>1

\* The lesser of two numbers.
LEMMA MinIs == ASSUME NEW a \in Nat, NEW b \in Nat PROVE Min({a, b}) \in Nat /\ Min({a, b}) <= a /\ Min({a, b}) <= b
<1>1. \E x \in {a, b} : \A y \in {a, b} : x <= y
  OBVIOUS
<1>2. Min({a, b}) \in {a, b} /\ \A y \in {a, b} : Min({a, b}) <= y
  BY <1>1 DEF Min
<1> QED BY <1>2

\* What PrepAndSubmit takes from the queues is such a cut.
LEMMA PrepIs == ASSUME Numbered, PrepAndSubmit PROVE \E n : Submits(n)
<1> DEFINE R == [userData : Nat, handle : Tasks]
           nFile == Min({Len(preps["file"]), SqSize})
           nSplice == Min({Len(preps["splice"]), SqSize - nFile})
           n == [k \in OpKinds |-> IF k = "file" THEN nFile ELSE nSplice]
           taken == [k \in OpKinds |-> SubSeq(preps[k], 1, IF k = "file" THEN nFile ELSE nSplice)]
           ids(k) == {p.userData : p \in Range(taken[k])}
<1>1. preps \in [OpKinds -> Seq(R)] /\ Len(preps["file"]) \in Nat /\ Len(preps["splice"]) \in Nat
  BY DEF Numbered, OpTypes, OpKinds
<1>2. nFile \in Nat /\ nFile <= Len(preps["file"]) /\ nFile <= SqSize
  BY <1>1, MinIs, ExecutorAssumption
<1>3. nSplice \in Nat /\ nSplice <= Len(preps["splice"])
  <2>1. SqSize - nFile \in Nat
    BY <1>2, ExecutorAssumption
  <2> QED BY <1>1, <2>1, MinIs
<1> HIDE DEF nFile, nSplice
<1>4. n \in [OpKinds -> Nat] /\ \A k \in OpKinds : n[k] <= Len(preps[k])
  BY <1>2, <1>3 DEF OpKinds
<1>5. \A k \in OpKinds : taken[k] = SubSeq(preps[k], 1, n[k])
  OBVIOUS
<1>6. /\ preps' = [k \in OpKinds |-> SubSeq(preps[k], Len(taken[k]) + 1, Len(preps[k]))]
      /\ pendingOps' = [k \in OpKinds |->
           [u \in DOMAIN pendingOps[k] \cup ids(k) |->
              IF u \in ids(k) THEN (CHOOSE p \in Range(taken[k]) : p.userData = u).handle
              ELSE pendingOps[k][u]]]
      /\ inflight' = inflight \cup UNION {ids(k) : k \in OpKinds}
  BY DEF PrepAndSubmit, nFile, nSplice
<1> HIDE DEF n, taken
<1>7. ASSUME NEW k \in OpKinds
      PROVE  /\ Len(taken[k]) = n[k] /\ DOMAIN taken[k] = 1..n[k] /\ \A i \in 1..n[k] : taken[k][i] = preps[k][i]
             /\ preps'[k] \in Seq(R) /\ DOMAIN preps'[k] = 1..(Len(preps[k]) - n[k])
             /\ \A i \in DOMAIN preps'[k] : preps'[k][i] = preps[k][i + n[k]]
  <2>1. preps[k] \in Seq(R) /\ n[k] \in Nat /\ n[k] <= Len(preps[k])
    BY <1>1, <1>4
  <2>2. /\ Len(taken[k]) = n[k] /\ DOMAIN taken[k] = 1..n[k] /\ \A i \in 1..n[k] : taken[k][i] = preps[k][i]
    BY <1>5, <2>1, CutIs
  <2>3. preps'[k] = SubSeq(preps[k], n[k] + 1, Len(preps[k]))
    BY <1>6, <2>2
  <2> HIDE DEF R
  <2>4. /\ preps'[k] \in Seq(R) /\ DOMAIN preps'[k] = 1..(Len(preps[k]) - n[k])
        /\ \A i \in DOMAIN preps'[k] : preps'[k][i] = preps[k][i + n[k]]
    <3> DEFINE s == preps[k]
               m == n[k]
               r == preps'[k]
    <3>1. s \in Seq(R) /\ m \in Nat /\ m <= Len(s) /\ r = SubSeq(s, m + 1, Len(s))
      BY <2>1, <2>3
    <3> HIDE DEF s, m, r
    <3>2. r \in Seq(R) /\ DOMAIN r = 1..(Len(s) - m) /\ \A i \in DOMAIN r : r[i] = s[i + m]
      BY <3>1, RestIs
    <3> QED BY <3>2 DEF s, m, r
  <2> QED BY <2>2, <2>4
<1>8. \A k \in OpKinds : Range(taken[k]) = {preps[k][i] : i \in 1..n[k]}
  BY <1>7 DEF Range
<1>9. \A k \in OpKinds : ids(k) = Taken(k, n)
  <2> SUFFICES ASSUME NEW k \in OpKinds PROVE ids(k) = Taken(k, n)
    OBVIOUS
  <2> QED BY <1>8 DEF Taken
<1>10. ASSUME NEW k \in OpKinds
       PROVE  /\ DOMAIN pendingOps'[k] = DOMAIN pendingOps[k] \cup Taken(k, n)
              /\ \A i \in 1..n[k] : pendingOps'[k][preps[k][i].userData] = preps[k][i].handle
              /\ \A u \in DOMAIN pendingOps[k] : pendingOps'[k][u] = pendingOps[k][u]
              /\ pendingOps'[k] \in [DOMAIN pendingOps'[k] -> Tasks]
  <2> DEFINE by(u) == (CHOOSE p \in Range(taken[k]) : p.userData = u).handle
  <2>0. pendingOps'[k] = [u \in DOMAIN pendingOps[k] \cup ids(k) |-> IF u \in ids(k) THEN by(u) ELSE pendingOps[k][u]]
    BY <1>6
  <2>a. ids(k) = Taken(k, n)
    BY <1>9
  <2> HIDE DEF ids, by
  <2>1. pendingOps'[k] = [u \in DOMAIN pendingOps[k] \cup Taken(k, n) |->
                            IF u \in Taken(k, n) THEN by(u) ELSE pendingOps[k][u]]
    BY <2>0, <2>a
  <2>2. 1..n[k] \subseteq DOMAIN preps[k] /\ \A i \in 1..n[k] : preps[k][i] \in R
    <3>1. n[k] \in Nat /\ n[k] <= Len(preps[k]) /\ preps[k] \in Seq(R)
      BY <1>1, <1>4
    <3> HIDE DEF R
    <3>2. Len(preps[k]) \in Nat /\ DOMAIN preps[k] = 1..Len(preps[k]) /\ \A i \in DOMAIN preps[k] : preps[k][i] \in R
      BY <3>1
    <3> QED BY <3>1, <3>2
  <2>3. ASSUME NEW i \in 1..n[k] PROVE pendingOps'[k][preps[k][i].userData] = preps[k][i].handle
    <3>1. \A p \in Range(taken[k]) : p.userData = preps[k][i].userData => p = preps[k][i]
      BY <1>8, <2>2 DEF Numbered, PrepsDiffer
    <3>2. preps[k][i] \in Range(taken[k]) /\ preps[k][i].userData \in Taken(k, n)
      BY <1>8 DEF Taken
    <3>3. (CHOOSE p \in Range(taken[k]) : p.userData = preps[k][i].userData) = preps[k][i]
      BY <3>1, <3>2
    <3> QED BY <2>1, <3>2, <3>3 DEF by
  <2>4. \A u \in DOMAIN pendingOps[k] : u \notin Taken(k, n)
    BY <2>2 DEF Numbered, PrepsAreNew, Taken
  <2>5. \A u \in DOMAIN pendingOps[k] : pendingOps'[k][u] = pendingOps[k][u]
    BY <2>1, <2>4
  <2>6. DOMAIN pendingOps'[k] = DOMAIN pendingOps[k] \cup Taken(k, n)
    BY <2>1
  <2>7. \A u \in DOMAIN pendingOps'[k] : pendingOps'[k][u] \in Tasks
    <3>1. \A u \in DOMAIN pendingOps[k] : pendingOps[k][u] \in Tasks
      BY DEF Numbered, OpTypes
    <3>2. \A i \in 1..n[k] : preps[k][i].handle \in Tasks
      BY <2>2
    <3> QED BY <2>3, <2>5, <2>6, <3>1, <3>2 DEF Taken
  <2> QED BY <2>1, <2>3, <2>5, <2>6, <2>7
<1>11. inflight' = inflight \cup Taken("file", n) \cup Taken("splice", n)
  <2>1. UNION {ids(k) : k \in OpKinds} = ids("file") \cup ids("splice")
    BY DEF OpKinds
  <2>2. ids("file") = Taken("file", n) /\ ids("splice") = Taken("splice", n)
    BY <1>9 DEF OpKinds
  <2> HIDE DEF ids
  <2> QED BY <1>6, <2>1, <2>2
<1>12. DOMAIN preps' = OpKinds /\ DOMAIN pendingOps' = OpKinds
  BY <1>6
<1>13. preps' \in [OpKinds -> Seq(R)]
  <2>1. preps' = [k \in OpKinds |-> preps'[k]]
    BY <1>6
  <2> HIDE DEF R
  <2> QED BY <1>7, <2>1
<1> HIDE DEF ids
<1>14. Submits(n)
  BY <1>4, <1>7, <1>10, <1>11, <1>12, <1>13 DEF Submits
<1> QED BY <1>14

\* Submitted operations are with the kernel and in their maps.
LEMMA PrepNumbered == ASSUME Numbered, NEW n, Submits(n), UNCHANGED completions PROVE Numbered'
<1>1. /\ n \in [OpKinds -> Nat]
      /\ \A k \in OpKinds : \A i \in 1..n[k] : i \in DOMAIN preps[k] /\ preps[k][i].userData \in Nat
  <2> SUFFICES ASSUME NEW k \in OpKinds, NEW i \in 1..n[k] PROVE i \in DOMAIN preps[k] /\ preps[k][i].userData \in Nat
    BY DEF Submits
  <2>1. n[k] \in Nat /\ n[k] <= Len(preps[k])
    BY DEF Submits
  <2> DEFINE R == [userData : Nat, handle : Tasks]
  <2>2. preps[k] \in Seq(R)
    BY DEF Numbered, OpTypes
  <2>3. i \in DOMAIN preps[k]
    BY <2>1, <2>2
  <2>4. preps[k][i] \in R
    <3> HIDE DEF R
    <3> QED BY <2>2, <2>3
  <2> QED BY <2>3, <2>4
<1>2. \A k \in OpKinds : DOMAIN pendingOps'[k] = DOMAIN pendingOps[k] \cup Taken(k, n)
  BY DEF Submits
<1>3. \A k \in OpKinds : \A i \in DOMAIN preps'[k] :
        i + n[k] \in DOMAIN preps[k] /\ i + n[k] \notin 1..n[k] /\ preps'[k][i] = preps[k][i + n[k]]
        /\ i \in Nat
  <2> SUFFICES ASSUME NEW k \in OpKinds, NEW i \in DOMAIN preps'[k]
               PROVE  i + n[k] \in DOMAIN preps[k] /\ i + n[k] \notin 1..n[k] /\ preps'[k][i] = preps[k][i + n[k]]
                      /\ i \in Nat
    OBVIOUS
  <2>1. DOMAIN preps'[k] = 1..(Len(preps[k]) - n[k]) /\ preps'[k][i] = preps[k][i + n[k]]
    BY DEF Submits
  <2>2. DOMAIN preps[k] = 1..Len(preps[k]) /\ Len(preps[k]) \in Nat
    BY DEF Numbered, OpTypes
  <2> QED BY <1>1, <2>1, <2>2
<1>4. OpTypes'
  <2>1. \A k \in OpKinds : IsFiniteSet(DOMAIN pendingOps'[k])
    <3> SUFFICES ASSUME NEW k \in OpKinds PROVE IsFiniteSet(DOMAIN pendingOps'[k])
      OBVIOUS
    <3> DEFINE f == [i \in 1..n[k] |-> preps[k][i].userData]
    <3>1. f \in Surjection(1..n[k], Taken(k, n))
      BY DEF Surjection, Taken
    <3>2. IsFiniteSet(1..n[k])
      BY <1>1, FS_Interval
    <3>3. IsFiniteSet(Taken(k, n))
      BY <3>1, <3>2, FS_Surjection
    <3>4. IsFiniteSet(DOMAIN pendingOps[k])
      BY DEF Numbered, OpTypes
    <3> QED BY <1>2, <3>3, <3>4, FS_Union
  <2>2. \A k \in OpKinds : Taken(k, n) \subseteq Nat
    BY <1>1 DEF Taken
  <2>3. \A k \in OpKinds : DOMAIN pendingOps'[k] \subseteq Nat
    BY <1>2, <2>2 DEF Numbered, OpTypes
  <2>4. inflight' \subseteq Nat
    <3>1. inflight' = inflight \cup Taken("file", n) \cup Taken("splice", n)
      BY DEF Submits
    <3>2. inflight \subseteq Nat
      BY DEF Numbered, OpTypes
    <3> QED BY <2>2, <3>1, <3>2 DEF OpKinds
  <2>5. completions' \in Seq(Nat)
    BY DEF Numbered, OpTypes
  <2> QED BY <2>1, <2>3, <2>4, <2>5 DEF Submits, OpTypes
<1>5. PrepsDiffer'
  <2> SUFFICES ASSUME NEW k \in OpKinds, NEW l \in OpKinds, NEW i \in DOMAIN preps'[k], NEW j \in DOMAIN preps'[l],
                      preps'[k][i].userData = preps'[l][j].userData
               PROVE  k = l /\ i = j
    BY DEF PrepsDiffer
  <2>1. k = l /\ i + n[k] = j + n[l]
    BY <1>3 DEF Numbered, PrepsDiffer
  <2> QED BY <1>1, <1>3, <2>1
<1>6. PrepsAreNew'
  <2> SUFFICES ASSUME NEW k \in OpKinds, NEW l \in OpKinds, NEW i \in DOMAIN preps'[k]
               PROVE  preps'[k][i].userData \notin DOMAIN pendingOps'[l]
    BY DEF PrepsAreNew
  <2>1. preps[k][i + n[k]].userData \notin DOMAIN pendingOps[l]
    BY <1>3 DEF Numbered, PrepsAreNew
  <2>2. preps[k][i + n[k]].userData \notin Taken(l, n)
    BY <1>1, <1>3 DEF Numbered, PrepsDiffer, Taken
  <2> QED BY <1>2, <1>3, <2>1, <2>2
<1>7. MapsDiffer'
  <2> SUFFICES ASSUME NEW k \in OpKinds, NEW l \in OpKinds, k # l, NEW u \in DOMAIN pendingOps'[k], u \in DOMAIN pendingOps'[l]
               PROVE  FALSE
    BY DEF MapsDiffer
  <2>1. CASE u \in DOMAIN pendingOps[k] /\ u \in DOMAIN pendingOps[l]
    BY <2>1 DEF Numbered, MapsDiffer
  <2>2. CASE u \in Taken(k, n) /\ u \in Taken(l, n)
    BY <1>1, <2>2 DEF Numbered, PrepsDiffer, Taken
  <2>3. CASE u \in DOMAIN pendingOps[k] /\ u \in Taken(l, n)
    BY <1>1, <2>3 DEF Numbered, PrepsAreNew, Taken
  <2>4. CASE u \in Taken(k, n) /\ u \in DOMAIN pendingOps[l]
    BY <1>1, <2>4 DEF Numbered, PrepsAreNew, Taken
  <2> QED BY <1>2, <2>1, <2>2, <2>3, <2>4
<1>8. inflight' = inflight \cup Taken("file", n) \cup Taken("splice", n)
  BY DEF Submits
<1>9. KernelsAreKnown'
  BY <1>2, <1>8 DEF Numbered, KernelsAreKnown, OpKinds
<1>10. CompletedOnce'
  <2>1. \A k, l \in OpKinds : Taken(k, n) \cap DOMAIN pendingOps[l] = {}
    BY <1>1 DEF Numbered, PrepsAreNew, Taken
  <2>2. \A u \in Range(completions) : \E l \in OpKinds : u \in DOMAIN pendingOps[l]
    BY DEF Numbered, KernelsAreKnown
  <2>3. \A u \in Range(completions) : u \notin Taken("file", n) /\ u \notin Taken("splice", n)
    BY <2>1, <2>2 DEF OpKinds
  <2> QED BY <1>8, <2>3 DEF Numbered, CompletedOnce
<1> QED BY <1>4, <1>5, <1>6, <1>7, <1>9, <1>10 DEF Numbered

-----------------------------------------------------------------------------
(* Coroutines move between places *)

\* The coroutines in M go from place p to place q.
Moved(H, p, q, M) == [r \in Places |-> IF r = p THEN H[r] \ M ELSE IF r = q THEN H[r] \cup M ELSE H[r]]

\* Coroutines that go from one place to another are still in one place.
LEMMA Moving ==
  ASSUME NEW H, NEW p \in Places, NEW q \in Places, p # q, NEW M, Apart(H), M \subseteq H[p]
  PROVE  Apart(Moved(H, p, q, M)) /\ Total(Moved(H, p, q, M)) = Total(H)
<1> DEFINE G == Moved(H, p, q, M)
<1>1. /\ G[p] = H[p] \ M /\ G[q] = H[q] \cup M
      /\ \A r \in Places \ {p, q} : G[r] = H[r]
  BY DEF Moved
<1> HIDE DEF G
<1>2. Apart(G)
  BY <1>1 DEF Apart
<1>3. Total(G) = Total(H)
  <2>1. \A t : t \in Total(G) <=> \E r \in Places : t \in G[r]
    BY DEF Total
  <2>2. \A t : t \in Total(H) <=> \E r \in Places : t \in H[r]
    BY DEF Total
  <2>3. \A t : (\E r \in Places : t \in G[r]) <=> (\E r \in Places : t \in H[r])
    BY <1>1
  <2> QED BY <2>1, <2>2, <2>3
<1> QED BY <1>2, <1>3 DEF G

\* The places one by one.
LEMMA HeldIs ==
  /\ DOMAIN Held = Places
  /\ Held["ready"] = InReady /\ Held["suspended"] = InSuspended
  /\ Held["filePrep"] = InPreps("file") /\ Held["splicePrep"] = InPreps("splice")
  /\ Held["fileOp"] = Range(pendingOps["file"]) /\ Held["spliceOp"] = Range(pendingOps["splice"])
  /\ Held["posted"] = Range(poolResumeQueue) /\ Held["job"] = poolJobs /\ Held["current"] = InCurrent
  BY DEF Held, Places

\* Where handles are after a step.
LEMMA HeldPrime ==
  ASSUME NEW G, Apart(G),
         InReady' = G["ready"], InSuspended' = G["suspended"],
         InPreps("file")' = G["filePrep"], InPreps("splice")' = G["splicePrep"],
         Range(pendingOps["file"])' = G["fileOp"], Range(pendingOps["splice"])' = G["spliceOp"],
         Range(poolResumeQueue)' = G["posted"], poolJobs' = G["job"], InCurrent' = G["current"]
  PROVE  Apart(Held)' /\ Total(Held)' = Total(G)
<1>2. \A p \in Places : Held'[p] = G[p]
  <2>1. /\ Held'["ready"] = InReady' /\ Held'["suspended"] = InSuspended'
        /\ Held'["filePrep"] = InPreps("file")' /\ Held'["splicePrep"] = InPreps("splice")'
        /\ Held'["fileOp"] = Range(pendingOps["file"])' /\ Held'["spliceOp"] = Range(pendingOps["splice"])'
        /\ Held'["posted"] = Range(poolResumeQueue)' /\ Held'["job"] = poolJobs' /\ Held'["current"] = InCurrent'
    BY DEF Held, Places
  <2> QED BY <2>1 DEF Places
<1> QED BY <1>2 DEF Apart, Total

-----------------------------------------------------------------------------
\* A function on 1..n is a sequence.
LEMMA MakesSeq == ASSUME NEW S, NEW n \in Nat, NEW s \in [1..n -> S] PROVE s \in Seq(S) /\ Len(s) = n
  OBVIOUS

\* An entry of the ready queue.
ReadyEntry == [task : Tasks \cup {NullHandle}, timedOut : BOOLEAN]

\* A coroutine more in the ready queue.
LEMMA ReadyAppend ==
  ASSUME OnceReady, NEW h \in Tasks, h \notin InReady, NEW b \in BOOLEAN,
         readyQueue' = Append(readyQueue, Ready(h, b))
  PROVE  OnceReady' /\ InReady' = InReady \cup {h}
<1> DEFINE r == Ready(h, b)
<1>1. r \in ReadyEntry /\ r.task = h /\ h # NullHandle
  BY ExecutorAssumption DEF Ready, ReadyEntry
<1>2. readyQueue \in Seq(ReadyEntry) /\ readyQueue' = Append(readyQueue, r)
  BY DEF OnceReady, ReadyEntry
<1> HIDE DEF r
<1>3. /\ readyQueue' \in Seq(ReadyEntry) /\ DOMAIN readyQueue' = DOMAIN readyQueue \cup {Len(readyQueue) + 1}
      /\ Len(readyQueue) + 1 \notin DOMAIN readyQueue
      /\ \A i \in DOMAIN readyQueue : readyQueue'[i] = readyQueue[i]
      /\ readyQueue'[Len(readyQueue) + 1] = r
  BY <1>1, <1>2, AppendIs
<1>4. \A i \in DOMAIN readyQueue : readyQueue[i].task # h
  BY <1>1 DEF InReady
<1>5. OnceReady'
  BY <1>1, <1>3, <1>4 DEF OnceReady, ReadyEntry
<1>6. InReady' = InReady \cup {h}
  BY <1>1, <1>3 DEF InReady
<1> QED BY <1>5, <1>6

\* The head of the ready queue leaves.
LEMMA ReadyTail ==
  ASSUME OnceReady, readyQueue # <<>>, readyQueue' = Tail(readyQueue)
  PROVE  /\ OnceReady' /\ InReady' = InReady \ {Head(readyQueue).task}
         /\ Head(readyQueue) \in ReadyEntry /\ Head(readyQueue).task \in InReady \cup {NullHandle}
         /\ \A i \in DOMAIN readyQueue' : \E j \in DOMAIN readyQueue : j # 1 /\ readyQueue'[i] = readyQueue[j]
<1> DEFINE n == Len(readyQueue)
<1>1. readyQueue \in Seq(ReadyEntry)
  BY DEF OnceReady, ReadyEntry
<1>2. n \in Nat /\ n > 0 /\ DOMAIN readyQueue = 1..n /\ Head(readyQueue) = readyQueue[1] /\ readyQueue[1] \in ReadyEntry
  BY <1>1
<1>3. readyQueue' \in Seq(ReadyEntry) /\ DOMAIN readyQueue' = 1..(n - 1) /\ \A i \in 1..(n - 1) : readyQueue'[i] = readyQueue[i + 1]
  BY <1>1, <1>2
<1> HIDE DEF n
<1>4. \A i \in DOMAIN readyQueue' : i \in Nat /\ i + 1 \in DOMAIN readyQueue /\ i + 1 # 1 /\ readyQueue'[i] = readyQueue[i + 1]
  BY <1>2, <1>3
<1>5. \A j \in DOMAIN readyQueue : j # 1 => j - 1 \in DOMAIN readyQueue' /\ readyQueue'[j - 1] = readyQueue[j]
  BY <1>2, <1>3
<1>6. 1 \in DOMAIN readyQueue
  BY <1>2
<1>7. OnceReady'
  BY <1>3, <1>4 DEF OnceReady, ReadyEntry
<1>8. InReady' = InReady \ {readyQueue[1].task}
  <2>1. ASSUME NEW t \in InReady' PROVE t \in InReady /\ t # readyQueue[1].task
    <3>1. PICK i \in DOMAIN readyQueue' : readyQueue'[i].task = t /\ t # NullHandle
      BY <2>1 DEF InReady
    <3> QED BY <1>4, <1>6, <3>1 DEF InReady, OnceReady
  <2>2. ASSUME NEW t \in InReady, t # readyQueue[1].task PROVE t \in InReady'
    <3>1. PICK j \in DOMAIN readyQueue : readyQueue[j].task = t /\ t # NullHandle
      BY <2>2 DEF InReady
    <3>2. j # 1
      BY <2>2, <3>1
    <3> QED BY <1>5, <3>1, <3>2 DEF InReady
  <2> QED BY <2>1, <2>2
<1>9. readyQueue[1].task \in InReady \cup {NullHandle}
  BY <1>6 DEF InReady
<1> QED BY <1>2, <1>4, <1>7, <1>8, <1>9

\* Coroutines that become ready together.
LEMMA ReadyConcat ==
  ASSUME OnceReady, NEW hs \in Seq(Tasks \cup {NullHandle}),
         \A i, j \in DOMAIN hs : hs[i] = hs[j] /\ i # j => hs[i] = NullHandle,
         \A i \in DOMAIN hs : hs[i] \notin InReady,
         readyQueue' = readyQueue \o ReadyAll(hs)
  PROVE  /\ OnceReady' /\ InReady' = InReady \cup (Range(hs) \ {NullHandle})
         /\ NoNewTimeout
<1> DEFINE rs == ReadyAll(hs)
           n == Len(readyQueue)
           m == Len(hs)
<1>1. readyQueue \in Seq(ReadyEntry) /\ n \in Nat /\ DOMAIN readyQueue = 1..n
  BY DEF OnceReady, ReadyEntry
<1>2. m \in Nat /\ DOMAIN hs = 1..m
  OBVIOUS
<1>3. rs \in Seq(ReadyEntry) /\ Len(rs) = m /\ DOMAIN rs = 1..m
      /\ \A i \in 1..m : rs[i].task = hs[i] /\ rs[i].timedOut = FALSE
  <2>1. rs = [i \in 1..m |-> Ready(hs[i], FALSE)]
    BY <1>2 DEF ReadyAll
  <2>2. \A i \in 1..m : Ready(hs[i], FALSE) \in ReadyEntry /\ Ready(hs[i], FALSE).task = hs[i] /\ Ready(hs[i], FALSE).timedOut = FALSE
    BY <1>2 DEF Ready, ReadyEntry
  <2>3. rs \in [1..m -> ReadyEntry]
    BY <2>1, <2>2
  <2>4. rs \in Seq(ReadyEntry) /\ Len(rs) = m
    BY <1>2, <2>3, MakesSeq
  <2> QED BY <2>1, <2>2, <2>4
<1> HIDE DEF rs
<1>4. readyQueue' = readyQueue \o rs
  BY DEF rs
<1>5. /\ readyQueue' \in Seq(ReadyEntry) /\ DOMAIN readyQueue' = 1..(n + m)
      /\ \A i \in 1..n : readyQueue'[i] = readyQueue[i]
      /\ \A i \in 1..m : readyQueue'[n + i] = rs[i]
  <2> DEFINE s == readyQueue
             z == readyQueue'
  <2>a. s \in Seq(ReadyEntry) /\ rs \in Seq(ReadyEntry) /\ z = s \o rs /\ Len(s) = n /\ Len(rs) = m
    BY <1>1, <1>3, <1>4
  <2> HIDE DEF m, n, s, z
  <2>b. /\ z \in Seq(ReadyEntry) /\ Len(z) = Len(s) + Len(rs)
        /\ \A i \in 1..(Len(s) + Len(rs)) : z[i] = IF i <= Len(s) THEN s[i] ELSE rs[i - Len(s)]
    BY <2>a, ConcatProperties
  <2>c. /\ z \in Seq(ReadyEntry) /\ Len(z) = n + m
        /\ \A i \in 1..(n + m) : z[i] = IF i <= n THEN s[i] ELSE rs[i - n]
    BY <2>a, <2>b
  <2>1. /\ readyQueue' \in Seq(ReadyEntry) /\ Len(readyQueue') = n + m
        /\ \A i \in 1..(n + m) : readyQueue'[i] = IF i <= n THEN readyQueue[i] ELSE rs[i - n]
    BY <2>c DEF s, z
  <2>2. \A i \in 1..n : readyQueue'[i] = readyQueue[i]
    BY <1>1, <1>2, <2>1
  <2>3. \A i \in 1..m : n + i \in 1..(n + m) /\ ~(n + i <= n) /\ (n + i) - n = i
    BY <1>1, <1>2
  <2>4. \A i \in 1..m : readyQueue'[n + i] = rs[i]
    BY <2>1, <2>3
  <2>5. DOMAIN readyQueue' = 1..(n + m)
    BY <2>1
  <2> QED BY <2>1, <2>2, <2>4, <2>5
<1> HIDE DEF n, m
<1>6. \A i \in DOMAIN readyQueue' : \/ i \in DOMAIN readyQueue /\ readyQueue'[i] = readyQueue[i]
                                    \/ /\ i - n \in DOMAIN hs /\ i - n \in Nat /\ i \in Nat
                                       /\ readyQueue'[i].task = hs[i - n] /\ readyQueue'[i].timedOut = FALSE
  <2> SUFFICES ASSUME NEW i \in 1..(n + m), i \notin 1..n
               PROVE  /\ i - n \in DOMAIN hs /\ i - n \in Nat /\ i \in Nat
                      /\ readyQueue'[i].task = hs[i - n] /\ readyQueue'[i].timedOut = FALSE
    BY <1>1, <1>5
  <2>1. i - n \in 1..m /\ n + (i - n) = i /\ i - n \in Nat /\ i \in Nat
    BY <1>1, <1>2
  <2>2. readyQueue'[i] = rs[i - n]
    BY <1>5, <2>1
  <2> QED BY <1>2, <1>3, <2>1, <2>2
<1>7. \A j \in DOMAIN hs : n + j \in DOMAIN readyQueue' /\ readyQueue'[n + j].task = hs[j]
  <2>1. \A j \in 1..m : n + j \in 1..(n + m)
    BY <1>1, <1>2
  <2> QED BY <1>2, <1>3, <1>5, <2>1
<1>8. \A i \in DOMAIN readyQueue : i \in DOMAIN readyQueue' /\ readyQueue'[i] = readyQueue[i] /\ i \in Nat
  BY <1>1, <1>2, <1>5
<1>9. OnceReady'
  <2> SUFFICES ASSUME NEW i \in DOMAIN readyQueue', NEW j \in DOMAIN readyQueue', i # j,
                      readyQueue'[i].task = readyQueue'[j].task, readyQueue'[i].task # NullHandle
               PROVE  FALSE
    BY <1>5 DEF OnceReady, ReadyEntry
  <2>1. CASE i \in DOMAIN readyQueue /\ readyQueue'[i] = readyQueue[i] /\ j \in DOMAIN readyQueue /\ readyQueue'[j] = readyQueue[j]
    BY <2>1 DEF OnceReady
  <2>2. CASE i - n \in DOMAIN hs /\ i - n \in Nat /\ readyQueue'[i].task = hs[i - n] /\ j - n \in DOMAIN hs /\ j - n \in Nat /\ readyQueue'[j].task = hs[j - n]
             /\ i \in Nat /\ j \in Nat
    <3>1. i - n # j - n
      BY <1>1, <2>2
    <3> QED BY <2>2, <3>1
  <2>3. CASE i \in DOMAIN readyQueue /\ readyQueue'[i] = readyQueue[i] /\ j - n \in DOMAIN hs /\ readyQueue'[j].task = hs[j - n]
    <3>1. readyQueue[i].task \in InReady
      BY <2>3 DEF InReady
    <3> QED BY <2>3, <3>1
  <2>4. CASE j \in DOMAIN readyQueue /\ readyQueue'[j] = readyQueue[j] /\ i - n \in DOMAIN hs /\ readyQueue'[i].task = hs[i - n]
    <3>1. readyQueue[j].task \in InReady
      BY <2>4 DEF InReady
    <3> QED BY <2>4, <3>1
  <2> QED BY <1>6, <2>1, <2>2, <2>3, <2>4
<1>10. InReady' = InReady \cup (Range(hs) \ {NullHandle})
  <2>1. ASSUME NEW t \in InReady' PROVE t \in InReady \cup (Range(hs) \ {NullHandle})
    <3>1. PICK i \in DOMAIN readyQueue' : readyQueue'[i].task = t /\ t # NullHandle
      BY <2>1 DEF InReady
    <3> QED BY <1>6, <3>1 DEF InReady, Range
  <2>2. ASSUME NEW t \in InReady PROVE t \in InReady'
    BY <1>8, <2>2 DEF InReady
  <2>3. ASSUME NEW t \in Range(hs), t # NullHandle PROVE t \in InReady'
    <3>1. PICK j \in DOMAIN hs : hs[j] = t
      BY <2>3 DEF Range
    <3> QED BY <1>7, <2>3, <3>1 DEF InReady
  <2> QED BY <2>1, <2>2, <2>3
<1> QED BY <1>6, <1>9, <1>10 DEF NoNewTimeout

\* What holds of suspendedTasks_ by itself.
SuspendedOK == SuspendedTypes /\ OnceSuspended /\ OnOwnFd

\* A coroutine suspends under a key that is not in use.
LEMMA SuspendAdds ==
  ASSUME Keyed, OnceSuspended, OnOwnFd, NEW t \in Tasks, t \notin InSuspended,
         NEW key, key \in Keys \/ key = FdOf[t], key \notin DOMAIN suspendedTasks,
         NEW write \in BOOLEAN, SuspendOn(key, t, write)
  PROVE  /\ SuspendedOK' /\ InSuspended' = InSuspended \cup {t}
         /\ DOMAIN suspendedTasks' = DOMAIN suspendedTasks \cup {key}
         /\ \A k \in DOMAIN suspendedTasks : suspendedTasks'[k] = suspendedTasks[k]
         /\ suspendedTasks'[key] = [handle |-> t, waitingForWrite |-> write, suspensionSeq |-> FreshSeq]
<1> DEFINE s == [handle |-> t, waitingForWrite |-> write, suspensionSeq |-> FreshSeq]
<1>1. s \in Suspended /\ s.handle = t
  BY FreshSeqIsFresh DEF Suspended
<1>2. suspendedTasks' = [x \in DOMAIN suspendedTasks \cup {key} |-> IF x = key THEN s ELSE suspendedTasks[x]]
  BY DEF SuspendOn, With
<1> HIDE DEF s
<1>3. /\ DOMAIN suspendedTasks' = DOMAIN suspendedTasks \cup {key}
      /\ \A k \in DOMAIN suspendedTasks : suspendedTasks'[k] = suspendedTasks[k]
      /\ suspendedTasks'[key] = s
  BY <1>2
<1>4. FdOf[t] \in Fds /\ Fds \cap Keys = {}
  BY ExecutorAssumption DEF Keys
<1>5. SuspendedTypes'
  <2>1. IsFiniteSet(DOMAIN suspendedTasks')
    BY <1>3, FS_AddElement DEF Keyed, SuspendedTypes
  <2>2. DOMAIN suspendedTasks' \subseteq Fds \cup Keys
    BY <1>3, <1>4 DEF Keyed, SuspendedTypes
  <2>3. \A k \in DOMAIN suspendedTasks : suspendedTasks[k] \in Suspended
    BY DEF Keyed, SuspendedTypes
  <2>4. suspendedTasks' \in [DOMAIN suspendedTasks' -> Suspended]
    BY <1>1, <1>2, <2>3
  <2> QED BY <2>1, <2>2, <2>4 DEF SuspendedTypes
<1>6. \A k \in DOMAIN suspendedTasks : suspendedTasks[k].handle # t
  BY DEF InSuspended
<1>7. OnceSuspended'
  BY <1>1, <1>3, <1>6 DEF OnceSuspended
<1>8. OnOwnFd'
  BY <1>1, <1>3, <1>4 DEF OnOwnFd
<1>9. InSuspended' = InSuspended \cup {t}
  BY <1>1, <1>3 DEF InSuspended
<1> QED BY <1>3, <1>5, <1>7, <1>8, <1>9 DEF SuspendedOK, s

\* Entries of some keys are erased.
LEMMA EraseRemoves ==
  ASSUME SuspendedTypes, OnceSuspended, OnOwnFd, NEW K,
         suspendedTasks' = Restrict(suspendedTasks, DOMAIN suspendedTasks \ K)
  PROVE  /\ SuspendedOK'
         /\ InSuspended' = InSuspended \ {suspendedTasks[k].handle : k \in K \cap DOMAIN suspendedTasks}
         /\ DOMAIN suspendedTasks' = DOMAIN suspendedTasks \ K
         /\ \A k \in DOMAIN suspendedTasks' : suspendedTasks'[k] = suspendedTasks[k]
<1>1. suspendedTasks' = [x \in DOMAIN suspendedTasks \ K |-> suspendedTasks[x]]
  BY DEF Restrict
<1>2. /\ DOMAIN suspendedTasks' = DOMAIN suspendedTasks \ K
      /\ \A k \in DOMAIN suspendedTasks' : suspendedTasks'[k] = suspendedTasks[k]
  BY <1>1
<1>3. SuspendedTypes'
  <2>1. IsFiniteSet(DOMAIN suspendedTasks')
    BY <1>2, FS_Subset DEF SuspendedTypes
  <2>2. \A k \in DOMAIN suspendedTasks : suspendedTasks[k] \in Suspended
    BY DEF SuspendedTypes
  <2>3. suspendedTasks' \in [DOMAIN suspendedTasks' -> Suspended]
    BY <1>1, <2>2
  <2> QED BY <1>2, <2>1, <2>3 DEF SuspendedTypes
<1>4. OnceSuspended'
  BY <1>2 DEF OnceSuspended
<1>5. OnOwnFd'
  BY <1>2 DEF OnOwnFd
<1>6. InSuspended' = InSuspended \ {suspendedTasks[k].handle : k \in K \cap DOMAIN suspendedTasks}
  BY <1>2 DEF InSuspended, OnceSuspended
<1> QED BY <1>2, <1>3, <1>4, <1>5, <1>6 DEF SuspendedOK

\* Waking one.
LEMMA WakeMoves ==
  ASSUME SuspendedTypes, OnceSuspended, OnOwnFd, OnceReady, InSuspended \cap InReady = {},
         NEW key \in DOMAIN suspendedTasks, NEW b \in BOOLEAN, WakeSuspended(key, b)
  PROVE  /\ SuspendedOK' /\ OnceReady'
         /\ suspendedTasks[key].handle \in Tasks /\ suspendedTasks[key].handle \in InSuspended
         /\ InSuspended' = InSuspended \ {suspendedTasks[key].handle}
         /\ InReady' = InReady \cup {suspendedTasks[key].handle}
         /\ DOMAIN suspendedTasks' = DOMAIN suspendedTasks \ {key}
         /\ \A k \in DOMAIN suspendedTasks' : suspendedTasks'[k] = suspendedTasks[k]
<1>1. suspendedTasks[key] \in Suspended /\ suspendedTasks[key].handle \in InSuspended
  BY DEF SuspendedTypes, InSuspended
<1>2. suspendedTasks[key].handle \in Tasks /\ suspendedTasks[key].handle \notin InReady
  BY <1>1 DEF Suspended
<1>3. suspendedTasks' = Restrict(suspendedTasks, DOMAIN suspendedTasks \ {key})
  BY DEF WakeSuspended, Without
<1>4. /\ SuspendedOK'
      /\ InSuspended' = InSuspended \ {suspendedTasks[k].handle : k \in {key} \cap DOMAIN suspendedTasks}
      /\ DOMAIN suspendedTasks' = DOMAIN suspendedTasks \ {key}
      /\ \A k \in DOMAIN suspendedTasks' : suspendedTasks'[k] = suspendedTasks[k]
  BY <1>3, EraseRemoves
<1>5. {suspendedTasks[k].handle : k \in {key} \cap DOMAIN suspendedTasks} = {suspendedTasks[key].handle}
  OBVIOUS
<1>6. readyQueue' = Append(readyQueue, Ready(suspendedTasks[key].handle, b))
  BY DEF WakeSuspended
<1>7. OnceReady' /\ InReady' = InReady \cup {suspendedTasks[key].handle}
  BY <1>2, <1>6, ReadyAppend
<1> QED BY <1>1, <1>2, <1>4, <1>5, <1>7

\* A new operation, queued for submission.
LEMMA PrepAdds ==
  ASSUME OpTypes, OncePreps, NEW t \in Tasks, NEW kind \in OpKinds, SubmitOp(t, kind), t \notin InPreps(kind)
  PROVE  /\ OncePreps' /\ InPreps(kind)' = InPreps(kind) \cup {t}
         /\ \A k \in OpKinds : k # kind => preps'[k] = preps[k]
<1> DEFINE r == [userData |-> FreshUserData, handle |-> t]
           n == Len(preps[kind])
<1>1. preps \in [OpKinds -> Seq([userData : Nat, handle : Tasks])] /\ preps' = [preps EXCEPT ![kind] = Append(@, r)]
  BY DEF SubmitOp, OpTypes
<1>2. r.handle = t
  OBVIOUS
<1> HIDE DEF r
<1>3. /\ preps'[kind] = Append(preps[kind], r)
      /\ \A k \in OpKinds : k # kind => preps'[k] = preps[k]
  BY <1>1
<1>4. /\ DOMAIN preps'[kind] = DOMAIN preps[kind] \cup {n + 1}
      /\ preps'[kind][n + 1] = r /\ \A i \in DOMAIN preps[kind] : preps'[kind][i] = preps[kind][i]
  BY <1>1, <1>3
<1> HIDE DEF n
<1>5. \A i \in DOMAIN preps[kind] : preps[kind][i].handle # t
  BY DEF InPreps
<1>6. \A i, j \in DOMAIN preps'[kind] : preps'[kind][i].handle = preps'[kind][j].handle => i = j
  BY <1>2, <1>4, <1>5 DEF OncePreps
<1>7. OncePreps'
  BY <1>3, <1>6 DEF OncePreps
<1>8. InPreps(kind)' = InPreps(kind) \cup {t}
  BY <1>2, <1>4 DEF InPreps
<1> QED BY <1>3, <1>7, <1>8

\* Operations that are submitted go from the queues to the maps.
LEMMA PrepMoves ==
  ASSUME Numbered, OncePreps, OnceOps, NEW n, Submits(n),
         \A k \in OpKinds : InPreps(k) \cap Range(pendingOps[k]) = {}
  PROVE  /\ OncePreps' /\ OnceOps'
         /\ \A k \in OpKinds : \E M : /\ M \subseteq InPreps(k) /\ InPreps(k)' = InPreps(k) \ M
                                      /\ Range(pendingOps'[k]) = Range(pendingOps[k]) \cup M
<1>1. ASSUME NEW k \in OpKinds
      PROVE  /\ n[k] \in Nat /\ Len(preps[k]) \in Nat /\ n[k] <= Len(preps[k]) /\ DOMAIN preps[k] = 1..Len(preps[k])
             /\ DOMAIN preps'[k] = 1..(Len(preps[k]) - n[k])
             /\ \A i \in DOMAIN preps'[k] : preps'[k][i] = preps[k][i + n[k]]
  BY DEF Numbered, OpTypes, Submits
<1>2. \A k \in OpKinds : \A i \in DOMAIN preps'[k] :
        /\ i \in Nat /\ i + n[k] \in DOMAIN preps[k] /\ i + n[k] \notin 1..n[k]
        /\ preps'[k][i] = preps[k][i + n[k]]
  BY <1>1
<1>3. \A k \in OpKinds : 1..n[k] \subseteq DOMAIN preps[k]
  BY <1>1
<1>4. OncePreps'
  <2> SUFFICES ASSUME NEW k \in OpKinds, NEW i \in DOMAIN preps'[k], NEW j \in DOMAIN preps'[k],
                      preps'[k][i].handle = preps'[k][j].handle
               PROVE  i = j
    BY DEF OncePreps
  <2>1. i + n[k] = j + n[k]
    BY <1>2 DEF OncePreps
  <2> QED BY <1>1, <1>2, <2>1
<1>5. \A k \in OpKinds : /\ DOMAIN pendingOps'[k] = DOMAIN pendingOps[k] \cup Taken(k, n)
                         /\ \A i \in 1..n[k] : pendingOps'[k][preps[k][i].userData] = preps[k][i].handle
                         /\ \A u \in DOMAIN pendingOps[k] : pendingOps'[k][u] = pendingOps[k][u]
  BY DEF Submits
<1>6. \A k \in OpKinds : \A u \in DOMAIN pendingOps'[k] :
        \/ u \in DOMAIN pendingOps[k] /\ pendingOps'[k][u] = pendingOps[k][u]
        \/ \E i \in 1..n[k] : i \in DOMAIN preps[k] /\ u = preps[k][i].userData /\ pendingOps'[k][u] = preps[k][i].handle
  BY <1>3, <1>5 DEF Taken
<1>7. OnceOps'
  <2> SUFFICES ASSUME NEW k \in OpKinds, NEW u \in DOMAIN pendingOps'[k], NEW v \in DOMAIN pendingOps'[k],
                      pendingOps'[k][u] = pendingOps'[k][v]
               PROVE  u = v
    BY DEF OnceOps
  <2>1. \A w \in DOMAIN pendingOps[k], i \in DOMAIN preps[k] : pendingOps[k][w] # preps[k][i].handle
    <3>1. \A w \in DOMAIN pendingOps[k] : pendingOps[k][w] \in Range(pendingOps[k])
      BY DEF Range
    <3>2. \A i \in DOMAIN preps[k] : preps[k][i].handle \in InPreps(k)
      BY DEF InPreps
    <3> QED BY <3>1, <3>2
  <2>2. CASE u \in DOMAIN pendingOps[k] /\ pendingOps'[k][u] = pendingOps[k][u]
    <3>1. \A i \in DOMAIN preps[k] : pendingOps'[k][v] # preps[k][i].handle
      BY <2>1, <2>2
    <3>2. v \in DOMAIN pendingOps[k] /\ pendingOps'[k][v] = pendingOps[k][v]
      BY <1>6, <3>1
    <3> QED BY <2>2, <3>2 DEF OnceOps
  <2>3. CASE \E i \in 1..n[k] : i \in DOMAIN preps[k] /\ u = preps[k][i].userData /\ pendingOps'[k][u] = preps[k][i].handle
    <3>1. PICK i \in DOMAIN preps[k] : u = preps[k][i].userData /\ pendingOps'[k][u] = preps[k][i].handle
      BY <2>3
    <3>2. ~(v \in DOMAIN pendingOps[k] /\ pendingOps'[k][v] = pendingOps[k][v])
      BY <2>1, <3>1
    <3>3. PICK j \in DOMAIN preps[k] : v = preps[k][j].userData /\ pendingOps'[k][v] = preps[k][j].handle
      BY <1>6, <3>2
    <3>4. i = j
      BY <3>1, <3>3 DEF OncePreps
    <3> QED BY <3>1, <3>3, <3>4
  <2> QED BY <1>6, <2>2, <2>3
<1>8. ASSUME NEW k \in OpKinds
      PROVE  \E M : /\ M \subseteq InPreps(k) /\ InPreps(k)' = InPreps(k) \ M
                    /\ Range(pendingOps'[k]) = Range(pendingOps[k]) \cup M
  <2> DEFINE M == {preps[k][i].handle : i \in 1..n[k]}
  <2>1. M \subseteq InPreps(k)
    BY <1>3 DEF InPreps
  <2>2. InPreps(k)' = InPreps(k) \ M
    <3>1. ASSUME NEW t \in InPreps(k)' PROVE t \in InPreps(k) /\ t \notin M
      <4>1. PICK i \in DOMAIN preps'[k] : preps'[k][i].handle = t
        BY <3>1 DEF InPreps
      <4>2. i + n[k] \in DOMAIN preps[k] /\ preps[k][i + n[k]].handle = t /\ i + n[k] \notin 1..n[k]
        BY <1>2, <4>1
      <4>3. t \notin M
        BY <1>3, <4>2 DEF OncePreps
      <4> QED BY <4>2, <4>3 DEF InPreps
    <3>2. ASSUME NEW t \in InPreps(k), t \notin M PROVE t \in InPreps(k)'
      <4>1. PICK j \in DOMAIN preps[k] : preps[k][j].handle = t
        BY <3>2 DEF InPreps
      <4>2. j \notin 1..n[k]
        BY <3>2, <4>1
      <4>3. j - n[k] \in DOMAIN preps'[k] /\ (j - n[k]) + n[k] = j
        BY <1>1, <4>2
      <4>4. preps'[k][j - n[k]].handle = t
        BY <1>2, <4>1, <4>3
      <4> QED BY <4>3, <4>4 DEF InPreps
    <3> QED BY <3>1, <3>2
  <2>3. Range(pendingOps'[k]) = Range(pendingOps[k]) \cup M
    <3>1. \A x \in Range(pendingOps'[k]) : x \in Range(pendingOps[k]) \cup M
      BY <1>6 DEF Range
    <3>2. \A x \in Range(pendingOps[k]) : x \in Range(pendingOps'[k])
      BY <1>5 DEF Range
    <3>3. \A x \in M : x \in Range(pendingOps'[k])
      <4> SUFFICES ASSUME NEW i \in 1..n[k] PROVE preps[k][i].handle \in Range(pendingOps'[k])
        OBVIOUS
      <4>1. preps[k][i].userData \in DOMAIN pendingOps'[k] /\ pendingOps'[k][preps[k][i].userData] = preps[k][i].handle
        BY <1>5 DEF Taken
      <4> QED BY <4>1 DEF Range
    <3> QED BY <3>1, <3>2, <3>3
  <2> QED BY <2>1, <2>2, <2>3
<1> QED BY <1>4, <1>7, <1>8

\* The running coroutine is in no other place.
LEMMA CurrentOnly ==
  ASSUME Holding, NEW t \in Tasks, current = <<t>>
  PROVE  /\ InCurrent = {t} /\ t \in Live /\ t \notin InReady /\ t \notin InSuspended /\ t \notin poolJobs
         /\ \A kind \in OpKinds : t \notin InPreps(kind)
<1>1. InCurrent = {t}
  BY DEF InCurrent
<1>2. \A p \in Places : p # "current" => t \notin Held[p]
  BY <1>1, HeldIs DEF Holding, Apart, Places
<1>3. t \in Live
  BY <1>1, HeldIs DEF Holding, Total, Places
<1> QED BY <1>1, <1>2, <1>3, HeldIs DEF Places, OpKinds

\* Nobody is suspended on the socket of a live coroutine that is not suspended.
LEMMA NothingOnFd ==
  ASSUME Owned, Holding, OnOwnFd, NEW t \in Tasks, t \in Live, t \notin InSuspended
  PROVE  FdOf[t] \notin DOMAIN suspendedTasks
<1> SUFFICES ASSUME FdOf[t] \in DOMAIN suspendedTasks PROVE FALSE
  OBVIOUS
<1>1. FdOf[t] \in Fds
  BY ExecutorAssumption
<1>2. FdOf[suspendedTasks[FdOf[t]].handle] = FdOf[t] /\ suspendedTasks[FdOf[t]].handle \in InSuspended
  BY <1>1 DEF OnOwnFd, InSuspended
<1>3. suspendedTasks[FdOf[t]].handle \in Live
  BY <1>2, HeldIs DEF Holding, Total, Places
<1> QED BY <1>2, <1>3 DEF Owned

\* The parts of Holding after a step, from what the places hold.
LEMMA HoldingAfter ==
  ASSUME NEW G, Apart(G), Total(G) = Live',
         InReady' = G["ready"], InSuspended' = G["suspended"],
         InPreps("file")' = G["filePrep"], InPreps("splice")' = G["splicePrep"],
         Range(pendingOps["file"])' = G["fileOp"], Range(pendingOps["splice"])' = G["spliceOp"],
         Range(poolResumeQueue)' = G["posted"], poolJobs' = G["job"], InCurrent' = G["current"],
         Once', poolJobs' \subseteq Tasks, current' = <<>> \/ \E t \in Tasks : current' = <<t>>
  PROVE  Holding'
<1>1. Apart(Held)' /\ Total(Held)' = Total(G)
  BY HeldPrime
<1> QED BY <1>1 DEF Holding

\* What a step leaves alone.
LEMMA SameReady == ASSUME UNCHANGED readyQueue PROVE InReady' = InReady /\ (OnceReady => OnceReady')
  BY DEF InReady, OnceReady
\* A step that leaves suspendedTasks_ alone.
LEMMA SameSuspended ==
  ASSUME UNCHANGED suspendedTasks
  PROVE  InSuspended' = InSuspended /\ (SuspendedTypes /\ OnceSuspended /\ OnOwnFd => SuspendedOK')
  BY DEF InSuspended, SuspendedOK, SuspendedTypes, OnceSuspended, OnOwnFd
\* A step that leaves the operations to be submitted alone.
LEMMA SamePreps ==
  ASSUME UNCHANGED preps
  PROVE  InPreps("file")' = InPreps("file") /\ InPreps("splice")' = InPreps("splice") /\ (OncePreps => OncePreps')
  BY DEF InPreps, OncePreps
\* A step that leaves the submitted operations alone.
LEMMA SameOps ==
  ASSUME UNCHANGED pendingOps
  PROVE  /\ Range(pendingOps["file"])' = Range(pendingOps["file"])
         /\ Range(pendingOps["splice"])' = Range(pendingOps["splice"]) /\ (OnceOps => OnceOps')
  BY DEF OnceOps
\* A step that leaves poolResumeQueue_ alone.
LEMMA SamePosted ==
  ASSUME UNCHANGED poolResumeQueue
  PROVE  Range(poolResumeQueue)' = Range(poolResumeQueue) /\ (OncePosted => OncePosted')
  BY DEF OncePosted
\* No coroutine runs after the step.
LEMMA Idle == ASSUME current' = <<>> PROVE InCurrent' = {}
  BY DEF InCurrent

\* Nothing moves.
LEMMA StayStep ==
  ASSUME Holding,
         UNCHANGED <<readyQueue, suspendedTasks, preps, pendingOps, poolResumeQueue, poolJobs, current, ownedTasks>>
  PROVE  Holding'
<1>1. InCurrent' = InCurrent /\ Live' = Live
  BY DEF InCurrent, Live
<1>2. InSuspended' = InSuspended /\ (OnceSuspended => OnceSuspended')
  BY DEF InSuspended, OnceSuspended
<1>3. Once'
  BY <1>2, SameReady, SamePreps, SameOps, SamePosted DEF Holding, Once
<1>4. Apart(Held) /\ Total(Held) = Live'
  BY <1>1 DEF Holding
<1> QED BY <1>1, <1>2, <1>3, <1>4, SameReady, SamePreps, SameOps, SamePosted, HeldIs, HoldingAfter DEF Holding

\* The running coroutine suspends.
LEMMA SuspendStep ==
  ASSUME Keyed, Owned, Holding, OnOwnFd, NEW t \in Tasks, current = <<t>>, current' = <<>>,
         NEW key, key = FdOf[t] \/ key = FreshKey, NEW write \in BOOLEAN, SuspendOn(key, t, write),
         UNCHANGED <<readyQueue, preps, pendingOps, poolResumeQueue, poolJobs, ownedTasks>>
  PROVE  /\ Holding' /\ SuspendedOK'
         /\ key \notin DOMAIN suspendedTasks /\ DOMAIN suspendedTasks' = DOMAIN suspendedTasks \cup {key}
         /\ \A k \in DOMAIN suspendedTasks : suspendedTasks'[k] = suspendedTasks[k]
         /\ suspendedTasks'[key] = [handle |-> t, waitingForWrite |-> write, suspensionSeq |-> FreshSeq]
<1>1. InCurrent = {t} /\ t \in Live /\ t \notin InReady /\ t \notin InSuspended
  BY CurrentOnly
<1>2. key \notin DOMAIN suspendedTasks /\ (key \in Keys \/ key = FdOf[t])
  BY <1>1, NothingOnFd, FreshKeyIsFresh
<1>3. /\ SuspendedOK' /\ InSuspended' = InSuspended \cup {t}
      /\ DOMAIN suspendedTasks' = DOMAIN suspendedTasks \cup {key}
      /\ \A k \in DOMAIN suspendedTasks : suspendedTasks'[k] = suspendedTasks[k]
      /\ suspendedTasks'[key] = [handle |-> t, waitingForWrite |-> write, suspensionSeq |-> FreshSeq]
  BY <1>1, <1>2, SuspendAdds DEF Holding, Once
<1> DEFINE G == Moved(Held, "current", "suspended", {t})
<1>4. Apart(G) /\ Total(G) = Total(Held)
  <2>1. "current" \in Places /\ "suspended" \in Places /\ {t} \subseteq Held["current"] /\ Apart(Held)
    BY <1>1, HeldIs DEF Places, Holding
  <2> QED BY <2>1, Moving
<1>5. Total(G) = Live'
  BY <1>4 DEF Holding, Live
<1>6. /\ G["ready"] = InReady /\ G["suspended"] = InSuspended \cup {t} /\ G["filePrep"] = InPreps("file")
      /\ G["splicePrep"] = InPreps("splice") /\ G["fileOp"] = Range(pendingOps["file"])
      /\ G["spliceOp"] = Range(pendingOps["splice"]) /\ G["posted"] = Range(poolResumeQueue)
      /\ G["job"] = poolJobs /\ G["current"] = {}
  BY <1>1, HeldIs DEF Places, Moved
<1> HIDE DEF G
<1>7. Once'
  BY <1>3, SameReady, SamePreps, SameOps, SamePosted DEF Holding, Once, SuspendedOK
<1>8. Holding'
  BY <1>3, <1>4, <1>5, <1>6, <1>7, SameReady, SamePreps, SameOps, SamePosted, Idle, HoldingAfter DEF Holding
<1> QED BY <1>2, <1>3, <1>8

\* A suspended coroutine becomes ready.
LEMMA WakeStep ==
  ASSUME Keyed, Holding, OnOwnFd, NEW key \in DOMAIN suspendedTasks, NEW b \in BOOLEAN, WakeSuspended(key, b),
         UNCHANGED <<current, preps, pendingOps, poolResumeQueue, poolJobs, ownedTasks>>
  PROVE  /\ Holding' /\ SuspendedOK'
         /\ suspendedTasks[key].handle \in Tasks /\ suspendedTasks[key].handle \in InSuspended
         /\ DOMAIN suspendedTasks' = DOMAIN suspendedTasks \ {key}
         /\ \A k \in DOMAIN suspendedTasks' : suspendedTasks'[k] = suspendedTasks[k]
<1> DEFINE t == suspendedTasks[key].handle
<1>1. InSuspended \cap InReady = {}
  BY HeldIs DEF Holding, Apart, Places
<1>2. /\ SuspendedOK' /\ OnceReady' /\ t \in Tasks /\ t \in InSuspended
      /\ InSuspended' = InSuspended \ {t} /\ InReady' = InReady \cup {t}
      /\ DOMAIN suspendedTasks' = DOMAIN suspendedTasks \ {key}
      /\ \A k \in DOMAIN suspendedTasks' : suspendedTasks'[k] = suspendedTasks[k]
  <2>1. SuspendedTypes /\ OnceSuspended /\ OnceReady
    BY DEF Keyed, Holding, Once
  <2> QED BY <1>1, <2>1, WakeMoves
<1> HIDE DEF t
<1> DEFINE G == Moved(Held, "suspended", "ready", {t})
<1>3. Apart(G) /\ Total(G) = Total(Held)
  <2>1. "suspended" \in Places /\ "ready" \in Places /\ {t} \subseteq Held["suspended"] /\ Apart(Held)
    BY <1>2, HeldIs DEF Places, Holding
  <2> QED BY <2>1, Moving
<1>4. Total(G) = Live' /\ InCurrent' = InCurrent
  BY <1>3 DEF Holding, Live, InCurrent
<1>5. /\ G["ready"] = InReady \cup {t} /\ G["suspended"] = InSuspended \ {t} /\ G["filePrep"] = InPreps("file")
      /\ G["splicePrep"] = InPreps("splice") /\ G["fileOp"] = Range(pendingOps["file"])
      /\ G["spliceOp"] = Range(pendingOps["splice"]) /\ G["posted"] = Range(poolResumeQueue)
      /\ G["job"] = poolJobs /\ G["current"] = InCurrent
  BY HeldIs DEF Places, Moved
<1> HIDE DEF G
<1>6. Once'
  BY <1>2, SamePreps, SameOps, SamePosted DEF Holding, Once, SuspendedOK
<1>7. Holding'
  BY <1>2, <1>3, <1>4, <1>5, <1>6, SamePreps, SameOps, SamePosted, HoldingAfter DEF Holding
<1> QED BY <1>2, <1>7 DEF t

\* The running coroutine submits an operation.
LEMMA SubmitStep ==
  ASSUME Numbered, Holding, NEW t \in Tasks, NEW kind \in OpKinds, current = <<t>>, SubmitOp(t, kind)
  PROVE  Holding'
<1> DEFINE place == IF kind = "file" THEN "filePrep" ELSE "splicePrep"
           G == Moved(Held, "current", place, {t})
<1>1. InCurrent = {t} /\ t \notin InPreps(kind)
  BY CurrentOnly
<1>2. current' = <<>> /\ UNCHANGED <<readyQueue, suspendedTasks, pendingOps, poolResumeQueue, poolJobs, ownedTasks>>
  BY DEF SubmitOp, Leave, suspVars, postVars, ownVars
<1>3. /\ OncePreps' /\ InPreps(kind)' = InPreps(kind) \cup {t}
      /\ \A k \in OpKinds : k # kind => preps'[k] = preps[k]
  BY <1>1, PrepAdds DEF Numbered, Holding, Once
<1>4. /\ InPreps("file")' = InPreps("file") \cup (IF kind = "file" THEN {t} ELSE {})
      /\ InPreps("splice")' = InPreps("splice") \cup (IF kind = "splice" THEN {t} ELSE {})
  <2>1. \A k \in OpKinds : k # kind => InPreps(k)' = InPreps(k)
    BY <1>3 DEF InPreps
  <2> QED BY <1>3, <2>1 DEF OpKinds
<1>5. Apart(G) /\ Total(G) = Total(Held)
  <2>1. "current" \in Places /\ place \in Places /\ "current" # place /\ {t} \subseteq Held["current"] /\ Apart(Held)
    BY <1>1, HeldIs DEF Places, Holding
  <2> QED BY <2>1, Moving
<1>6. Total(G) = Live'
  BY <1>2, <1>5 DEF Holding, Live
<1>7. /\ G["ready"] = InReady /\ G["suspended"] = InSuspended
      /\ G["filePrep"] = InPreps("file") \cup (IF kind = "file" THEN {t} ELSE {})
      /\ G["splicePrep"] = InPreps("splice") \cup (IF kind = "splice" THEN {t} ELSE {})
      /\ G["fileOp"] = Range(pendingOps["file"])
      /\ G["spliceOp"] = Range(pendingOps["splice"]) /\ G["posted"] = Range(poolResumeQueue)
      /\ G["job"] = poolJobs /\ G["current"] = {}
  BY <1>1, HeldIs DEF Places, Moved, OpKinds
<1> HIDE DEF G
<1>8. InSuspended' = InSuspended /\ OnceSuspended'
  BY <1>2 DEF InSuspended, OnceSuspended, Holding, Once
<1>9. Once'
  BY <1>2, <1>3, <1>8, SameReady, SameOps, SamePosted DEF Holding, Once
<1> QED BY <1>2, <1>4, <1>5, <1>6, <1>7, <1>8, <1>9, SameReady, SameOps, SamePosted, Idle, HoldingAfter DEF Holding

\* The running coroutine leaves its handle with a job.
LEMMA JobStep ==
  ASSUME Holding, NEW t \in Tasks, current = <<t>>, AwaitPoolJob(t)
  PROVE  Holding'
<1> DEFINE G == Moved(Held, "current", "job", {t})
<1>1. InCurrent = {t}
  BY CurrentOnly
<1>2. /\ current' = <<>> /\ poolJobs' = poolJobs \cup {t}
      /\ UNCHANGED <<readyQueue, suspendedTasks, preps, pendingOps, poolResumeQueue, ownedTasks>>
  BY DEF AwaitPoolJob, Leave, suspVars, uringVars, ownVars
<1>3. Apart(G) /\ Total(G) = Total(Held)
  <2>1. "current" \in Places /\ "job" \in Places /\ {t} \subseteq Held["current"] /\ Apart(Held)
    BY <1>1, HeldIs DEF Places, Holding
  <2> QED BY <2>1, Moving
<1>4. Total(G) = Live'
  BY <1>2, <1>3 DEF Holding, Live
<1>5. /\ G["ready"] = InReady /\ G["suspended"] = InSuspended /\ G["filePrep"] = InPreps("file")
      /\ G["splicePrep"] = InPreps("splice") /\ G["fileOp"] = Range(pendingOps["file"])
      /\ G["spliceOp"] = Range(pendingOps["splice"]) /\ G["posted"] = Range(poolResumeQueue)
      /\ G["job"] = poolJobs \cup {t} /\ G["current"] = {}
  BY <1>1, HeldIs DEF Places, Moved
<1> HIDE DEF G
<1>6. InSuspended' = InSuspended /\ OnceSuspended'
  BY <1>2 DEF InSuspended, OnceSuspended, Holding, Once
<1>7. Once'
  BY <1>2, <1>6, SameReady, SamePreps, SameOps, SamePosted DEF Holding, Once
<1>8. poolJobs' \subseteq Tasks
  BY <1>2 DEF Holding
<1> QED BY <1>2, <1>3, <1>4, <1>5, <1>6, <1>7, <1>8, SameReady, SamePreps, SameOps, SamePosted, Idle, HoldingAfter

\* A pool thread posts a coroutine.
LEMMA PushStep ==
  ASSUME Holding, NEW t \in Tasks, PostPush(t)
  PROVE  Holding'
<1> DEFINE G == Moved(Held, "job", "posted", {t})
<1>1. /\ t \in poolJobs /\ poolJobs' = poolJobs \ {t} /\ poolResumeQueue' = Append(poolResumeQueue, t)
      /\ UNCHANGED <<readyQueue, suspendedTasks, preps, pendingOps, current, ownedTasks>>
  BY DEF PostPush, loopVars, suspVars, uringVars, ownVars
<1>2. t \notin Range(poolResumeQueue)
  BY <1>1, HeldIs DEF Holding, Apart, Places
<1>3. Apart(G) /\ Total(G) = Total(Held)
  <2>1. "job" \in Places /\ "posted" \in Places /\ {t} \subseteq Held["job"] /\ Apart(Held)
    BY <1>1, HeldIs DEF Places, Holding
  <2> QED BY <2>1, Moving
<1>4. Total(G) = Live' /\ InCurrent' = InCurrent
  BY <1>1, <1>3 DEF Holding, Live, InCurrent
<1>5. /\ G["ready"] = InReady /\ G["suspended"] = InSuspended /\ G["filePrep"] = InPreps("file")
      /\ G["splicePrep"] = InPreps("splice") /\ G["fileOp"] = Range(pendingOps["file"])
      /\ G["spliceOp"] = Range(pendingOps["splice"]) /\ G["posted"] = Range(poolResumeQueue) \cup {t}
      /\ G["job"] = poolJobs \ {t} /\ G["current"] = InCurrent
  BY HeldIs DEF Places, Moved
<1> HIDE DEF G
<1>6. poolResumeQueue \in Seq(Tasks)
  BY DEF Holding, Once, OncePosted
<1>7. /\ poolResumeQueue' \in Seq(Tasks)
      /\ DOMAIN poolResumeQueue' = DOMAIN poolResumeQueue \cup {Len(poolResumeQueue) + 1}
      /\ \A i \in DOMAIN poolResumeQueue : poolResumeQueue'[i] = poolResumeQueue[i]
      /\ poolResumeQueue'[Len(poolResumeQueue) + 1] = t
  BY <1>1, <1>6, AppendIs
<1>8. \A i \in DOMAIN poolResumeQueue : poolResumeQueue[i] # t
  BY <1>2 DEF Range
<1>9. OncePosted' /\ Range(poolResumeQueue)' = Range(poolResumeQueue) \cup {t}
  <2>1. OncePosted'
    BY <1>7, <1>8 DEF OncePosted, Holding, Once
  <2>2. Range(poolResumeQueue)' = Range(poolResumeQueue) \cup {t}
    BY <1>7 DEF Range
  <2> QED BY <2>1, <2>2
<1>10. InSuspended' = InSuspended /\ OnceSuspended'
  BY <1>1 DEF InSuspended, OnceSuspended, Holding, Once
<1>11. Once'
  BY <1>1, <1>9, <1>10, SameReady, SamePreps, SameOps DEF Holding, Once
<1>12. poolJobs' \subseteq Tasks /\ (current' = <<>> \/ \E x \in Tasks : current' = <<x>>)
  BY <1>1 DEF Holding
<1> QED BY <1>1, <1>3, <1>4, <1>5, <1>9, <1>10, <1>11, <1>12, SameReady, SamePreps, SameOps, HoldingAfter

\* The loop drains what was posted.
LEMMA DrainStep ==
  ASSUME Holding, DrainPoolResumeQueue
  PROVE  /\ Holding'
         /\ NoNewTimeout
<1> DEFINE M == Range(poolResumeQueue)
           G == Moved(Held, "posted", "ready", M)
<1>1. /\ readyQueue' = readyQueue \o ReadyAll(poolResumeQueue) /\ poolResumeQueue' = <<>>
      /\ UNCHANGED <<suspendedTasks, preps, pendingOps, poolJobs, current, ownedTasks>>
  BY DEF DrainPoolResumeQueue, loopVars, suspVars, uringVars, ownVars
<1>2. poolResumeQueue \in Seq(Tasks) /\ \A i \in DOMAIN poolResumeQueue : poolResumeQueue[i] \in Tasks
  BY DEF Holding, Once, OncePosted
<1>3. poolResumeQueue \in Seq(Tasks \cup {NullHandle})
  BY <1>2
<1>4. M \cap InReady = {} /\ M \ {NullHandle} = M
  <2>1. M \cap InReady = {}
    BY HeldIs DEF Holding, Apart, Places
  <2>2. NullHandle \notin M
    BY <1>2, ExecutorAssumption DEF Range
  <2> QED BY <2>1, <2>2
<1>5. \A i \in DOMAIN poolResumeQueue : poolResumeQueue[i] \notin InReady
  BY <1>4 DEF Range
<1>6. /\ OnceReady' /\ InReady' = InReady \cup M
      /\ NoNewTimeout
  <2>1. \A i, j \in DOMAIN poolResumeQueue : poolResumeQueue[i] = poolResumeQueue[j] /\ i # j => poolResumeQueue[i] = NullHandle
    BY DEF Holding, Once, OncePosted
  <2>2. OnceReady
    BY DEF Holding, Once
  <2>3. /\ OnceReady' /\ InReady' = InReady \cup (M \ {NullHandle})
        /\ NoNewTimeout
    BY <1>1, <1>3, <1>5, <2>1, <2>2, ReadyConcat
  <2> QED BY <1>4, <2>3
<1>7. Apart(G) /\ Total(G) = Total(Held)
  <2>1. "posted" \in Places /\ "ready" \in Places /\ M \subseteq Held["posted"] /\ Apart(Held)
    BY HeldIs DEF Places, Holding
  <2> QED BY <2>1, Moving
<1>8. Total(G) = Live' /\ InCurrent' = InCurrent
  BY <1>1, <1>7 DEF Holding, Live, InCurrent
<1>9. /\ G["ready"] = InReady \cup M /\ G["suspended"] = InSuspended /\ G["filePrep"] = InPreps("file")
      /\ G["splicePrep"] = InPreps("splice") /\ G["fileOp"] = Range(pendingOps["file"])
      /\ G["spliceOp"] = Range(pendingOps["splice"]) /\ G["posted"] = {}
      /\ G["job"] = poolJobs /\ G["current"] = InCurrent
  BY HeldIs DEF Places, Moved
<1> HIDE DEF G
<1>10. OncePosted' /\ Range(poolResumeQueue)' = {}
  BY <1>1 DEF OncePosted, Range
<1>11. InSuspended' = InSuspended /\ OnceSuspended'
  BY <1>1 DEF InSuspended, OnceSuspended, Holding, Once
<1>12. Once'
  BY <1>1, <1>6, <1>10, <1>11, SamePreps, SameOps DEF Holding, Once
<1>13. poolJobs' \subseteq Tasks /\ (current' = <<>> \/ \E x \in Tasks : current' = <<x>>)
  BY <1>1 DEF Holding
<1> QED BY <1>1, <1>6, <1>7, <1>8, <1>9, <1>10, <1>11, <1>12, <1>13, SamePreps, SameOps, HoldingAfter

\* The loop drains completions: their coroutines leave the maps.
LEMMA CompletedStep ==
  ASSUME Numbered, Holding, readyQueue' = readyQueue \o ReadyAll(CompletedHandles), pendingOps' = OpsLeft,
         UNCHANGED <<suspendedTasks, preps, poolResumeQueue, poolJobs, current, ownedTasks>>
  PROVE  /\ Holding'
         /\ NoNewTimeout
<1> DEFINE hs == CompletedHandles
           Done(k) == {pendingOps[k][u] : u \in DOMAIN pendingOps[k] \cap Range(completions)}
           F == Moved(Held, "fileOp", "ready", Done("file"))
           G == Moved(F, "spliceOp", "ready", Done("splice"))
<1>1. completions \in Seq(Nat) /\ DOMAIN completions = 1..Len(completions) /\ Len(completions) \in Nat
  BY DEF Numbered, OpTypes
<1>2. \A i \in DOMAIN completions : \E k \in OpKinds : /\ completions[i] \in DOMAIN pendingOps[k]
                                                      /\ hs[i] = pendingOps[k][completions[i]] /\ hs[i] \in Tasks
  <2> SUFFICES ASSUME NEW i \in DOMAIN completions
               PROVE  \E k \in OpKinds : /\ completions[i] \in DOMAIN pendingOps[k]
                                         /\ hs[i] = pendingOps[k][completions[i]] /\ hs[i] \in Tasks
    OBVIOUS
  <2> DEFINE k == CHOOSE k \in OpKinds : completions[i] \in DOMAIN pendingOps[k]
  <2>1. completions[i] \in Range(completions)
    BY DEF Range
  <2>2. \E l \in OpKinds : completions[i] \in DOMAIN pendingOps[l]
    BY <2>1 DEF Numbered, KernelsAreKnown
  <2>3. k \in OpKinds /\ completions[i] \in DOMAIN pendingOps[k]
    BY <2>2
  <2>4. hs[i] = pendingOps[k][completions[i]]
    BY DEF CompletedHandles
  <2> HIDE DEF k, hs
  <2>5. pendingOps[k][completions[i]] \in Tasks
    BY <2>3 DEF Numbered, OpTypes
  <2> QED BY <2>3, <2>4, <2>5
<1>3. DOMAIN hs = DOMAIN completions /\ hs = [i \in DOMAIN completions |-> hs[i]]
  BY DEF CompletedHandles
<1> HIDE DEF hs
<1>4. hs \in Seq(Tasks \cup {NullHandle})
  <2>1. hs \in [1..Len(completions) -> Tasks \cup {NullHandle}]
    BY <1>1, <1>2, <1>3
  <2> QED BY <1>1, <2>1, MakesSeq
<1>5. Range(hs) = Done("file") \cup Done("splice")
  <2>1. \A x \in Range(hs) : x \in Done("file") \cup Done("splice")
    BY <1>2, <1>3 DEF Range, OpKinds
  <2>2. ASSUME NEW k \in OpKinds, NEW u \in DOMAIN pendingOps[k] \cap Range(completions) PROVE pendingOps[k][u] \in Range(hs)
    <3>1. PICK i \in DOMAIN completions : completions[i] = u
      BY <2>2 DEF Range
    <3>2. PICK l \in OpKinds : u \in DOMAIN pendingOps[l] /\ hs[i] = pendingOps[l][u]
      BY <1>2, <3>1
    <3>3. l = k
      BY <2>2, <3>2 DEF Numbered, MapsDiffer
    <3> QED BY <1>3, <3>1, <3>2, <3>3 DEF Range
  <2>3. \A x \in Done("file") \cup Done("splice") : x \in Range(hs)
    BY <2>2 DEF OpKinds
  <2> QED BY <2>1, <2>3
<1>6. \A k \in OpKinds : Done(k) \subseteq Range(pendingOps[k])
  BY DEF Range
<1>7. NullHandle \notin Range(hs)
  BY <1>2, <1>3, ExecutorAssumption DEF Range
<1>8. /\ Range(pendingOps["file"]) \cap InReady = {} /\ Range(pendingOps["splice"]) \cap InReady = {}
      /\ Range(pendingOps["file"]) \cap Range(pendingOps["splice"]) = {}
  BY HeldIs DEF Holding, Apart, Places
<1>9. \A i \in DOMAIN hs : hs[i] \notin InReady
  <2>1. \A i \in DOMAIN hs : hs[i] \in Range(hs)
    BY DEF Range
  <2> HIDE DEF Done
  <2> QED BY <1>5, <1>6, <1>8, <2>1 DEF OpKinds
<1>10. \A i, j \in DOMAIN hs : hs[i] = hs[j] /\ i # j => hs[i] = NullHandle
  <2> SUFFICES ASSUME NEW i \in DOMAIN completions, NEW j \in DOMAIN completions, hs[i] = hs[j] PROVE i = j
    BY <1>3
  <2>1. PICK k \in OpKinds : completions[i] \in DOMAIN pendingOps[k] /\ hs[i] = pendingOps[k][completions[i]]
    BY <1>2
  <2>2. PICK l \in OpKinds : completions[j] \in DOMAIN pendingOps[l] /\ hs[j] = pendingOps[l][completions[j]]
    BY <1>2
  <2>3. hs[i] \in Range(pendingOps[k]) /\ hs[i] \in Range(pendingOps[l])
    BY <2>1, <2>2 DEF Range
  <2>4. k = l
    BY <1>8, <2>3 DEF OpKinds
  <2>5. completions[i] = completions[j]
    BY <2>1, <2>2, <2>4 DEF Holding, Once, OnceOps
  <2> QED BY <2>5 DEF Numbered, CompletedOnce
<1>11. /\ OnceReady' /\ InReady' = InReady \cup Done("file") \cup Done("splice")
       /\ NoNewTimeout
  <2>1. OnceReady /\ readyQueue' = readyQueue \o ReadyAll(hs)
    BY DEF Holding, Once, hs
  <2>2. /\ OnceReady' /\ InReady' = InReady \cup (Range(hs) \ {NullHandle})
        /\ NoNewTimeout
    BY <1>4, <1>9, <1>10, <2>1, ReadyConcat
  <2> HIDE DEF Done
  <2> QED BY <1>5, <1>7, <2>2
<1>12. \A k \in OpKinds : /\ DOMAIN pendingOps'[k] = DOMAIN pendingOps[k] \ Range(completions)
                          /\ \A u \in DOMAIN pendingOps'[k] : pendingOps'[k][u] = pendingOps[k][u]
  BY DEF OpsLeft, Restrict
<1>13. OnceOps'
  BY <1>12 DEF Holding, Once, OnceOps
<1>14. ASSUME NEW k \in OpKinds PROVE Range(pendingOps'[k]) = Range(pendingOps[k]) \ Done(k)
  <2>1. \A u, v \in DOMAIN pendingOps[k] : pendingOps[k][u] = pendingOps[k][v] => u = v
    BY DEF Holding, Once, OnceOps
  <2> QED BY <1>12, <2>1 DEF Range
<1>15. Range(pendingOps["file"])' = Range(pendingOps["file"]) \ Done("file") /\ Range(pendingOps["splice"])' = Range(pendingOps["splice"]) \ Done("splice")
  BY <1>14 DEF OpKinds
<1>16. Done("file") \subseteq Range(pendingOps["file"]) /\ Done("splice") \subseteq Range(pendingOps["splice"])
  BY <1>6 DEF OpKinds
<1> HIDE DEF Done
<1>17. Apart(F) /\ Total(F) = Total(Held)
  <2>1. "fileOp" \in Places /\ "ready" \in Places /\ Done("file") \subseteq Held["fileOp"] /\ Apart(Held)
    BY <1>16, HeldIs DEF Places, Holding
  <2> QED BY <2>1, Moving
<1>18. Apart(G) /\ Total(G) = Total(F)
  <2>1. "spliceOp" \in Places /\ "ready" \in Places /\ Done("splice") \subseteq F["spliceOp"]
    BY <1>16, HeldIs DEF Places, Moved
  <2> HIDE DEF F
  <2> QED BY <1>17, <2>1, Moving
<1>19. Total(G) = Live' /\ InCurrent' = InCurrent
  BY <1>17, <1>18 DEF Holding, Live, InCurrent
<1>20. /\ F["ready"] = InReady \cup Done("file") /\ F["suspended"] = InSuspended /\ F["filePrep"] = InPreps("file")
       /\ F["splicePrep"] = InPreps("splice") /\ F["fileOp"] = Range(pendingOps["file"]) \ Done("file")
       /\ F["spliceOp"] = Range(pendingOps["splice"]) /\ F["posted"] = Range(poolResumeQueue)
       /\ F["job"] = poolJobs /\ F["current"] = InCurrent
  BY HeldIs DEF Places, Moved
<1> HIDE DEF F
<1>21. /\ G["ready"] = InReady \cup Done("file") \cup Done("splice") /\ G["suspended"] = InSuspended /\ G["filePrep"] = InPreps("file")
       /\ G["splicePrep"] = InPreps("splice") /\ G["fileOp"] = Range(pendingOps["file"]) \ Done("file")
       /\ G["spliceOp"] = Range(pendingOps["splice"]) \ Done("splice") /\ G["posted"] = Range(poolResumeQueue)
       /\ G["job"] = poolJobs /\ G["current"] = InCurrent
  BY <1>20 DEF Places, Moved
<1> HIDE DEF G
<1>22. InSuspended' = InSuspended /\ OnceSuspended'
  BY DEF InSuspended, OnceSuspended, Holding, Once
<1>23. Once'
  BY <1>11, <1>13, <1>22, SamePreps, SamePosted DEF Holding, Once
<1>24. poolJobs' \subseteq Tasks /\ (current' = <<>> \/ \E x \in Tasks : current' = <<x>>)
  BY DEF Holding
<1>25. Holding'
  BY <1>11, <1>15, <1>18, <1>17, <1>19, <1>21, <1>22, <1>23, <1>24, SamePreps, SamePosted, HoldingAfter
<1> QED BY <1>11, <1>25

\* The head of the ready queue is resumed, or is the null handle.
LEMMA ResumeStep ==
  ASSUME Holding, Resume
  PROVE  /\ Holding'
         /\ \A i \in DOMAIN readyQueue' : \E j \in DOMAIN readyQueue : j # 1 /\ readyQueue'[i] = readyQueue[j]
         /\ Head(readyQueue).task \notin InReady'
         /\ Head(readyQueue).task # NullHandle =>
              Head(readyQueue).task \in InReady /\ Head(readyQueue).task \in Tasks
<1> DEFINE h == Head(readyQueue).task
<1>1. /\ current = <<>> /\ readyQueue # <<>> /\ readyQueue' = Tail(readyQueue)
      /\ UNCHANGED <<suspendedTasks, preps, pendingOps, poolResumeQueue, poolJobs, ownedTasks>>
      /\ current' = IF h = NullHandle THEN current ELSE <<h>>
  BY DEF Resume, loopVars, suspVars, uringVars, ownVars, postVars
<1>2. /\ OnceReady' /\ InReady' = InReady \ {h}
      /\ Head(readyQueue) \in ReadyEntry /\ h \in InReady \cup {NullHandle}
      /\ \A i \in DOMAIN readyQueue' : \E j \in DOMAIN readyQueue : j # 1 /\ readyQueue'[i] = readyQueue[j]
  BY <1>1, ReadyTail DEF Holding, Once
<1>3. h \in Tasks \cup {NullHandle}
  BY <1>2 DEF ReadyEntry
<1> HIDE DEF h
<1>4. InSuspended' = InSuspended /\ OnceSuspended' /\ Live' = Live
  BY <1>1 DEF InSuspended, OnceSuspended, Holding, Once, Live
<1>5. Once'
  BY <1>1, <1>2, <1>4, SamePreps, SameOps, SamePosted DEF Holding, Once
<1>6. poolJobs' \subseteq Tasks /\ (current' = <<>> \/ \E x \in Tasks : current' = <<x>>)
  BY <1>1, <1>3 DEF Holding
<1>7. CASE h = NullHandle
  <2>1. InReady' = InReady
    BY <1>2, <1>7 DEF InReady
  <2>2. InCurrent' = InCurrent
    BY <1>1, <1>7 DEF InCurrent
  <2>3. Apart(Held) /\ Total(Held) = Live'
    BY <1>4 DEF Holding
  <2> QED BY <1>1, <1>2, <1>4, <1>5, <1>6, <1>7, <2>1, <2>2, <2>3, SamePreps, SameOps, SamePosted, HeldIs, HoldingAfter DEF h
<1>8. CASE h # NullHandle
  <2> DEFINE G == Moved(Held, "ready", "current", {h})
  <2>1. InCurrent = {} /\ InCurrent' = {h} /\ h \in InReady /\ h \in Tasks
    BY <1>1, <1>2, <1>3, <1>8 DEF InCurrent
  <2>2. Apart(G) /\ Total(G) = Total(Held)
    <3>1. "current" \in Places /\ "ready" \in Places /\ {h} \subseteq Held["ready"] /\ Apart(Held)
      BY <2>1, HeldIs DEF Places, Holding
    <3> QED BY <3>1, Moving
  <2>3. Total(G) = Live'
    BY <1>4, <2>2 DEF Holding
  <2>4. /\ G["ready"] = InReady \ {h} /\ G["suspended"] = InSuspended /\ G["filePrep"] = InPreps("file")
        /\ G["splicePrep"] = InPreps("splice") /\ G["fileOp"] = Range(pendingOps["file"])
        /\ G["spliceOp"] = Range(pendingOps["splice"]) /\ G["posted"] = Range(poolResumeQueue)
        /\ G["job"] = poolJobs /\ G["current"] = {h}
    BY <2>1, HeldIs DEF Places, Moved
  <2> HIDE DEF G
  <2>5. Holding'
    BY <1>1, <1>2, <1>4, <1>5, <1>6, <2>1, <2>2, <2>3, <2>4, SamePreps, SameOps, SamePosted, HoldingAfter
  <2> QED BY <1>2, <2>1, <2>5 DEF h
<1> QED BY <1>7, <1>8

\* A slot of the wheel: what is still suspended of it becomes ready.
LEMMA SlotMoves ==
  ASSUME Keyed, OnceSuspended, OnOwnFd, OnceReady, InSuspended \cap InReady = {},
         NEW slot \in Seq(Keys), \A i, j \in DOMAIN slot : slot[i] = slot[j] => i = j, WakeSlot(slot)
  PROVE  LET M == {suspendedTasks[k].handle : k \in Range(slot) \cap DOMAIN suspendedTasks} IN
         /\ SuspendedOK' /\ OnceReady' /\ M \subseteq InSuspended
         /\ InSuspended' = InSuspended \ M /\ InReady' = InReady \cup M
         /\ DOMAIN suspendedTasks' = DOMAIN suspendedTasks \ Range(slot)
         /\ \A k \in DOMAIN suspendedTasks' : suspendedTasks'[k] = suspendedTasks[k]
         /\ NoNewTimeout
<1> DEFINE M == {suspendedTasks[k].handle : k \in Range(slot) \cap DOMAIN suspendedTasks}
           hs == [i \in DOMAIN slot |-> IF slot[i] \in DOMAIN suspendedTasks
                                        THEN suspendedTasks[slot[i]].handle ELSE NullHandle]
<1>1. /\ SuspendedOK' /\ InSuspended' = InSuspended \ M
      /\ DOMAIN suspendedTasks' = DOMAIN suspendedTasks \ Range(slot)
      /\ \A k \in DOMAIN suspendedTasks' : suspendedTasks'[k] = suspendedTasks[k]
  <2>1. suspendedTasks' = Restrict(suspendedTasks, DOMAIN suspendedTasks \ Range(slot)) /\ SuspendedTypes
    BY DEF WakeSlot, StillSuspended, Keyed
  <2> QED BY <2>1, EraseRemoves
<1>2. M \subseteq InSuspended
  BY DEF InSuspended
<1>3. \A k \in DOMAIN suspendedTasks : suspendedTasks[k].handle \in Tasks /\ suspendedTasks[k].handle # NullHandle
  <2>1. \A k \in DOMAIN suspendedTasks : suspendedTasks[k] \in Suspended
    BY DEF Keyed, SuspendedTypes
  <2> QED BY <2>1, ExecutorAssumption DEF Suspended
<1>4. hs \in Seq(Tasks \cup {NullHandle}) /\ DOMAIN hs = DOMAIN slot
  <2>1. DOMAIN slot = 1..Len(slot) /\ Len(slot) \in Nat
    OBVIOUS
  <2>2. hs \in [1..Len(slot) -> Tasks \cup {NullHandle}]
    BY <1>3, <2>1
  <2> HIDE DEF hs
  <2> QED BY <2>1, <2>2, MakesSeq
<1>5. Range(hs) \ {NullHandle} = M
  BY <1>3 DEF Range
<1>6. NullHandle \notin InReady
  BY DEF InReady
<1>7. \A i \in DOMAIN hs : hs[i] \notin InReady
  BY <1>6 DEF InSuspended
<1>8. \A i, j \in DOMAIN hs : hs[i] = hs[j] /\ i # j => hs[i] = NullHandle
  <2> SUFFICES ASSUME NEW i \in DOMAIN slot, NEW j \in DOMAIN slot, hs[i] = hs[j], hs[i] # NullHandle PROVE i = j
    OBVIOUS
  <2>1. slot[i] \in DOMAIN suspendedTasks /\ hs[i] = suspendedTasks[slot[i]].handle
    OBVIOUS
  <2>2. slot[j] \in DOMAIN suspendedTasks /\ hs[j] = suspendedTasks[slot[j]].handle
    OBVIOUS
  <2>3. slot[i] = slot[j]
    BY <2>1, <2>2 DEF OnceSuspended
  <2> QED BY <2>3
<1>9. readyQueue' = readyQueue \o ReadyAll(hs)
  BY DEF WakeSlot
<1> HIDE DEF hs
<1>10. /\ OnceReady' /\ InReady' = InReady \cup M
       /\ NoNewTimeout
  BY <1>4, <1>5, <1>7, <1>8, <1>9, ReadyConcat
<1> QED BY <1>1, <1>2, <1>10

\* The end of a turn: operations are submitted, a slot is woken.
LEMMA TurnStep ==
  ASSUME Keyed, Numbered, Holding, OnOwnFd, PrepAndSubmit, WakeSlot(wakeUpQueue[wakeTime]),
         UNCHANGED <<poolResumeQueue, poolJobs, current, ownedTasks>>
  PROVE  /\ Holding' /\ SuspendedOK'
         /\ DOMAIN suspendedTasks' \subseteq DOMAIN suspendedTasks
         /\ \A k \in DOMAIN suspendedTasks' : suspendedTasks'[k] = suspendedTasks[k]
         /\ NoNewTimeout
<1> DEFINE slot == wakeUpQueue[wakeTime]
           M == {suspendedTasks[k].handle : k \in Range(slot) \cap DOMAIN suspendedTasks}
<1>1. slot \in Seq(Keys) /\ \A i, j \in DOMAIN slot : slot[i] = slot[j] => i = j
  BY DEF Keyed, SlotTypes
<1>2. /\ InSuspended \cap InReady = {}
      /\ InPreps("file") \cap Range(pendingOps["file"]) = {} /\ InPreps("splice") \cap Range(pendingOps["splice"]) = {}
  BY HeldIs DEF Holding, Apart, Places
<1>3. /\ SuspendedOK' /\ OnceReady' /\ M \subseteq InSuspended
      /\ InSuspended' = InSuspended \ M /\ InReady' = InReady \cup M
      /\ DOMAIN suspendedTasks' = DOMAIN suspendedTasks \ Range(slot)
      /\ \A k \in DOMAIN suspendedTasks' : suspendedTasks'[k] = suspendedTasks[k]
      /\ NoNewTimeout
  <2>1. OnceSuspended /\ OnceReady /\ WakeSlot(slot)
    BY DEF Holding, Once
  <2> HIDE DEF slot
  <2> QED BY <1>1, <1>2, <2>1, SlotMoves
<1> HIDE DEF M
<1>4. PICK n : Submits(n)
  BY PrepIs
<1>5. /\ OncePreps' /\ OnceOps'
      /\ \A k \in OpKinds : \E S : /\ S \subseteq InPreps(k) /\ InPreps(k)' = InPreps(k) \ S
                                   /\ Range(pendingOps'[k]) = Range(pendingOps[k]) \cup S
  <2>1. OncePreps /\ OnceOps /\ \A k \in OpKinds : InPreps(k) \cap Range(pendingOps[k]) = {}
    BY <1>2 DEF Holding, Once, OpKinds
  <2> QED BY <1>4, <2>1, PrepMoves
<1>6. PICK A : /\ A \subseteq InPreps("file") /\ InPreps("file")' = InPreps("file") \ A
               /\ Range(pendingOps["file"])' = Range(pendingOps["file"]) \cup A
  BY <1>5 DEF OpKinds
<1>7. PICK B : /\ B \subseteq InPreps("splice") /\ InPreps("splice")' = InPreps("splice") \ B
               /\ Range(pendingOps["splice"])' = Range(pendingOps["splice"]) \cup B
  BY <1>5 DEF OpKinds
<1> DEFINE E == Moved(Held, "suspended", "ready", M)
           F == Moved(E, "filePrep", "fileOp", A)
           G == Moved(F, "splicePrep", "spliceOp", B)
<1>8. Apart(E) /\ Total(E) = Total(Held)
  <2>1. "suspended" \in Places /\ "ready" \in Places /\ M \subseteq Held["suspended"] /\ Apart(Held)
    BY <1>3, HeldIs DEF Places, Holding
  <2> QED BY <2>1, Moving
<1>9. /\ E["ready"] = InReady \cup M /\ E["suspended"] = InSuspended \ M /\ E["filePrep"] = InPreps("file")
      /\ E["splicePrep"] = InPreps("splice") /\ E["fileOp"] = Range(pendingOps["file"])
      /\ E["spliceOp"] = Range(pendingOps["splice"]) /\ E["posted"] = Range(poolResumeQueue)
      /\ E["job"] = poolJobs /\ E["current"] = InCurrent
  BY HeldIs DEF Places, Moved
<1> HIDE DEF E
<1>10. Apart(F) /\ Total(F) = Total(E)
  <2>1. "filePrep" \in Places /\ "fileOp" \in Places /\ A \subseteq E["filePrep"]
    BY <1>6, <1>9 DEF Places
  <2> QED BY <1>8, <2>1, Moving
<1>11. /\ F["ready"] = InReady \cup M /\ F["suspended"] = InSuspended \ M /\ F["filePrep"] = InPreps("file") \ A
       /\ F["splicePrep"] = InPreps("splice") /\ F["fileOp"] = Range(pendingOps["file"]) \cup A
       /\ F["spliceOp"] = Range(pendingOps["splice"]) /\ F["posted"] = Range(poolResumeQueue)
       /\ F["job"] = poolJobs /\ F["current"] = InCurrent
  BY <1>9 DEF Places, Moved
<1> HIDE DEF F
<1>12. Apart(G) /\ Total(G) = Total(F)
  <2>1. "splicePrep" \in Places /\ "spliceOp" \in Places /\ B \subseteq F["splicePrep"]
    BY <1>7, <1>11 DEF Places
  <2> QED BY <1>10, <2>1, Moving
<1>13. /\ G["ready"] = InReady \cup M /\ G["suspended"] = InSuspended \ M /\ G["filePrep"] = InPreps("file") \ A
       /\ G["splicePrep"] = InPreps("splice") \ B /\ G["fileOp"] = Range(pendingOps["file"]) \cup A
       /\ G["spliceOp"] = Range(pendingOps["splice"]) \cup B /\ G["posted"] = Range(poolResumeQueue)
       /\ G["job"] = poolJobs /\ G["current"] = InCurrent
  BY <1>11 DEF Places, Moved
<1> HIDE DEF G
<1>14. Total(G) = Live' /\ InCurrent' = InCurrent
  BY <1>8, <1>10, <1>12 DEF Holding, Live, InCurrent
<1>15. Once'
  BY <1>3, <1>5, SamePosted DEF Holding, Once, SuspendedOK
<1>16. poolJobs' \subseteq Tasks /\ (current' = <<>> \/ \E x \in Tasks : current' = <<x>>)
  BY DEF Holding
<1>17. Holding'
  BY <1>3, <1>6, <1>7, <1>12, <1>13, <1>14, <1>15, <1>16, SamePosted, HoldingAfter
<1> QED BY <1>3, <1>17

\* A new coroutine is ready.
LEMMA SpawnStep ==
  ASSUME Owned, Holding, NEW c \in Callers, Root \in Live, SpawnTask(c),
         UNCHANGED <<suspendedTasks, preps, pendingOps, poolResumeQueue, poolJobs, current>>
  PROVE  Holding' /\ Owned' /\ c \in Tasks /\ Live' = Live \cup {c}
<1> DEFINE G == [p \in Places |-> IF p = "ready" THEN Held[p] \cup {c} ELSE Held[p]]
<1>1. Owned' /\ Live' = Live \cup {c} /\ c \in Tasks /\ c \notin Live
  BY SpawnOwned DEF Callers
<1>2. \A p \in Places : c \notin Held[p]
  BY <1>1 DEF Holding, Total
<1>3. OnceReady' /\ InReady' = InReady \cup {c}
  <2>1. OnceReady /\ c \notin InReady /\ readyQueue' = Append(readyQueue, Ready(c, FALSE))
    BY <1>2, HeldIs DEF Holding, Once, SpawnTask, Places
  <2> QED BY <1>1, <2>1, ReadyAppend
<1>4. Apart(G)
  BY <1>2 DEF Apart, Holding
<1>5. Total(G) = Total(Held) \cup {c}
  <2>1. \A x : x \in Total(G) <=> \E p \in Places : x \in G[p]
    BY DEF Total
  <2>2. \A x : x \in Total(Held) <=> \E p \in Places : x \in Held[p]
    BY DEF Total
  <2>3. "ready" \in Places
    BY DEF Places
  <2>4. \A x : (\E p \in Places : x \in G[p]) <=> (\E p \in Places : x \in Held[p]) \/ x = c
    BY <2>3
  <2> QED BY <2>1, <2>2, <2>4
<1>6. /\ G["ready"] = InReady \cup {c} /\ G["suspended"] = InSuspended /\ G["filePrep"] = InPreps("file")
      /\ G["splicePrep"] = InPreps("splice") /\ G["fileOp"] = Range(pendingOps["file"])
      /\ G["spliceOp"] = Range(pendingOps["splice"]) /\ G["posted"] = Range(poolResumeQueue)
      /\ G["job"] = poolJobs /\ G["current"] = InCurrent
  BY HeldIs DEF Places
<1> HIDE DEF G
<1>7. Total(G) = Live' /\ InCurrent' = InCurrent
  BY <1>1, <1>5 DEF Holding, InCurrent
<1>8. InSuspended' = InSuspended /\ OnceSuspended'
  BY DEF InSuspended, OnceSuspended, Holding, Once
<1>9. Once'
  BY <1>3, <1>8, SamePreps, SameOps, SamePosted DEF Holding, Once
<1>10. poolJobs' \subseteq Tasks /\ (current' = <<>> \/ \E x \in Tasks : current' = <<x>>)
  BY DEF Holding
<1>11. Holding'
  BY <1>3, <1>4, <1>6, <1>7, <1>8, <1>9, <1>10, SamePreps, SameOps, SamePosted, HoldingAfter
<1> QED BY <1>1, <1>11

\* The running coroutine ends: its handle is nowhere.
LEMMA FinishStep ==
  ASSUME Owned, Holding, NEW t \in Tasks, current = <<t>>, Finish(t),
         UNCHANGED <<readyQueue, suspendedTasks, preps, pendingOps, poolResumeQueue, poolJobs>>
  PROVE  Holding' /\ Owned' /\ Live' = Live \ {t}
<1> DEFINE G == [p \in Places |-> IF p = "current" THEN {} ELSE Held[p]]
<1>1. InCurrent = {t} /\ t \in Live
  BY CurrentOnly
<1>2. Owned' /\ Live' = Live \ {t} /\ current' = <<>>
  BY <1>1, ReapOwned DEF Finish
<1>3. \A p \in Places : p # "current" => t \notin Held[p]
  BY <1>1, HeldIs DEF Holding, Apart, Places
<1>4. Apart(G)
  BY DEF Apart, Holding
<1>5. Total(G) = Total(Held) \ {t}
  <2>1. \A x : x \in Total(G) <=> \E p \in Places : x \in G[p]
    BY DEF Total
  <2>2. \A x : x \in Total(Held) <=> \E p \in Places : x \in Held[p]
    BY DEF Total
  <2>3. "current" \in Places /\ Held["current"] = {t}
    BY <1>1, HeldIs DEF Places
  <2>4. \A x : (\E p \in Places : x \in G[p]) <=> (\E p \in Places : x \in Held[p]) /\ x # t
    BY <1>3, <2>3
  <2> QED BY <2>1, <2>2, <2>4
<1>6. /\ G["ready"] = InReady /\ G["suspended"] = InSuspended /\ G["filePrep"] = InPreps("file")
      /\ G["splicePrep"] = InPreps("splice") /\ G["fileOp"] = Range(pendingOps["file"])
      /\ G["spliceOp"] = Range(pendingOps["splice"]) /\ G["posted"] = Range(poolResumeQueue)
      /\ G["job"] = poolJobs /\ G["current"] = {}
  BY HeldIs DEF Places
<1> HIDE DEF G
<1>7. Total(G) = Live'
  BY <1>2, <1>5 DEF Holding
<1>8. InSuspended' = InSuspended /\ OnceSuspended'
  BY DEF InSuspended, OnceSuspended, Holding, Once
<1>9. Once'
  BY <1>8, SameReady, SamePreps, SameOps, SamePosted DEF Holding, Once
<1>10. poolJobs' \subseteq Tasks
  BY DEF Holding
<1>11. Holding'
  BY <1>2, <1>4, <1>6, <1>7, <1>8, <1>9, <1>10, SameReady, SamePreps, SameOps, SamePosted, Idle, HoldingAfter
<1> QED BY <1>2, <1>11

-----------------------------------------------------------------------------
(* One holder: every step *)

\* What a step leaves alone.
LEMMA SameOwned == ASSUME Owned, UNCHANGED ownVars PROVE Owned'
  BY DEF Owned, ownVars, Live, Listener
\* A step that leaves io_uring alone.
LEMMA SameNumbered == ASSUME Numbered, UNCHANGED uringVars PROVE Numbered'
<1>1. UNCHANGED <<preps, pendingOps, inflight, completions>>
  BY DEF uringVars
<1>2. OpTypes'
  BY <1>1 DEF Numbered, OpTypes
<1>3. PrepsDiffer' /\ PrepsAreNew'
  BY <1>1 DEF Numbered, PrepsDiffer, PrepsAreNew
<1>4. MapsDiffer' /\ KernelsAreKnown' /\ CompletedOnce'
  BY <1>1 DEF Numbered, MapsDiffer, KernelsAreKnown, CompletedOnce
<1> QED BY <1>2, <1>3, <1>4 DEF Numbered
\* A step that leaves the wheel alone.
LEMMA SameSlots == ASSUME SlotTypes, UNCHANGED wakeVars PROVE SlotTypes'
  BY DEF SlotTypes, wakeVars
\* A step that leaves every table of keys alone.
LEMMA SameKeyed == ASSUME Keyed, UNCHANGED suspVars, UNCHANGED wakeVars PROVE Keyed'
  BY SameSlots DEF Keyed, SuspendedTypes, DeadlineTypes, EventTypes, suspVars
\* A step that leaves the deadlines alone.
LEMMA SameDeadlines == ASSUME DeadlineTypes, UNCHANGED taskDeadlines PROVE DeadlineTypes'
  BY DEF DeadlineTypes
\* A step that leaves the event keys alone.
LEMMA SameEvents == ASSUME EventTypes, UNCHANGED eventKeys PROVE EventTypes'
  BY DEF EventTypes
\* A step that leaves suspendedTasks_ alone keeps everybody on his socket.
LEMMA SameOnOwnFd == ASSUME OnOwnFd, UNCHANGED suspendedTasks PROVE OnOwnFd'
  BY DEF OnOwnFd

\* A step that moves no handle and changes no table.
LEMMA CoreStays ==
  ASSUME Core, UNCHANGED <<current, readyQueue, poolResumeQueue, poolJobs>>,
         UNCHANGED suspVars, UNCHANGED uringVars, UNCHANGED wakeVars, UNCHANGED ownVars
  PROVE  Core'
<1>1. Owned' /\ Numbered' /\ Keyed'
  BY SameOwned, SameNumbered, SameKeyed DEF Core
<1>2. UNCHANGED <<suspendedTasks, preps, pendingOps, ownedTasks>>
  BY DEF suspVars, uringVars, ownVars
<1>3. Holding' /\ OnOwnFd'
  BY <1>2, StayStep, SameOnOwnFd DEF Core
<1> QED BY <1>1, <1>3 DEF Core

\* A deadline more, under any key.
LEMMA DeadlineAdds ==
  ASSUME Keyed, NEW key \in Int, NEW timeout \in Timeouts, SetDeadline(key, timeout)
  PROVE  DeadlineTypes'
<1> DEFINE d == [left |-> timeout, fd |-> key, suspensionSeq |-> FreshSeq]
<1>1. d \in [left : Nat, fd : Int, suspensionSeq : Nat]
  BY FreshSeqIsFresh, ExecutorAssumption
<1>2. taskDeadlines' = taskDeadlines \cup {d}
  BY DEF SetDeadline
<1> HIDE DEF d
<1>3. IsFiniteSet(taskDeadlines')
  BY <1>2, FS_AddElement DEF Keyed, DeadlineTypes
<1> QED BY <1>1, <1>2, <1>3 DEF Keyed, DeadlineTypes

\* The running coroutine waits for its socket.
LEMMA WaitCore ==
  ASSUME Core, NEW t \in Tasks, current = <<t>>, NEW timeout \in Timeouts,
         WaitForRead(t, timeout) \/ WaitForWrite(t, timeout),
         UNCHANGED <<readyQueue, eventKeys>>, UNCHANGED postVars, UNCHANGED uringVars, UNCHANGED wakeVars, UNCHANGED ownVars
  PROVE  Core'
<1>1. PICK write \in BOOLEAN : SuspendOn(FdOf[t], t, write)
  BY DEF WaitForRead, WaitForWrite
<1>2. SetDeadline(FdOf[t], timeout) /\ current' = <<>> /\ FdOf[t] \in Int
  <2>1. FdOf[t] \in Nat
    BY ExecutorAssumption
  <2>2. SetDeadline(FdOf[t], timeout) /\ current' = <<>>
    BY DEF WaitForRead, WaitForWrite, Leave
  <2> QED BY <2>1, <2>2
<1>3. UNCHANGED <<readyQueue, preps, pendingOps, poolResumeQueue, poolJobs, ownedTasks>>
  BY DEF postVars, uringVars, ownVars
<1>4. Holding' /\ SuspendedOK'
  BY <1>1, <1>2, <1>3, SuspendStep DEF Core
<1>5. DeadlineTypes'
  BY <1>2, DeadlineAdds DEF Core
<1>6. Owned' /\ Numbered'
  BY SameOwned, SameNumbered DEF Core
<1>7. Keyed'
  BY <1>4, <1>5, SameSlots, SameEvents DEF Core, Keyed, SuspendedOK
<1> QED BY <1>4, <1>6, <1>7 DEF Core, SuspendedOK

\* The running coroutine waits for an event.
LEMMA WaitForEventCore ==
  ASSUME Core, NEW t \in Tasks, NEW timeout \in Timeouts, WaitForEvent(t, timeout)
  PROVE  Core'
<1>1. current = <<t>> /\ current' = <<>>
  BY DEF WaitForEvent, Running, Leave
<1>2. SuspendOn(FreshKey, t, FALSE) /\ SetDeadline(FreshKey, timeout) /\ eventKeys' = eventKeys \cup {FreshKey}
  BY DEF WaitForEvent
<1>3. UNCHANGED readyQueue /\ UNCHANGED postVars /\ UNCHANGED uringVars /\ UNCHANGED wakeVars /\ UNCHANGED ownVars
  BY DEF WaitForEvent
<1>4. UNCHANGED <<readyQueue, preps, pendingOps, poolResumeQueue, poolJobs, ownedTasks>>
  BY <1>3 DEF postVars, uringVars, ownVars
<1>5. FreshKey \in Keys /\ FreshKey \in Int
  BY FreshKeyIsFresh DEF Core, Keys
<1>6. Holding' /\ SuspendedOK'
  BY <1>1, <1>2, <1>4, SuspendStep DEF Core
<1>7. DeadlineTypes'
  BY <1>2, <1>5, DeadlineAdds DEF Core
<1>8. EventTypes'
  BY <1>2, <1>5, FS_AddElement DEF Core, Keyed, EventTypes
<1>9. Owned' /\ Numbered'
  BY <1>3, SameOwned, SameNumbered DEF Core
<1>10. Keyed'
  BY <1>3, <1>6, <1>7, <1>8, SameSlots DEF Core, Keyed, SuspendedOK
<1> QED BY <1>6, <1>9, <1>10 DEF Core, SuspendedOK

\* The running coroutine asks to be woken in a number of turns.
LEMMA WakeMeInCore ==
  ASSUME Core, NEW t \in Tasks, NEW cycles \in Cycles, WakeMeIn(t, cycles)
  PROVE  Core'
<1>1. current = <<t>> /\ current' = <<>>
  BY DEF WakeMeIn, Running, Leave
<1>2. SuspendOn(FreshKey, t, FALSE) /\ UNCHANGED taskDeadlines /\ UNCHANGED eventKeys /\ UNCHANGED wakeTime
  BY DEF WakeMeIn
<1>3. UNCHANGED readyQueue /\ UNCHANGED postVars /\ UNCHANGED uringVars /\ UNCHANGED ownVars
  BY DEF WakeMeIn
<1>4. UNCHANGED <<readyQueue, preps, pendingOps, poolResumeQueue, poolJobs, ownedTasks>>
  BY <1>3 DEF postVars, uringVars, ownVars
<1>5. Holding' /\ SuspendedOK'
  BY <1>1, <1>2, <1>4, SuspendStep DEF Core
<1>6. SlotTypes'
  <2> DEFINE n == (wakeTime + cycles) % MaxWakeupTurn
  <2>1. wakeTime \in Nat /\ cycles \in Nat /\ MaxWakeupTurn \in Nat \ {0}
    BY ExecutorAssumption DEF Core, Keyed, SlotTypes
  <2>2. n \in 0..MaxWakeupTurn - 1
    BY <2>1
  <2>3. wakeUpQueue' = [wakeUpQueue EXCEPT ![n] = Append(@, FreshKey)]
    BY DEF WakeMeIn
  <2>4. wakeUpQueue \in [0..MaxWakeupTurn - 1 -> Seq(Keys)]
    BY DEF Core, Keyed, SlotTypes
  <2>5. FreshKey \in Keys /\ \A m \in DOMAIN wakeUpQueue : FreshKey \notin Range(wakeUpQueue[m])
    BY FreshKeyIsFresh DEF Core
  <2> HIDE DEF n
  <2>6. wakeUpQueue'[n] = Append(wakeUpQueue[n], FreshKey) /\ wakeUpQueue[n] \in Seq(Keys)
        /\ \A m \in DOMAIN wakeUpQueue : m # n => wakeUpQueue'[m] = wakeUpQueue[m]
    BY <2>2, <2>3, <2>4
  <2>7. /\ wakeUpQueue'[n] \in Seq(Keys)
        /\ DOMAIN wakeUpQueue'[n] = DOMAIN wakeUpQueue[n] \cup {Len(wakeUpQueue[n]) + 1}
        /\ \A i \in DOMAIN wakeUpQueue[n] : wakeUpQueue'[n][i] = wakeUpQueue[n][i]
        /\ wakeUpQueue'[n][Len(wakeUpQueue[n]) + 1] = FreshKey
    BY <2>5, <2>6, AppendIs
  <2>8. \A i \in DOMAIN wakeUpQueue[n] : wakeUpQueue[n][i] # FreshKey
    BY <2>2, <2>4, <2>5 DEF Range
  <2>9. \A i, j \in DOMAIN wakeUpQueue[n] : wakeUpQueue[n][i] = wakeUpQueue[n][j] => i = j
    BY <2>2, <2>4 DEF Core, Keyed, SlotTypes
  <2>10. \A i, j \in DOMAIN wakeUpQueue'[n] : wakeUpQueue'[n][i] = wakeUpQueue'[n][j] => i = j
    BY <2>7, <2>8, <2>9
  <2>11. wakeUpQueue' \in [0..MaxWakeupTurn - 1 -> Seq(Keys)]
    BY <2>2, <2>3, <2>4, <2>6, <2>7
  <2>12. ASSUME NEW m \in DOMAIN wakeUpQueue'
         PROVE  \A i, j \in DOMAIN wakeUpQueue'[m] : wakeUpQueue'[m][i] = wakeUpQueue'[m][j] => i = j
    <3>1. CASE m = n
      BY <2>10, <3>1
    <3>2. CASE m # n
      <4>1. m \in DOMAIN wakeUpQueue /\ wakeUpQueue'[m] = wakeUpQueue[m]
        BY <2>4, <2>6, <2>11, <2>12, <3>2
      <4> QED BY <4>1 DEF Core, Keyed, SlotTypes
    <3> QED BY <3>1, <3>2
  <2>13. wakeTime' \in 0..MaxWakeupTurn - 1
    BY <1>2 DEF Core, Keyed, SlotTypes
  <2> QED BY <2>11, <2>12, <2>13 DEF SlotTypes
<1>7. Owned' /\ Numbered'
  BY <1>3, SameOwned, SameNumbered DEF Core
<1>8. Keyed'
  BY <1>2, <1>5, <1>6, SameDeadlines, SameEvents DEF Core, Keyed, SuspendedOK
<1> QED BY <1>5, <1>7, <1>8 DEF Core, SuspendedOK

\* A suspended coroutine becomes ready; deadlines and keys may be dropped.
LEMMA WakeCore ==
  ASSUME Core, NEW key, NEW b \in BOOLEAN,
         \/ key \in DOMAIN suspendedTasks /\ WakeSuspended(key, b)
         \/ UNCHANGED <<readyQueue, suspendedTasks>>,
         taskDeadlines' \subseteq taskDeadlines, eventKeys' \subseteq eventKeys,
         UNCHANGED current, UNCHANGED postVars, UNCHANGED uringVars, UNCHANGED wakeVars, UNCHANGED ownVars
  PROVE  Core'
<1>1. UNCHANGED <<current, preps, pendingOps, poolResumeQueue, poolJobs, ownedTasks>>
  BY DEF postVars, uringVars, ownVars
<1>2. Holding' /\ SuspendedOK'
  <2>1. CASE key \in DOMAIN suspendedTasks /\ WakeSuspended(key, b)
    BY <1>1, <2>1, WakeStep DEF Core
  <2>2. CASE UNCHANGED <<readyQueue, suspendedTasks>>
    BY <1>1, <2>2, StayStep, SameSuspended DEF Core, Keyed, Holding, Once
  <2> QED BY <2>1, <2>2
<1>3. DeadlineTypes' /\ EventTypes'
  BY FS_Subset DEF Core, Keyed, DeadlineTypes, EventTypes
<1>4. Owned' /\ Numbered' /\ SlotTypes'
  BY SameOwned, SameNumbered, SameSlots DEF Core, Keyed
<1>5. Keyed'
  BY <1>2, <1>3, <1>4 DEF Keyed, SuspendedOK
<1> QED BY <1>2, <1>4, <1>5 DEF Core, SuspendedOK

\* What coroutines do.
LEMMA CoroutineCore == ASSUME Core, Coroutine PROVE Core'
<1>1. ASSUME NEW timeout \in Timeouts, AcceptLoopStart(timeout) \/ AcceptLoopWait(timeout) PROVE Core'
  <2>1. Root \in Tasks /\ current = <<Root>> /\ WaitForRead(Root, timeout)
    BY <1>1, ExecutorAssumption DEF AcceptLoopStart, AcceptLoopWait, Running
  <2>2. UNCHANGED <<readyQueue, eventKeys>> /\ UNCHANGED postVars /\ UNCHANGED uringVars /\ UNCHANGED wakeVars /\ UNCHANGED ownVars
    BY <1>1 DEF AcceptLoopStart, AcceptLoopWait
  <2> QED BY <2>1, <2>2, WaitCore
<1>2. ASSUME NEW c \in Tasks, Accept(c) PROVE Core'
  <2>1. /\ c \in Callers /\ SpawnTask(c) /\ current = <<Root>> /\ Root \in Tasks
        /\ UNCHANGED current /\ UNCHANGED suspVars /\ UNCHANGED postVars /\ UNCHANGED uringVars /\ UNCHANGED wakeVars
    BY <1>2, ExecutorAssumption DEF Accept, Running, loopVars
  <2>2. Root \in Live
    BY <2>1, CurrentOnly DEF Core
  <2>3. UNCHANGED <<suspendedTasks, preps, pendingOps, poolResumeQueue, poolJobs, current>>
    BY <2>1 DEF suspVars, postVars, uringVars
  <2>4. Holding' /\ Owned'
    BY <2>1, <2>2, <2>3, SpawnStep DEF Core
  <2>5. Numbered' /\ Keyed' /\ OnOwnFd'
    BY <2>1, <2>3, SameNumbered, SameKeyed, SameOnOwnFd DEF Core
  <2> QED BY <2>4, <2>5 DEF Core
<1>3. ASSUME NEW t \in Tasks, current = <<t>>, Finish(t), UNCHANGED <<readyQueue, taskDeadlines, eventKeys>>,
             suspendedTasks' = suspendedTasks \/ suspendedTasks' = Without(suspendedTasks, FdOf[t]),
             UNCHANGED postVars, UNCHANGED uringVars, UNCHANGED wakeVars
      PROVE  Core'
  <2>1. FdOf[t] \notin DOMAIN suspendedTasks
    BY <1>3, CurrentOnly, NothingOnFd DEF Core
  <2>2. UNCHANGED suspendedTasks
    <3>1. suspendedTasks = [k \in DOMAIN suspendedTasks |-> suspendedTasks[k]]
      BY DEF Core, Keyed, SuspendedTypes
    <3>2. DOMAIN suspendedTasks \ {FdOf[t]} = DOMAIN suspendedTasks
      BY <2>1
    <3> QED BY <1>3, <3>1, <3>2 DEF Without, Restrict
  <2>3. UNCHANGED <<readyQueue, suspendedTasks, preps, pendingOps, poolResumeQueue, poolJobs>>
    BY <1>3, <2>2 DEF postVars, uringVars
  <2>4. Holding' /\ Owned'
    BY <1>3, <2>3, FinishStep DEF Core
  <2>5. UNCHANGED suspVars
    BY <1>3, <2>2 DEF suspVars
  <2>6. Numbered' /\ Keyed' /\ OnOwnFd'
    BY <1>3, <2>2, <2>5, SameNumbered, SameKeyed, SameOnOwnFd DEF Core
  <2> QED BY <2>4, <2>6 DEF Core
<1>4. CASE AcceptLoopReturns
  <2>1. Root \in Tasks /\ current = <<Root>> /\ Finish(Root) /\ UNCHANGED <<readyQueue, taskDeadlines, eventKeys>>
        /\ suspendedTasks' = suspendedTasks /\ UNCHANGED postVars /\ UNCHANGED uringVars /\ UNCHANGED wakeVars
    BY <1>4, ExecutorAssumption DEF AcceptLoopReturns, Running, suspVars
  <2> QED BY <2>1, <1>3
<1>5. ASSUME NEW t \in Tasks, ConnectionReturns(t) \/ ConnectionThrows(t) PROVE Core'
  <2>1. current = <<t>> /\ Finish(t) /\ UNCHANGED <<readyQueue, taskDeadlines, eventKeys>>
        /\ UNCHANGED postVars /\ UNCHANGED uringVars /\ UNCHANGED wakeVars
    BY <1>5 DEF ConnectionReturns, ConnectionThrows, Running, suspVars
  <2>2. suspendedTasks' = suspendedTasks \/ suspendedTasks' = Without(suspendedTasks, FdOf[t])
    BY <1>5 DEF ConnectionReturns, ConnectionThrows, Unregister, suspVars
  <2> QED BY <2>1, <2>2, <1>3
<1>6. ASSUME NEW t \in Tasks, RegisterReadFd(t) PROVE Core'
  <2>1. UNCHANGED <<current, readyQueue, poolResumeQueue, poolJobs>> /\ UNCHANGED suspVars /\ UNCHANGED uringVars
        /\ UNCHANGED wakeVars /\ UNCHANGED ownVars
    BY <1>6 DEF RegisterReadFd, loopVars, postVars
  <2> QED BY <2>1, CoreStays
<1>7. ASSUME NEW t \in Tasks, NEW timeout \in Timeouts, ReadOrSuspend(t, timeout) \/ WriteOrSuspend(t, timeout) PROVE Core'
  <2>1. /\ current = <<t>> /\ UNCHANGED readyQueue /\ UNCHANGED postVars /\ UNCHANGED uringVars /\ UNCHANGED wakeVars
        /\ UNCHANGED ownVars
    BY <1>7 DEF ReadOrSuspend, WriteOrSuspend, Running
  <2>2. \/ UNCHANGED loopVars /\ UNCHANGED suspVars
        \/ (WaitForRead(t, timeout) \/ WaitForWrite(t, timeout)) /\ UNCHANGED eventKeys
    BY <1>7 DEF ReadOrSuspend, WriteOrSuspend
  <2>3. CASE UNCHANGED loopVars /\ UNCHANGED suspVars
    <3>1. UNCHANGED <<current, readyQueue, poolResumeQueue, poolJobs>>
      BY <2>1, <2>3 DEF loopVars, postVars
    <3> QED BY <2>1, <2>3, <3>1, CoreStays
  <2>4. CASE (WaitForRead(t, timeout) \/ WaitForWrite(t, timeout)) /\ UNCHANGED eventKeys
    BY <2>1, <2>4, WaitCore
  <2> QED BY <2>2, <2>3, <2>4
<1>8. ASSUME NEW t \in Tasks, NEW key \in eventKeys, FireEvent(t, key) PROVE Core'
  <2>1. /\ \/ key \in DOMAIN suspendedTasks /\ WakeSuspended(key, FALSE)
           \/ UNCHANGED <<readyQueue, suspendedTasks>>
        /\ taskDeadlines' \subseteq taskDeadlines /\ eventKeys' \subseteq eventKeys
        /\ UNCHANGED current /\ UNCHANGED postVars /\ UNCHANGED uringVars /\ UNCHANGED wakeVars /\ UNCHANGED ownVars
    BY <1>8 DEF FireEvent, loopVars
  <2> QED BY <2>1, WakeCore
<1>9. ASSUME NEW t \in Tasks, NEW kind \in OpKinds, SubmitOp(t, kind) PROVE Core'
  <2>1. current = <<t>> /\ UNCHANGED suspVars /\ UNCHANGED wakeVars /\ UNCHANGED ownVars
    BY <1>9 DEF SubmitOp, Running
  <2>2. Holding' /\ Numbered'
    BY <1>9, <2>1, SubmitStep, SubmitNumbered DEF Core
  <2>3. UNCHANGED suspendedTasks
    BY <2>1 DEF suspVars
  <2>4. Owned' /\ Keyed' /\ OnOwnFd'
    BY <2>1, <2>3, SameOwned, SameKeyed, SameOnOwnFd DEF Core
  <2> QED BY <2>2, <2>4 DEF Core
<1>10. ASSUME NEW t \in Tasks, AwaitPoolJob(t) PROVE Core'
  <2>1. current = <<t>> /\ UNCHANGED suspVars /\ UNCHANGED wakeVars /\ UNCHANGED ownVars /\ UNCHANGED uringVars
    BY <1>10 DEF AwaitPoolJob, Running
  <2>2. Holding'
    BY <1>10, <2>1, JobStep DEF Core
  <2>3. UNCHANGED suspendedTasks
    BY <2>1 DEF suspVars
  <2>4. Owned' /\ Keyed' /\ OnOwnFd' /\ Numbered'
    BY <2>1, <2>3, SameOwned, SameKeyed, SameOnOwnFd, SameNumbered DEF Core
  <2> QED BY <2>2, <2>4 DEF Core
<1>11. CASE AcceptLoop
  BY <1>11, <1>1, <1>2, <1>4 DEF AcceptLoop
<1>12. ASSUME NEW t \in Tasks, Connection(t) PROVE Core'
  BY <1>12, <1>5, <1>6, <1>7, <1>8, <1>9, <1>10, WaitForEventCore, WakeMeInCore DEF Connection
<1> QED BY <1>11, <1>12 DEF Coroutine

\* The turn of the loop.
LEMMA LoopCore == ASSUME Core, Loop PROVE Core'
<1>1. CASE TopOfLoop
  <2>1. UNCHANGED <<suspendedTasks, preps, inflight, poolResumeQueue, poolJobs, current, ownedTasks>>
        /\ UNCHANGED suspVars /\ UNCHANGED wakeVars /\ UNCHANGED ownVars
    BY <1>1 DEF TopOfLoop, suspVars, postVars, ownVars
  <2>2. CASE UNCHANGED <<readyQueue, pendingOps, completions>>
    <3>1. UNCHANGED uringVars /\ UNCHANGED <<current, readyQueue, poolResumeQueue, poolJobs>>
      BY <2>1, <2>2 DEF uringVars
    <3> QED BY <2>1, <3>1, CoreStays
  <2>3. CASE readyQueue' = readyQueue \o ReadyAll(CompletedHandles) /\ pendingOps' = OpsLeft /\ completions' = <<>>
    <3>1. Holding'
      BY <2>1, <2>3, CompletedStep DEF Core
    <3>2. Numbered'
      BY <2>1, <2>3, DrainNumbered DEF Core
    <3>3. Owned' /\ Keyed' /\ OnOwnFd'
      BY <2>1, SameOwned, SameKeyed, SameOnOwnFd DEF Core
    <3> QED BY <3>1, <3>2, <3>3 DEF Core
  <2> QED BY <1>1, <2>2, <2>3 DEF TopOfLoop
<1>2. CASE Resume
  <2>1. Holding'
    BY <1>2, ResumeStep DEF Core
  <2>2. UNCHANGED suspendedTasks /\ UNCHANGED suspVars /\ UNCHANGED uringVars /\ UNCHANGED wakeVars /\ UNCHANGED ownVars
    BY <1>2 DEF Resume, suspVars
  <2>3. Owned' /\ Keyed' /\ OnOwnFd' /\ Numbered'
    BY <2>2, SameOwned, SameKeyed, SameOnOwnFd, SameNumbered DEF Core
  <2> QED BY <2>1, <2>3 DEF Core
<1>3. CASE EpollWait \/ EventsHandled \/ \E e \in events : ReadEventFd(e)
  <2>1. UNCHANGED <<current, readyQueue, poolResumeQueue, poolJobs>> /\ UNCHANGED suspVars /\ UNCHANGED uringVars
        /\ UNCHANGED wakeVars /\ UNCHANGED ownVars
    BY <1>3 DEF EpollWait, EventsHandled, ReadEventFd, postVars
  <2> QED BY <2>1, CoreStays
<1>4. ASSUME NEW e \in events, HandleEvent(e) PROVE Core'
  <2>1. /\ \/ e.fd \in DOMAIN suspendedTasks /\ WakeSuspended(e.fd, FALSE)
           \/ UNCHANGED <<readyQueue, suspendedTasks>>
        /\ taskDeadlines' \subseteq taskDeadlines /\ eventKeys' \subseteq eventKeys
        /\ UNCHANGED current /\ UNCHANGED postVars /\ UNCHANGED uringVars /\ UNCHANGED wakeVars /\ UNCHANGED ownVars
    BY <1>4 DEF HandleEvent, loopVars
  <2> QED BY <2>1, WakeCore
<1>5. CASE DrainPoolResumeQueue
  <2>1. Holding'
    BY <1>5, DrainStep DEF Core
  <2>2. UNCHANGED suspendedTasks /\ UNCHANGED suspVars /\ UNCHANGED uringVars /\ UNCHANGED wakeVars /\ UNCHANGED ownVars
    BY <1>5 DEF DrainPoolResumeQueue, suspVars
  <2>3. Owned' /\ Keyed' /\ OnOwnFd' /\ Numbered'
    BY <2>2, SameOwned, SameKeyed, SameOnOwnFd, SameNumbered DEF Core
  <2> QED BY <2>1, <2>3 DEF Core
<1>6. ASSUME NEW d \in taskDeadlines, SweepDeadline(d) PROVE Core'
  <2>1. /\ \/ d.fd \in DOMAIN suspendedTasks /\ WakeSuspended(d.fd, TRUE)
           \/ UNCHANGED <<readyQueue, suspendedTasks>>
        /\ taskDeadlines' \subseteq taskDeadlines /\ eventKeys' \subseteq eventKeys
        /\ UNCHANGED current /\ UNCHANGED postVars /\ UNCHANGED uringVars /\ UNCHANGED wakeVars /\ UNCHANGED ownVars
    BY <1>6 DEF SweepDeadline, IsSuspendedUnder, loopVars
  <2> QED BY <2>1, WakeCore
<1>7. CASE EndOfTurn
  <2>1. /\ PrepAndSubmit /\ WakeSlot(wakeUpQueue[wakeTime]) /\ wakeTime' = NextTurn /\ UNCHANGED wakeUpQueue
        /\ UNCHANGED <<poolResumeQueue, poolJobs, current, ownedTasks>> /\ UNCHANGED completions
        /\ UNCHANGED taskDeadlines /\ UNCHANGED eventKeys /\ UNCHANGED ownVars
    BY <1>7 DEF EndOfTurn, postVars, ownVars
  <2>2. Holding' /\ SuspendedOK'
    BY <2>1, TurnStep DEF Core
  <2>3. Numbered'
    BY <2>1, PrepIs, PrepNumbered DEF Core
  <2>4. SlotTypes'
    <3>1. wakeTime \in Nat /\ MaxWakeupTurn \in Nat \ {0}
      BY ExecutorAssumption DEF Core, Keyed, SlotTypes
    <3>2. wakeTime' \in 0..MaxWakeupTurn - 1
      BY <2>1, <3>1 DEF NextTurn
    <3> QED BY <2>1, <3>2 DEF Core, Keyed, SlotTypes
  <2>5. Owned' /\ DeadlineTypes' /\ EventTypes'
    BY <2>1, SameOwned, SameDeadlines, SameEvents DEF Core, Keyed
  <2> QED BY <2>2, <2>3, <2>4, <2>5 DEF Core, Keyed, SuspendedOK
<1> QED BY <1>1, <1>2, <1>3, <1>4, <1>5, <1>6, <1>7 DEF Loop

\* Time passes for the deadlines.
LEMMA TickDeadlines ==
  ASSUME DeadlineTypes, Tick
  PROVE  /\ DeadlineTypes'
         /\ \A d \in taskDeadlines' : \E c \in taskDeadlines :
              d.fd = c.fd /\ d.suspensionSeq = c.suspensionSeq /\ d.left = Less(c.left)
<1> DEFINE D == [left : Nat, fd : Int, suspensionSeq : Nat]
           L(d) == [d EXCEPT !.left = Less(@)]
           f == [d \in taskDeadlines |-> L(d)]
<1>1. taskDeadlines' = {L(d) : d \in taskDeadlines} /\ taskDeadlines \subseteq D /\ IsFiniteSet(taskDeadlines)
  BY DEF Tick, DeadlineTypes
<1>2. \A d \in D : L(d) \in D /\ L(d).fd = d.fd /\ L(d).suspensionSeq = d.suspensionSeq /\ L(d).left = Less(d.left)
  BY DEF Less
<1> HIDE DEF L, D
<1>3. f \in Surjection(taskDeadlines, taskDeadlines')
  BY <1>1 DEF Surjection
<1>4. IsFiniteSet(taskDeadlines')
  BY <1>1, <1>3, FS_Surjection
<1>5. taskDeadlines' \subseteq D
  BY <1>1, <1>2
<1>6. \A d \in taskDeadlines' : \E c \in taskDeadlines :
        d.fd = c.fd /\ d.suspensionSeq = c.suspensionSeq /\ d.left = Less(c.left)
  BY <1>1, <1>2
<1> QED BY <1>4, <1>5, <1>6 DEF DeadlineTypes, D

\* Pool threads, the kernel and time.
LEMMA EnvironmentCore == ASSUME Core, Environment PROVE Core'
<1>1. ASSUME NEW t \in Tasks, PostPush(t) PROVE Core'
  <2>1. Holding'
    BY <1>1, PushStep DEF Core
  <2>2. UNCHANGED suspendedTasks /\ UNCHANGED suspVars /\ UNCHANGED uringVars /\ UNCHANGED wakeVars /\ UNCHANGED ownVars
    BY <1>1 DEF PostPush, suspVars
  <2>3. Owned' /\ Keyed' /\ OnOwnFd' /\ Numbered'
    BY <2>2, SameOwned, SameKeyed, SameOnOwnFd, SameNumbered DEF Core
  <2> QED BY <2>1, <2>3 DEF Core
<1>2. ASSUME NEW t \in Tasks, PostSignal(t) PROVE Core'
  BY <1>2, CoreStays DEF PostSignal, loopVars
<1>3. ASSUME NEW fd, NEW what, SocketEvent(fd, what) PROVE Core'
  BY <1>3, CoreStays DEF SocketEvent, loopVars, postVars
<1>4. CASE PeerConnects \/ \E t \in Tasks : PeerSends(t) \/ PeerReads(t) \/ PeerHangsUp(t)
  BY <1>3, <1>4 DEF PeerConnects, PeerSends, PeerReads, PeerHangsUp
<1>5. ASSUME NEW u \in inflight, Complete(u) PROVE Core'
  <2>1. UNCHANGED <<current, readyQueue, poolResumeQueue, poolJobs, suspendedTasks, preps, pendingOps, ownedTasks>>
        /\ UNCHANGED suspVars /\ UNCHANGED wakeVars /\ UNCHANGED ownVars
    BY <1>5 DEF Complete, loopVars, postVars, suspVars, ownVars
  <2>2. Holding' /\ Numbered'
    BY <1>5, <2>1, StayStep, CompleteNumbered DEF Core
  <2>3. Owned' /\ Keyed' /\ OnOwnFd'
    BY <2>1, SameOwned, SameKeyed, SameOnOwnFd DEF Core
  <2> QED BY <2>2, <2>3 DEF Core
<1>6. CASE Tick
  <2>1. UNCHANGED <<current, readyQueue, poolResumeQueue, poolJobs, suspendedTasks, preps, pendingOps, ownedTasks>>
        /\ UNCHANGED eventKeys /\ UNCHANGED wakeVars /\ UNCHANGED ownVars /\ UNCHANGED uringVars
    BY <1>6 DEF Tick, loopVars, postVars, uringVars, ownVars
  <2>2. DeadlineTypes'
    BY <1>6, TickDeadlines DEF Core, Keyed
  <2>3. Holding' /\ SuspendedTypes' /\ OnOwnFd'
    BY <2>1, StayStep DEF Core, Keyed, SuspendedTypes, OnOwnFd
  <2>4. Owned' /\ EventTypes' /\ SlotTypes' /\ Numbered'
    BY <2>1, SameOwned, SameEvents, SameSlots, SameNumbered DEF Core, Keyed
  <2> QED BY <2>2, <2>3, <2>4 DEF Core, Keyed
<1>7. CASE SignalShutdown
  BY <1>7, CoreStays DEF SignalShutdown, loopVars, postVars
<1> QED BY <1>1, <1>2, <1>4, <1>5, <1>6, <1>7 DEF Environment

\* The accept loop is ready and alone.
LEMMA InitCore == ASSUME Init PROVE Core
<1>1. Root \in Tasks /\ Root # NullHandle /\ MaxWakeupTurn \in Nat \ {0}
  BY ExecutorAssumption
<1>2. Live = {Root} /\ ownedTasks = <<Root>> /\ DOMAIN ownedTasks = {1} /\ ownedTasks[1] = Root
  BY DEF Init, Live, Range
<1>3. DOMAIN ownedTaskMap = {Root} /\ ownedTaskMap[Root] = 0 /\ ownedTaskMap = [x \in {Root} |-> 0]
  BY DEF Init, With
<1>4. Owned
  BY <1>1, <1>2, <1>3 DEF Owned
<1>5. /\ DOMAIN preps = OpKinds /\ DOMAIN pendingOps = OpKinds
      /\ \A k \in OpKinds : preps[k] = <<>> /\ pendingOps[k] = <<>>
      /\ inflight = {} /\ completions = <<>>
  BY DEF Init
<1>6. DOMAIN <<>> = {} /\ IsFiniteSet({})
  BY FS_EmptySet
<1>7. OpTypes
  <2> DEFINE R == [userData : Nat, handle : Tasks]
  <2>1. preps \in [OpKinds -> Seq(R)]
    <3>1. <<>> \in Seq(R) /\ preps = [k \in OpKinds |-> <<>>]
      BY DEF Init
    <3> HIDE DEF R
    <3> QED BY <3>1
  <2>2. \A k \in OpKinds : DOMAIN pendingOps[k] = {} /\ pendingOps[k] \in [{} -> Tasks]
    <3>1. <<>> \in [{} -> Tasks] /\ DOMAIN <<>> = {}
      OBVIOUS
    <3> QED BY <1>5, <3>1
  <2> QED BY <1>5, <1>6, <2>1, <2>2 DEF OpTypes
<1>8. PrepsDiffer /\ PrepsAreNew /\ MapsDiffer
  BY <1>5, <1>6 DEF PrepsDiffer, PrepsAreNew, MapsDiffer
<1>9. Range(completions) = {}
  BY <1>5 DEF Range
<1>10. KernelsAreKnown /\ CompletedOnce
  BY <1>5, <1>9 DEF KernelsAreKnown, CompletedOnce
<1>11. Numbered
  BY <1>7, <1>8, <1>10 DEF Numbered
<1>12. SuspendedTypes
  BY <1>6 DEF Init, SuspendedTypes
<1>13. DeadlineTypes /\ EventTypes
  BY <1>6 DEF Init, DeadlineTypes, EventTypes
<1>14. SlotTypes
  <2>1. wakeUpQueue = [i \in 0..MaxWakeupTurn - 1 |-> <<>>] /\ wakeTime = 0
    BY DEF Init
  <2>2. 0 \in 0..MaxWakeupTurn - 1
    BY <1>1
  <2>3. <<>> \in Seq(Keys)
    OBVIOUS
  <2> QED BY <2>1, <2>2, <2>3 DEF SlotTypes
<1>15. Keyed
  BY <1>12, <1>13, <1>14 DEF Keyed
<1>16. DOMAIN suspendedTasks = {} /\ OnOwnFd /\ OnceSuspended /\ InSuspended = {}
  BY DEF Init, OnOwnFd, OnceSuspended, InSuspended
<1>17. OnceReady /\ InReady = {Root}
  <2> DEFINE r == Ready(Root, FALSE)
  <2>1. r \in [task : Tasks \cup {NullHandle}, timedOut : BOOLEAN] /\ r.task = Root
    BY <1>1 DEF Ready
  <2>2. readyQueue = <<r>>
    BY DEF Init
  <2> HIDE DEF r
  <2>3. readyQueue \in Seq([task : Tasks \cup {NullHandle}, timedOut : BOOLEAN])
        /\ DOMAIN readyQueue = {1} /\ readyQueue[1] = r
    BY <2>1, <2>2
  <2> QED BY <1>1, <2>1, <2>3 DEF OnceReady, InReady
<1>18. OncePreps /\ OnceOps /\ OncePosted
  BY <1>5, <1>6 DEF OncePreps, OnceOps, OncePosted, Init
<1>19. /\ InPreps("file") = {} /\ InPreps("splice") = {} /\ Range(pendingOps["file"]) = {}
       /\ Range(pendingOps["splice"]) = {} /\ Range(poolResumeQueue) = {} /\ poolJobs = {} /\ InCurrent = {}
       /\ current = <<>>
  BY <1>5 DEF InPreps, InCurrent, Range, OpKinds, Init
<1>20. Held["ready"] = {Root} /\ \A p \in Places : p # "ready" => Held[p] = {}
  BY <1>16, <1>17, <1>19, HeldIs DEF Places
<1>21. Apart(Held) /\ Total(Held) = {Root}
  BY <1>20 DEF Apart, Total, Places
<1>22. Holding
  BY <1>2, <1>16, <1>17, <1>18, <1>19, <1>21 DEF Holding, Once
<1> QED BY <1>4, <1>11, <1>15, <1>16, <1>22 DEF Core

\* Every step keeps the core of the invariant.
LEMMA CoreInvariant == Spec => []Core
<1>1. Init => Core
  BY InitCore
<1>2. Core /\ [Next]_vars => Core'
  <2> SUFFICES ASSUME Core, [Next]_vars PROVE Core'
    OBVIOUS
  <2>1. CASE UNCHANGED vars
    BY <2>1, CoreStays DEF vars, loopVars, postVars
  <2> QED BY <2>1, CoroutineCore, LoopCore, EnvironmentCore DEF Next
<1> QED BY <1>1, <1>2, PTL DEF Spec

\* A place that has t at most once has it once or not at all.
LEMMA OneOrNone ==
  ASSUME NEW S, \A x, y \in S : x = y
  PROVE  Cardinality(S) = IF S = {} THEN 0 ELSE 1
<1>1. CASE S = {}
  BY <1>1, FS_EmptySet
<1>2. CASE S # {}
  <2>1. PICK x \in S : TRUE
    BY <1>2
  <2>2. S = {x}
    BY <2>1
  <2>3. Cardinality({x}) = 1
    BY FS_Singleton
  <2> QED BY <1>2, <2>2, <2>3
<1> QED BY <1>1, <1>2

\* Apart places count as one in all.
LEMMA CountsOne ==
  ASSUME Core, NEW t \in Tasks PROVE HolderCount(t) = IF t \in Live THEN 1 ELSE 0
<1> DEFINE In(p) == IF t \in Held[p] THEN 1 ELSE 0
<1>1. Cardinality({i \in DOMAIN readyQueue : readyQueue[i].task = t}) = In("ready")
  <2> DEFINE S == {i \in DOMAIN readyQueue : readyQueue[i].task = t}
  <2>1. t # NullHandle
    BY ExecutorAssumption
  <2>2. \A x, y \in S : x = y
    BY <2>1 DEF Core, Holding, Once, OnceReady
  <2>3. S # {} <=> t \in InReady
    BY <2>1 DEF InReady
  <2> HIDE DEF S
  <2>4. Cardinality(S) = IF S = {} THEN 0 ELSE 1
    BY <2>2, OneOrNone
  <2> QED BY <2>3, <2>4, HeldIs DEF S
<1>2. Cardinality({k \in DOMAIN suspendedTasks : suspendedTasks[k].handle = t}) = In("suspended")
  <2> DEFINE S == {k \in DOMAIN suspendedTasks : suspendedTasks[k].handle = t}
  <2>2. \A x, y \in S : x = y
    BY DEF Core, Holding, Once, OnceSuspended
  <2>3. S # {} <=> t \in InSuspended
    BY DEF InSuspended
  <2> HIDE DEF S
  <2>4. Cardinality(S) = IF S = {} THEN 0 ELSE 1
    BY <2>2, OneOrNone
  <2> QED BY <2>3, <2>4, HeldIs DEF S
<1>3. ASSUME NEW kind \in OpKinds
      PROVE  Cardinality({i \in DOMAIN preps[kind] : preps[kind][i].handle = t}) = IF t \in InPreps(kind) THEN 1 ELSE 0
  <2> DEFINE S == {i \in DOMAIN preps[kind] : preps[kind][i].handle = t}
  <2>2. \A x, y \in S : x = y
    BY DEF Core, Holding, Once, OncePreps
  <2>3. S # {} <=> t \in InPreps(kind)
    BY DEF InPreps
  <2> HIDE DEF S
  <2>4. Cardinality(S) = IF S = {} THEN 0 ELSE 1
    BY <2>2, OneOrNone
  <2> QED BY <2>3, <2>4 DEF S
<1>4. ASSUME NEW kind \in OpKinds
      PROVE  Cardinality({u \in DOMAIN pendingOps[kind] : pendingOps[kind][u] = t})
               = IF t \in Range(pendingOps[kind]) THEN 1 ELSE 0
  <2> DEFINE S == {u \in DOMAIN pendingOps[kind] : pendingOps[kind][u] = t}
  <2>2. \A x, y \in S : x = y
    BY DEF Core, Holding, Once, OnceOps
  <2>3. S # {} <=> t \in Range(pendingOps[kind])
    BY DEF Range
  <2> HIDE DEF S
  <2>4. Cardinality(S) = IF S = {} THEN 0 ELSE 1
    BY <2>2, OneOrNone
  <2> QED BY <2>3, <2>4 DEF S
<1>5. Cardinality({i \in DOMAIN poolResumeQueue : poolResumeQueue[i] = t}) = In("posted")
  <2> DEFINE S == {i \in DOMAIN poolResumeQueue : poolResumeQueue[i] = t}
  <2>2. \A x, y \in S : x = y
    BY DEF Core, Holding, Once, OncePosted
  <2>3. S # {} <=> t \in Range(poolResumeQueue)
    BY DEF Range
  <2> HIDE DEF S
  <2>4. Cardinality(S) = IF S = {} THEN 0 ELSE 1
    BY <2>2, OneOrNone
  <2> QED BY <2>3, <2>4, HeldIs DEF S
<1>6. Cardinality(poolJobs \cap {t}) = In("job")
  <2> DEFINE S == poolJobs \cap {t}
  <2>1. Cardinality(S) = IF S = {} THEN 0 ELSE 1
    BY OneOrNone
  <2> QED BY <2>1, HeldIs
<1>7. Cardinality({c \in {t} : current = <<c>>}) = In("current")
  <2> DEFINE S == {c \in {t} : current = <<c>>}
  <2>1. \A x, y \in S : x = y
    OBVIOUS
  <2>2. S # {} <=> t \in InCurrent
    BY DEF InCurrent
  <2> HIDE DEF S
  <2>3. Cardinality(S) = IF S = {} THEN 0 ELSE 1
    BY <2>1, OneOrNone
  <2> QED BY <2>2, <2>3, HeldIs DEF S
<1>8. /\ Cardinality({i \in DOMAIN preps["file"] : preps["file"][i].handle = t}) = In("filePrep")
      /\ Cardinality({i \in DOMAIN preps["splice"] : preps["splice"][i].handle = t}) = In("splicePrep")
      /\ Cardinality({u \in DOMAIN pendingOps["file"] : pendingOps["file"][u] = t}) = In("fileOp")
      /\ Cardinality({u \in DOMAIN pendingOps["splice"] : pendingOps["splice"][u] = t}) = In("spliceOp")
  BY <1>3, <1>4, HeldIs DEF OpKinds
<1>9. HolderCount(t) = In("ready") + In("suspended") + In("filePrep") + In("splicePrep") + In("fileOp")
                       + In("spliceOp") + In("posted") + In("job") + In("current")
  BY <1>1, <1>2, <1>5, <1>6, <1>7, <1>8 DEF HolderCount
<1>10. CASE t \notin Live
  <2>1. \A p \in Places : In(p) = 0
    BY <1>10 DEF Core, Holding, Total
  <2> HIDE DEF In
  <2> QED BY <1>9, <1>10, <2>1 DEF Places
<1>11. CASE t \in Live
  <2>1. PICK p \in Places : t \in Held[p]
    BY <1>11 DEF Core, Holding, Total
  <2>2. In(p) = 1 /\ \A q \in Places : q # p => In(q) = 0
    BY <2>1 DEF Core, Holding, Apart
  <2> HIDE DEF In
  <2> QED BY <1>9, <1>11, <2>1, <2>2 DEF Places
<1> QED BY <1>10, <1>11

\* Whatever order events, deadlines, fired events, completions and posts arrive
\* in, exactly one place holds the handle of a live coroutine and none that of
\* a destroyed one (run(), post(), drainCompletions() and the awaitables).
THEOREM OneHolderAlways == Spec => []OneHolder
<1>1. Core => OneHolder
  BY CountsOne DEF OneHolder
<1> QED BY <1>1, CoreInvariant, PTL

-----------------------------------------------------------------------------
(* Timeouts *)

\* What an awaitable says.
Awaiting == [op : AllOps \cup {"none"}, left : Nat]

\* A deadline of the present suspension is the one its coroutine waits for.
Deadlines ==
  /\ awaiting \in [Tasks -> Awaiting]
  /\ \A k \in DOMAIN suspendedTasks : \A d \in taskDeadlines :
       d.fd = k /\ d.suspensionSeq = suspendedTasks[k].suspensionSeq =>
         /\ awaiting[suspendedTasks[k].handle].op \in {"read", "write", "event"}
         /\ awaiting[suspendedTasks[k].handle].left = d.left

\* Only coroutines time out.
TimedOutAreTasks == \A i \in DOMAIN readyQueue : readyQueue[i].timedOut => readyQueue[i].task \in Tasks

\* The invariant of timeouts.
Timely == Deadlines /\ TimedOutAreTasks /\ TimeoutIsGenuine

\* Erasing entries.
LEMMA Shrinking ==
  ASSUME \/ UNCHANGED suspendedTasks
         \/ \E key : suspendedTasks' = Without(suspendedTasks, key)
         \/ \E slot : suspendedTasks' = StillSuspended(slot)
  PROVE  Shrinks
  BY DEF Shrinks, Without, StillSuspended, Restrict

\* An entry more in the ready queue.
LEMMA Appending ==
  ASSUME Holding, NEW h \in Tasks, NEW b \in BOOLEAN, readyQueue' = Append(readyQueue, Ready(h, b))
  PROVE  \A i \in DOMAIN readyQueue' :
           \/ i \in DOMAIN readyQueue /\ readyQueue'[i] = readyQueue[i]
           \/ readyQueue'[i].task = h /\ readyQueue'[i].timedOut = b
<1> DEFINE r == Ready(h, b)
<1>1. r \in ReadyEntry /\ r.task = h /\ r.timedOut = b
  BY DEF Ready, ReadyEntry
<1>2. readyQueue \in Seq(ReadyEntry) /\ readyQueue' = Append(readyQueue, r)
  BY DEF Holding, Once, OnceReady, ReadyEntry
<1> HIDE DEF r
<1>3. /\ DOMAIN readyQueue' = DOMAIN readyQueue \cup {Len(readyQueue) + 1}
      /\ \A i \in DOMAIN readyQueue : readyQueue'[i] = readyQueue[i]
      /\ readyQueue'[Len(readyQueue) + 1] = r
  BY <1>1, <1>2, AppendIs
<1> QED BY <1>1, <1>3

\* A coroutine that is woken has not timed out.
LEMMA WakeIsCalm ==
  ASSUME Keyed, Holding, NEW key,
         \/ key \in DOMAIN suspendedTasks /\ WakeSuspended(key, FALSE)
         \/ UNCHANGED <<readyQueue, suspendedTasks>>
  PROVE  Shrinks /\ NoNewTimeout
<1>1. Shrinks
  BY Shrinking DEF WakeSuspended
<1>2. CASE key \in DOMAIN suspendedTasks /\ WakeSuspended(key, FALSE)
  <2>1. suspendedTasks[key].handle \in Tasks
    BY <1>2 DEF Keyed, SuspendedTypes, Suspended
  <2>2. NoNewTimeout
    BY <1>2, <2>1, Appending DEF WakeSuspended, NoNewTimeout
  <2> QED BY <1>1, <2>2
<1>3. CASE UNCHANGED <<readyQueue, suspendedTasks>>
  BY <1>1, <1>3 DEF NoNewTimeout
<1> QED BY <1>2, <1>3

\* Suspensions end, nobody times out.
LEMMA CalmTimely ==
  ASSUME Timely, UNCHANGED awaiting, taskDeadlines' \subseteq taskDeadlines, Shrinks, NoNewTimeout
  PROVE  Timely'
<1>1. Deadlines'
  BY DEF Timely, Deadlines, Shrinks
<1>2. TimedOutAreTasks'
  BY DEF Timely, TimedOutAreTasks, NoNewTimeout
<1>3. TimeoutIsGenuine'
  BY DEF Timely, TimeoutIsGenuine, NoNewTimeout
<1> QED BY <1>1, <1>2, <1>3 DEF Timely

\* The running coroutine leaves for something else than a suspension.
LEMMA LeaveTimely ==
  ASSUME Core, Timely, NEW t \in Tasks, current = <<t>>, NEW r \in Awaiting,
         awaiting' = [awaiting EXCEPT ![t] = r], taskDeadlines' \subseteq taskDeadlines, Shrinks, UNCHANGED readyQueue
  PROVE  Timely'
<1>1. t \notin InReady /\ t \notin InSuspended /\ t # NullHandle
  BY CurrentOnly, ExecutorAssumption DEF Core
<1>2. awaiting' \in [Tasks -> Awaiting] /\ \A s \in Tasks : s # t => awaiting'[s] = awaiting[s]
  BY DEF Timely, Deadlines
<1>3. Deadlines'
  <2>1. \A k \in DOMAIN suspendedTasks : suspendedTasks[k].handle \in Tasks /\ suspendedTasks[k].handle # t
    BY <1>1 DEF InSuspended, Core, Keyed, SuspendedTypes, Suspended
  <2> QED BY <1>2, <2>1 DEF Timely, Deadlines, Shrinks
<1>4. TimedOutAreTasks'
  BY DEF Timely, TimedOutAreTasks
<1>5. TimeoutIsGenuine'
  <2>1. \A i \in DOMAIN readyQueue : readyQueue[i].task # t
    BY <1>1 DEF InReady
  <2>2. \A i \in DOMAIN readyQueue : readyQueue[i].timedOut => readyQueue[i].task \in Tasks
    BY DEF Timely, TimedOutAreTasks
  <2> QED BY <1>2, <2>1, <2>2 DEF Timely, TimeoutIsGenuine
<1> QED BY <1>3, <1>4, <1>5 DEF Timely

\* A suspension with the deadline that is set for it, or with none.
LEMMA SuspendTimely ==
  ASSUME Core, Timely, NEW t \in Tasks, current = <<t>>, NEW key, key \notin DOMAIN suspendedTasks,
         NEW write \in BOOLEAN, SuspendOn(key, t, write), NEW timeout \in Nat, NEW op \in AllOps,
         awaiting' = [awaiting EXCEPT ![t] = [op |-> op, left |-> timeout]], UNCHANGED readyQueue,
         \/ SetDeadline(key, timeout) /\ op \in {"read", "write", "event"}
         \/ UNCHANGED taskDeadlines
  PROVE  Timely'
<1>1. t \notin InReady /\ t \notin InSuspended /\ t # NullHandle
  BY CurrentOnly, ExecutorAssumption DEF Core
<1> DEFINE r == [op |-> op, left |-> timeout]
           s == [handle |-> t, waitingForWrite |-> write, suspensionSeq |-> FreshSeq]
           n == [left |-> timeout, fd |-> key, suspensionSeq |-> FreshSeq]
<1>2. r \in Awaiting /\ r.op = op /\ r.left = timeout
      /\ s.handle = t /\ s.suspensionSeq = FreshSeq /\ n.left = timeout /\ n.suspensionSeq = FreshSeq
  BY DEF Awaiting
<1>3. /\ awaiting' = [awaiting EXCEPT ![t] = r] /\ suspendedTasks' = With(suspendedTasks, key, s)
      /\ \/ taskDeadlines' = taskDeadlines \cup {n} /\ op \in {"read", "write", "event"}
         \/ UNCHANGED taskDeadlines
  BY DEF SuspendOn, SetDeadline
<1> HIDE DEF r, s, n
<1>4. /\ awaiting' \in [Tasks -> Awaiting] /\ awaiting'[t] = r
      /\ \A x \in Tasks : x # t => awaiting'[x] = awaiting[x]
  BY <1>2, <1>3 DEF Timely, Deadlines
<1>5. /\ DOMAIN suspendedTasks' = DOMAIN suspendedTasks \cup {key} /\ suspendedTasks'[key] = s
      /\ \A k \in DOMAIN suspendedTasks : suspendedTasks'[k] = suspendedTasks[k]
  BY <1>3 DEF With
<1>6. /\ \A d \in taskDeadlines : d.suspensionSeq # FreshSeq
      /\ \A k \in DOMAIN suspendedTasks : suspendedTasks[k].suspensionSeq # FreshSeq
  BY FreshSeqIsFresh DEF Core
<1>7. \A k \in DOMAIN suspendedTasks : suspendedTasks[k].handle \in Tasks /\ suspendedTasks[k].handle # t
  BY <1>1 DEF InSuspended, Core, Keyed, SuspendedTypes, Suspended
<1>8. ASSUME NEW k \in DOMAIN suspendedTasks', NEW d \in taskDeadlines',
             d.fd = k, d.suspensionSeq = suspendedTasks'[k].suspensionSeq
      PROVE  /\ awaiting'[suspendedTasks'[k].handle].op \in {"read", "write", "event"}
             /\ awaiting'[suspendedTasks'[k].handle].left = d.left
  <2>1. CASE k = key
    <3>1. d.suspensionSeq = FreshSeq /\ suspendedTasks'[k].handle = t
      BY <1>2, <1>5, <1>8, <2>1
    <3>2. d = n /\ op \in {"read", "write", "event"}
      BY <1>3, <1>6, <1>8, <3>1
    <3> QED BY <1>2, <1>4, <3>1, <3>2
  <2>2. CASE k # key
    <3>1. k \in DOMAIN suspendedTasks /\ suspendedTasks'[k] = suspendedTasks[k]
      BY <1>5, <1>8, <2>2
    <3>2. d.suspensionSeq # FreshSeq
      BY <1>6, <1>8, <3>1
    <3>3. d \in taskDeadlines
      BY <1>2, <1>3, <1>8, <3>2
    <3>4. awaiting'[suspendedTasks[k].handle] = awaiting[suspendedTasks[k].handle]
      BY <1>4, <1>7, <3>1
    <3> QED BY <1>8, <3>1, <3>3, <3>4 DEF Timely, Deadlines
  <2> QED BY <2>1, <2>2
<1>9. Deadlines'
  BY <1>4, <1>8 DEF Deadlines
<1>10. TimedOutAreTasks'
  BY DEF Timely, TimedOutAreTasks
<1>11. TimeoutIsGenuine'
  <2>1. \A i \in DOMAIN readyQueue : readyQueue[i].task # t
    BY <1>1 DEF InReady
  <2>2. \A i \in DOMAIN readyQueue : readyQueue[i].timedOut => readyQueue[i].task \in Tasks
    BY DEF Timely, TimedOutAreTasks
  <2> QED BY <1>4, <2>1, <2>2 DEF Timely, TimeoutIsGenuine
<1> QED BY <1>9, <1>10, <1>11 DEF Timely

\* A deadline wakes the suspension it was set for.
LEMMA SweepTimely ==
  ASSUME Core, Timely, NEW d \in taskDeadlines, SweepDeadline(d) PROVE Timely'
<1>1. d.left = 0 /\ taskDeadlines' \subseteq taskDeadlines /\ UNCHANGED awaiting
  BY DEF SweepDeadline
<1>2. Shrinks
  BY Shrinking DEF SweepDeadline, WakeSuspended
<1>3. CASE ~IsSuspendedUnder(d)
  <2>1. NoNewTimeout
    BY <1>3 DEF SweepDeadline, NoNewTimeout
  <2> QED BY <1>1, <1>2, <2>1, CalmTimely
<1>4. CASE IsSuspendedUnder(d)
  <2> DEFINE h == suspendedTasks[d.fd].handle
  <2>1. d.fd \in DOMAIN suspendedTasks /\ d.suspensionSeq = suspendedTasks[d.fd].suspensionSeq
    BY <1>4 DEF IsSuspendedUnder
  <2>2. h \in Tasks /\ readyQueue' = Append(readyQueue, Ready(h, TRUE))
    BY <1>4, <2>1 DEF SweepDeadline, WakeSuspended, Core, Keyed, SuspendedTypes, Suspended
  <2>3. awaiting[h].op \in {"read", "write", "event"} /\ awaiting[h].left = 0
    BY <1>1, <2>1 DEF Timely, Deadlines
  <2> HIDE DEF h
  <2>4. \A i \in DOMAIN readyQueue' :
           \/ i \in DOMAIN readyQueue /\ readyQueue'[i] = readyQueue[i]
           \/ readyQueue'[i].task = h
    BY <2>2, Appending DEF Core
  <2>5. Deadlines'
    BY <1>1, <1>2 DEF Timely, Deadlines, Shrinks
  <2>6. TimedOutAreTasks'
    BY <2>2, <2>4 DEF Timely, TimedOutAreTasks
  <2>7. TimeoutIsGenuine'
    BY <1>1, <2>3, <2>4 DEF Timely, TimeoutIsGenuine
  <2> QED BY <2>5, <2>6, <2>7 DEF Timely
<1> QED BY <1>3, <1>4

\* The head of the ready queue is resumed.
LEMMA ResumeTimely == ASSUME Core, Timely, Resume PROVE Timely'
<1> DEFINE h == Head(readyQueue).task
<1>1. /\ \A i \in DOMAIN readyQueue' : \E j \in DOMAIN readyQueue : readyQueue'[i] = readyQueue[j]
      /\ h \notin InReady' /\ (h # NullHandle => h \in InReady /\ h \in Tasks)
  BY ResumeStep DEF Core
<1>2. UNCHANGED <<suspendedTasks, taskDeadlines>>
  BY DEF Resume, suspVars
<1>3. awaiting' = IF h = NullHandle THEN awaiting ELSE [awaiting EXCEPT ![h] = NotAwaiting]
  BY DEF Resume
<1>4. NotAwaiting \in Awaiting
  BY DEF NotAwaiting, Awaiting
<1> HIDE DEF h
<1>5. /\ awaiting' \in [Tasks -> Awaiting]
      /\ \A x \in Tasks : x # h => awaiting'[x] = awaiting[x]
  BY <1>1, <1>3, <1>4 DEF Timely, Deadlines
<1>6. \A k \in DOMAIN suspendedTasks : suspendedTasks[k].handle \in Tasks /\ suspendedTasks[k].handle # h
  <2>1. \A k \in DOMAIN suspendedTasks : suspendedTasks[k].handle \in Tasks /\ suspendedTasks[k].handle \in InSuspended
    BY DEF InSuspended, Core, Keyed, SuspendedTypes, Suspended
  <2>2. InReady \cap InSuspended = {}
    BY HeldIs DEF Core, Holding, Apart, Places
  <2>3. NullHandle \notin Tasks
    BY ExecutorAssumption
  <2> QED BY <1>1, <2>1, <2>2, <2>3
<1>7. Deadlines'
  BY <1>2, <1>5, <1>6 DEF Timely, Deadlines
<1>8. TimedOutAreTasks'
  BY <1>1 DEF Timely, TimedOutAreTasks
<1>9. ASSUME NEW i \in DOMAIN readyQueue', readyQueue'[i].timedOut
      PROVE  awaiting'[readyQueue'[i].task].op \in {"read", "write", "event"} /\ awaiting'[readyQueue'[i].task].left = 0
  <2>1. PICK j \in DOMAIN readyQueue : readyQueue'[i] = readyQueue[j]
    BY <1>1
  <2>2. readyQueue[j].task \in Tasks /\ readyQueue[j].task # NullHandle
    BY <1>9, <2>1, ExecutorAssumption DEF Timely, TimedOutAreTasks
  <2>3. readyQueue[j].task \in InReady'
    BY <2>1, <2>2 DEF InReady
  <2>4. awaiting'[readyQueue[j].task] = awaiting[readyQueue[j].task]
    BY <1>1, <1>5, <2>2, <2>3
  <2> QED BY <1>9, <2>1, <2>4 DEF Timely, TimeoutIsGenuine
<1>10. TimeoutIsGenuine'
  BY <1>9 DEF TimeoutIsGenuine
<1> QED BY <1>7, <1>8, <1>10 DEF Timely

\* Time passes alike for deadlines and for those who wait.
LEMMA TickTimely == ASSUME Core, Timely, Tick PROVE Timely'
<1>1. UNCHANGED <<readyQueue, suspendedTasks>>
  BY DEF Tick
<1>2. \A d \in taskDeadlines' : \E c \in taskDeadlines :
        d.fd = c.fd /\ d.suspensionSeq = c.suspensionSeq /\ d.left = Less(c.left)
  BY TickDeadlines DEF Core, Keyed
<1>3. /\ awaiting' \in [Tasks -> Awaiting]
      /\ \A t \in Tasks : awaiting'[t].op = awaiting[t].op /\ awaiting'[t].left = Less(awaiting[t].left)
  <2>1. awaiting \in [Tasks -> Awaiting]
    BY DEF Timely, Deadlines
  <2>2. awaiting' = [t \in Tasks |-> [awaiting[t] EXCEPT !.left = Less(@)]]
    BY DEF Tick
  <2>3. \A r \in Awaiting :
          /\ [r EXCEPT !.left = Less(@)] \in Awaiting
          /\ [r EXCEPT !.left = Less(@)].op = r.op /\ [r EXCEPT !.left = Less(@)].left = Less(r.left)
    BY DEF Less, Awaiting
  <2> QED BY <2>1, <2>2, <2>3
<1>4. \A k \in DOMAIN suspendedTasks : suspendedTasks[k].handle \in Tasks
  BY DEF Core, Keyed, SuspendedTypes, Suspended
<1>5. Deadlines'
  <2> SUFFICES ASSUME NEW k \in DOMAIN suspendedTasks, NEW d \in taskDeadlines',
                      d.fd = k, d.suspensionSeq = suspendedTasks[k].suspensionSeq
               PROVE  /\ awaiting'[suspendedTasks[k].handle].op \in {"read", "write", "event"}
                      /\ awaiting'[suspendedTasks[k].handle].left = d.left
    BY <1>1, <1>3 DEF Deadlines
  <2>1. PICK c \in taskDeadlines : d.fd = c.fd /\ d.suspensionSeq = c.suspensionSeq /\ d.left = Less(c.left)
    BY <1>2
  <2>2. /\ awaiting[suspendedTasks[k].handle].op \in {"read", "write", "event"}
        /\ awaiting[suspendedTasks[k].handle].left = c.left
    BY <2>1 DEF Timely, Deadlines
  <2> QED BY <1>3, <1>4, <2>1, <2>2
<1>6. TimedOutAreTasks'
  BY <1>1 DEF Timely, TimedOutAreTasks
<1>7. TimeoutIsGenuine'
  <2>1. Less(0) = 0
    BY DEF Less
  <2> QED BY <1>1, <1>3, <2>1 DEF Timely, TimedOutAreTasks, TimeoutIsGenuine
<1> QED BY <1>5, <1>6, <1>7 DEF Timely

\* File operations and splices are among the suspensions.
LEMMA OpsAreOps == \A kind \in OpKinds : kind \in AllOps
  BY DEF OpKinds, AllOps

\* A wait for the coroutine's own socket.
LEMMA WaitTimely ==
  ASSUME Core, Timely, NEW t \in Tasks, current = <<t>>, NEW timeout \in Timeouts, UNCHANGED readyQueue,
         WaitForRead(t, timeout) \/ WaitForWrite(t, timeout)
  PROVE  Timely'
<1>1. FdOf[t] \notin DOMAIN suspendedTasks
  BY CurrentOnly, NothingOnFd DEF Core
<1>2. timeout \in Nat /\ "read" \in AllOps /\ "write" \in AllOps
  BY ExecutorAssumption DEF AllOps
<1>3. CASE WaitForRead(t, timeout)
  <2>1. /\ SuspendOn(FdOf[t], t, FALSE) /\ SetDeadline(FdOf[t], timeout)
        /\ awaiting' = [awaiting EXCEPT ![t] = [op |-> "read", left |-> timeout]]
    BY <1>3 DEF WaitForRead, Leave
  <2> QED BY <1>1, <1>2, <2>1, SuspendTimely
<1>4. CASE WaitForWrite(t, timeout)
  <2>1. /\ SuspendOn(FdOf[t], t, TRUE) /\ SetDeadline(FdOf[t], timeout)
        /\ awaiting' = [awaiting EXCEPT ![t] = [op |-> "write", left |-> timeout]]
    BY <1>4 DEF WaitForWrite, Leave
  <2> QED BY <1>1, <1>2, <2>1, SuspendTimely
<1> QED BY <1>3, <1>4

\* What coroutines do.
LEMMA CoroutineTimely == ASSUME Core, Timely, Coroutine PROVE Timely'
<1>1. ASSUME NEW timeout \in Timeouts, AcceptLoopStart(timeout) \/ AcceptLoopWait(timeout) PROVE Timely'
  <2>1. Root \in Tasks /\ current = <<Root>> /\ WaitForRead(Root, timeout) /\ UNCHANGED readyQueue
    BY <1>1, ExecutorAssumption DEF AcceptLoopStart, AcceptLoopWait, Running
  <2> QED BY <2>1, WaitTimely
<1>2. ASSUME NEW c \in Tasks, Accept(c) PROVE Timely'
  <2>1. readyQueue' = Append(readyQueue, Ready(c, FALSE)) /\ UNCHANGED <<awaiting, suspendedTasks, taskDeadlines>>
    BY <1>2 DEF Accept, SpawnTask, suspVars
  <2>2. Shrinks /\ NoNewTimeout
    BY <2>1, Appending, Shrinking DEF Core, NoNewTimeout
  <2> QED BY <2>1, <2>2, CalmTimely
<1>3. ASSUME NEW t \in Tasks, current = <<t>>, Finish(t), UNCHANGED <<readyQueue, taskDeadlines>>, Shrinks
      PROVE  Timely'
  <2>1. NotAwaiting \in Awaiting /\ awaiting' = [awaiting EXCEPT ![t] = NotAwaiting]
    BY <1>3 DEF Finish, NotAwaiting, Awaiting
  <2> QED BY <1>3, <2>1, LeaveTimely
<1>4. CASE AcceptLoopReturns
  <2>1. Root \in Tasks /\ current = <<Root>> /\ Finish(Root) /\ UNCHANGED <<readyQueue, taskDeadlines, suspendedTasks>>
    BY <1>4, ExecutorAssumption DEF AcceptLoopReturns, Running, suspVars
  <2> QED BY <2>1, <1>3, Shrinking
<1>5. ASSUME NEW t \in Tasks, ConnectionReturns(t) \/ ConnectionThrows(t) PROVE Timely'
  <2>1. current = <<t>> /\ Finish(t) /\ UNCHANGED <<readyQueue, taskDeadlines>>
    BY <1>5 DEF ConnectionReturns, ConnectionThrows, Running, suspVars
  <2>2. suspendedTasks' = suspendedTasks \/ suspendedTasks' = Without(suspendedTasks, FdOf[t])
    BY <1>5 DEF ConnectionReturns, ConnectionThrows, Unregister, suspVars
  <2>3. Shrinks
    BY <2>2, Shrinking
  <2> QED BY <2>1, <2>3, <1>3
<1>6. ASSUME NEW t \in Tasks, RegisterReadFd(t) PROVE Timely'
  <2>1. UNCHANGED <<awaiting, readyQueue, suspendedTasks, taskDeadlines>>
    BY <1>6 DEF RegisterReadFd, suspVars
  <2> QED BY <2>1, CalmTimely, Shrinking DEF NoNewTimeout
<1>7. ASSUME NEW t \in Tasks, NEW timeout \in Timeouts, ReadOrSuspend(t, timeout) \/ WriteOrSuspend(t, timeout) PROVE Timely'
  <2>1. current = <<t>> /\ UNCHANGED readyQueue
    BY <1>7 DEF ReadOrSuspend, WriteOrSuspend, Running
  <2>2. \/ UNCHANGED awaiting /\ UNCHANGED suspVars
        \/ WaitForRead(t, timeout) \/ WaitForWrite(t, timeout)
    BY <1>7 DEF ReadOrSuspend, WriteOrSuspend
  <2>3. CASE UNCHANGED awaiting /\ UNCHANGED suspVars
    <3>1. UNCHANGED <<suspendedTasks, taskDeadlines>>
      BY <2>3 DEF suspVars
    <3> QED BY <2>1, <2>3, <3>1, CalmTimely, Shrinking DEF NoNewTimeout
  <2> QED BY <2>1, <2>2, <2>3, WaitTimely
<1>8. ASSUME NEW t \in Tasks, NEW timeout \in Timeouts, WaitForEvent(t, timeout) PROVE Timely'
  <2>1. /\ SuspendOn(FreshKey, t, FALSE) /\ SetDeadline(FreshKey, timeout) /\ current = <<t>> /\ UNCHANGED readyQueue
        /\ awaiting' = [awaiting EXCEPT ![t] = [op |-> "event", left |-> timeout]]
    BY <1>8 DEF WaitForEvent, Leave, Running
  <2>2. FreshKey \notin DOMAIN suspendedTasks
    BY FreshKeyIsFresh DEF Core
  <2>3. timeout \in Nat /\ "event" \in AllOps
    BY ExecutorAssumption DEF AllOps
  <2> QED BY <2>1, <2>2, <2>3, SuspendTimely
<1>9. ASSUME NEW t \in Tasks, NEW key \in eventKeys, FireEvent(t, key) PROVE Timely'
  <2>1. /\ \/ key \in DOMAIN suspendedTasks /\ WakeSuspended(key, FALSE)
           \/ UNCHANGED <<readyQueue, suspendedTasks>>
        /\ UNCHANGED <<taskDeadlines, awaiting>>
    BY <1>9 DEF FireEvent
  <2>2. Shrinks /\ NoNewTimeout
    BY <2>1, WakeIsCalm DEF Core
  <2> QED BY <2>1, <2>2, CalmTimely
<1>10. ASSUME NEW t \in Tasks, NEW cycles \in Cycles, WakeMeIn(t, cycles) PROVE Timely'
  <2>1. /\ SuspendOn(FreshKey, t, FALSE) /\ UNCHANGED taskDeadlines /\ current = <<t>> /\ UNCHANGED readyQueue
        /\ awaiting' = [awaiting EXCEPT ![t] = [op |-> "wakein", left |-> 0]]
    BY <1>10 DEF WakeMeIn, Leave, Running
  <2>2. FreshKey \notin DOMAIN suspendedTasks
    BY FreshKeyIsFresh DEF Core
  <2>3. 0 \in Nat /\ "wakein" \in AllOps
    BY DEF AllOps
  <2> QED BY <2>1, <2>2, <2>3, SuspendTimely
<1>11. ASSUME NEW t \in Tasks, current = <<t>>, NEW op \in AllOps, Leave(t, op, 0),
              UNCHANGED readyQueue, UNCHANGED suspVars
       PROVE  Timely'
  <2> DEFINE r == [op |-> op, left |-> 0]
  <2>1. r \in Awaiting /\ awaiting' = [awaiting EXCEPT ![t] = r] /\ UNCHANGED <<suspendedTasks, taskDeadlines>>
    BY <1>11 DEF Leave, Awaiting, suspVars
  <2> HIDE DEF r
  <2> QED BY <1>11, <2>1, LeaveTimely, Shrinking
<1>12. ASSUME NEW t \in Tasks, NEW kind \in OpKinds, SubmitOp(t, kind) PROVE Timely'
  BY <1>11, <1>12, OpsAreOps DEF SubmitOp, Running
<1>13. ASSUME NEW t \in Tasks, AwaitPoolJob(t) PROVE Timely'
  <2>1. "pool" \in AllOps
    BY DEF AllOps
  <2> QED BY <1>11, <1>13, <2>1 DEF AwaitPoolJob, Running
<1>14. CASE AcceptLoop
  BY <1>14, <1>1, <1>2, <1>4 DEF AcceptLoop
<1>15. ASSUME NEW t \in Tasks, Connection(t) PROVE Timely'
  BY <1>15, <1>5, <1>6, <1>7, <1>8, <1>9, <1>10, <1>12, <1>13 DEF Connection
<1> QED BY <1>14, <1>15 DEF Coroutine

\* The turn of the loop.
LEMMA LoopTimely == ASSUME Core, Timely, Loop PROVE Timely'
<1>1. CASE TopOfLoop
  <2>1. UNCHANGED <<suspendedTasks, taskDeadlines, awaiting>>
    BY <1>1 DEF TopOfLoop, suspVars
  <2>2. NoNewTimeout
    <3>1. CASE UNCHANGED readyQueue
      BY <3>1 DEF NoNewTimeout
    <3>2. CASE readyQueue' = readyQueue \o ReadyAll(CompletedHandles) /\ pendingOps' = OpsLeft
      <4>1. UNCHANGED <<suspendedTasks, preps, poolResumeQueue, poolJobs, current, ownedTasks>>
        BY <1>1 DEF TopOfLoop, suspVars, postVars, ownVars
      <4> QED BY <3>2, <4>1, CompletedStep DEF Core, NoNewTimeout
    <3> QED BY <1>1, <3>1, <3>2 DEF TopOfLoop
  <2> QED BY <2>1, <2>2, CalmTimely, Shrinking
<1>2. CASE EpollWait \/ EventsHandled \/ \E e \in events : ReadEventFd(e)
  <2>1. UNCHANGED <<suspendedTasks, taskDeadlines, awaiting, readyQueue>>
    BY <1>2 DEF EpollWait, EventsHandled, ReadEventFd, suspVars
  <2> QED BY <2>1, CalmTimely, Shrinking DEF NoNewTimeout
<1>3. ASSUME NEW e \in events, HandleEvent(e) PROVE Timely'
  <2>1. /\ \/ e.fd \in DOMAIN suspendedTasks /\ WakeSuspended(e.fd, FALSE)
           \/ UNCHANGED <<readyQueue, suspendedTasks>>
        /\ UNCHANGED <<taskDeadlines, awaiting>>
    BY <1>3 DEF HandleEvent
  <2>2. Shrinks /\ NoNewTimeout
    BY <2>1, WakeIsCalm DEF Core
  <2> QED BY <2>1, <2>2, CalmTimely
<1>4. CASE DrainPoolResumeQueue
  <2>1. UNCHANGED <<suspendedTasks, taskDeadlines, awaiting>>
    BY <1>4 DEF DrainPoolResumeQueue, suspVars
  <2>2. NoNewTimeout
    BY <1>4, DrainStep DEF Core, NoNewTimeout
  <2> QED BY <2>1, <2>2, CalmTimely, Shrinking
<1>5. CASE EndOfTurn
  <2>1. UNCHANGED <<taskDeadlines, awaiting>> /\ PrepAndSubmit /\ WakeSlot(wakeUpQueue[wakeTime])
        /\ UNCHANGED <<poolResumeQueue, poolJobs, current, ownedTasks>>
    BY <1>5 DEF EndOfTurn, postVars, ownVars
  <2>2. Shrinks /\ NoNewTimeout
    BY <2>1, TurnStep DEF Core, Shrinks, NoNewTimeout
  <2> QED BY <2>1, <2>2, CalmTimely
<1> QED BY <1>1, <1>2, <1>3, <1>4, <1>5, ResumeTimely, SweepTimely DEF Loop

\* Pool threads, the kernel and time.
LEMMA EnvironmentTimely == ASSUME Core, Timely, Environment PROVE Timely'
<1>1. ASSUME UNCHANGED <<suspendedTasks, taskDeadlines, awaiting, readyQueue>> PROVE Timely'
  BY <1>1, CalmTimely, Shrinking DEF NoNewTimeout
<1>2. ASSUME NEW t \in Tasks, PostPush(t) \/ PostSignal(t) PROVE Timely'
  BY <1>1, <1>2 DEF PostPush, PostSignal, suspVars
<1>3. ASSUME NEW fd, NEW what, SocketEvent(fd, what) PROVE Timely'
  BY <1>1, <1>3 DEF SocketEvent, suspVars
<1>4. CASE PeerConnects \/ \E t \in Tasks : PeerSends(t) \/ PeerReads(t) \/ PeerHangsUp(t)
  BY <1>3, <1>4 DEF PeerConnects, PeerSends, PeerReads, PeerHangsUp
<1>5. ASSUME NEW u \in inflight, Complete(u) PROVE Timely'
  BY <1>1, <1>5 DEF Complete, suspVars
<1>6. CASE SignalShutdown
  BY <1>1, <1>6 DEF SignalShutdown, suspVars
<1> QED BY <1>2, <1>4, <1>5, <1>6, TickTimely DEF Environment

\* A coroutine is resumed as timed out only when the deadline of the very
\* suspension it is in has passed (the sweep of taskDeadlines_ in run()).
THEOREM TimeoutsAreGenuine == Spec => []TimeoutIsGenuine
<1>1. Init => Timely
  <2> SUFFICES ASSUME Init PROVE Timely
    OBVIOUS
  <2>1. NotAwaiting \in Awaiting
    BY DEF NotAwaiting, Awaiting
  <2>2. Deadlines
    BY <2>1 DEF Init, Deadlines
  <2>3. \A i \in DOMAIN readyQueue : ~readyQueue[i].timedOut
    BY DEF Init, Ready
  <2> QED BY <2>2, <2>3 DEF Timely, TimedOutAreTasks, TimeoutIsGenuine
<1>2. Core /\ Timely /\ [Next]_vars => Timely'
  <2> SUFFICES ASSUME Core, Timely, [Next]_vars PROVE Timely'
    OBVIOUS
  <2>1. CASE UNCHANGED vars
    BY <2>1, CalmTimely, Shrinking DEF vars, suspVars, NoNewTimeout
  <2> QED BY <2>1, CoroutineTimely, LoopTimely, EnvironmentTimely DEF Next
<1>3. Timely => TimeoutIsGenuine
  BY DEF Timely
<1> QED BY <1>1, <1>2, <1>3, CoreInvariant, PTL DEF Spec

-----------------------------------------------------------------------------
(* Readiness *)

\* Masks are what writeInterested_ says; nothing goes wrong on the listener.
MaskTypes ==
  /\ DOMAIN interest \subseteq Fds /\ interest \in [DOMAIN interest -> SUBSET {"IN", "OUT"}]
  /\ \A fd \in DOMAIN interest : "IN" \in interest[fd]
  /\ \A fd \in Fds : fd \in writeInterested <=> fd \in DOMAIN interest /\ "OUT" \in interest[fd]
LevelTypes == level \in [Fds -> SUBSET {"IN", "OUT", "ERR"}] /\ "ERR" \notin level[Listener]

\* A suspended coroutine has the mask it needs.
Registered ==
  \A fd \in Fds \cap DOMAIN suspendedTasks :
    fd \in DOMAIN interest /\ (suspendedTasks[fd].waitingForWrite => fd \in writeInterested)

\* The accept loop only waits for connections.
RootReads ==
  \A k \in DOMAIN suspendedTasks :
    suspendedTasks[k].handle = Root => k = Listener /\ ~suspendedTasks[k].waitingForWrite

\* What a suspended coroutine waits for is still to be reported once it is there.
Wanted(s) == {"ERR", IF s.waitingForWrite THEN "OUT" ELSE "IN"}
Reported ==
  \A fd \in Fds \cap DOMAIN suspendedTasks :
    level[fd] \cap Wanted(suspendedTasks[fd]) # {} =>
      fd \in readyList \/ \E e \in events : e.fd = fd /\ ShouldWake(suspendedTasks[fd], e.mask)

\* The accept loop waits again after a timeout without trying: what came is
\* still to be reported.
TimedOutRoot == \/ \E i \in DOMAIN readyQueue : readyQueue[i].task = Root /\ readyQueue[i].timedOut
                \/ current = <<Root>> /\ tlTimedOut
Unreported ==
  TimedOutRoot => /\ Listener \in DOMAIN interest
                  /\ "IN" \in level[Listener] => Listener \in readyList

\* The invariant of readiness.
Watched == MaskTypes /\ LevelTypes /\ Registered /\ RootReads /\ Reported /\ Unreported

\* The accept loop has a socket.
LEMMA ListenerIsFd == Listener \in Fds /\ Root \in Tasks
  BY ExecutorAssumption DEF Listener

\* epoll_ctl() with the mask that writeInterested_ says.
LEMMA CtlMasks ==
  ASSUME MaskTypes, NEW fd \in Fds, NEW mask, mask = {"IN"} \/ mask = {"IN", "OUT"}, EpollCtl(fd, mask),
         fd \in writeInterested' <=> "OUT" \in mask,
         \A x \in Fds : x # fd => (x \in writeInterested' <=> x \in writeInterested)
  PROVE  /\ MaskTypes' /\ DOMAIN interest' = DOMAIN interest \cup {fd}
         /\ readyList \subseteq readyList' /\ (level[fd] \cap (mask \cup {"ERR"}) # {} => fd \in readyList')
<1>1. /\ DOMAIN interest' = DOMAIN interest \cup {fd} /\ interest'[fd] = mask
      /\ \A x \in DOMAIN interest : x # fd => interest'[x] = interest[x]
      /\ interest' = [x \in DOMAIN interest \cup {fd} |-> IF x = fd THEN mask ELSE interest[x]]
  BY DEF EpollCtl, With
<1>2. mask \in SUBSET {"IN", "OUT"} /\ "IN" \in mask
  OBVIOUS
<1>3. interest' \in [DOMAIN interest' -> SUBSET {"IN", "OUT"}]
  BY <1>1, <1>2 DEF MaskTypes
<1>4. MaskTypes'
  BY <1>1, <1>2, <1>3 DEF MaskTypes
<1>5. readyList \subseteq readyList' /\ (level[fd] \cap (mask \cup {"ERR"}) # {} => fd \in readyList')
  BY DEF EpollCtl
<1> QED BY <1>1, <1>4, <1>5

\* enableWriteEvents().
LEMMA EnableMasks ==
  ASSUME MaskTypes, NEW fd \in Fds, EnableWriteEvents(fd)
  PROVE  /\ MaskTypes' /\ DOMAIN interest \subseteq DOMAIN interest' /\ fd \in DOMAIN interest'
         /\ writeInterested \subseteq writeInterested' /\ fd \in writeInterested' /\ readyList \subseteq readyList'
<1>1. CASE fd \in writeInterested
  <2>1. UNCHANGED <<writeInterested, interest, readyList>>
    BY <1>1 DEF EnableWriteEvents
  <2> QED BY <1>1, <2>1 DEF MaskTypes
<1>2. CASE fd \notin writeInterested
  <2> DEFINE mask == {"IN", "OUT"}
  <2>1. writeInterested' = writeInterested \cup {fd} /\ EpollCtl(fd, mask) /\ "OUT" \in mask
    BY <1>2 DEF EnableWriteEvents
  <2> HIDE DEF mask
  <2>2. MaskTypes' /\ DOMAIN interest' = DOMAIN interest \cup {fd} /\ readyList \subseteq readyList'
    BY <2>1, CtlMasks DEF mask
  <2> QED BY <2>1, <2>2
<1> QED BY <1>1, <1>2

\* disableWriteEvents().
LEMMA DisableMasks ==
  ASSUME MaskTypes, NEW fd \in Fds, DisableWriteEvents(fd)
  PROVE  /\ MaskTypes' /\ DOMAIN interest \subseteq DOMAIN interest'
         /\ \A x \in writeInterested : x # fd => x \in writeInterested'
         /\ readyList \subseteq readyList'
<1>1. CASE fd \notin writeInterested
  <2>1. UNCHANGED <<writeInterested, interest, readyList>>
    BY <1>1 DEF DisableWriteEvents
  <2> QED BY <1>1, <2>1 DEF MaskTypes
<1>2. CASE fd \in writeInterested
  <2> DEFINE mask == {"IN"}
  <2>1. writeInterested' = writeInterested \ {fd} /\ EpollCtl(fd, mask) /\ "OUT" \notin mask
    BY <1>2 DEF DisableWriteEvents
  <2> HIDE DEF mask
  <2>2. MaskTypes' /\ DOMAIN interest' = DOMAIN interest \cup {fd} /\ readyList \subseteq readyList'
    BY <2>1, CtlMasks DEF mask
  <2> QED BY <2>1, <2>2
<1> QED BY <1>1, <1>2

\* registerReadFd().
LEMMA RegisterMasks ==
  ASSUME MaskTypes, NEW fd \in Fds, fd \notin DOMAIN interest, EpollCtl(fd, {"IN"}), UNCHANGED writeInterested
  PROVE  /\ MaskTypes' /\ DOMAIN interest \subseteq DOMAIN interest' /\ fd \in DOMAIN interest'
         /\ readyList \subseteq readyList' /\ (level[fd] \cap {"IN", "ERR"} # {} => fd \in readyList')
<1> DEFINE mask == {"IN"}
<1>1. fd \notin writeInterested /\ "OUT" \notin mask /\ EpollCtl(fd, mask) /\ mask \cup {"ERR"} = {"IN", "ERR"}
  BY DEF MaskTypes
<1> HIDE DEF mask
<1>2. /\ MaskTypes' /\ DOMAIN interest' = DOMAIN interest \cup {fd} /\ readyList \subseteq readyList'
      /\ (level[fd] \cap (mask \cup {"ERR"}) # {} => fd \in readyList')
  BY <1>1, CtlMasks DEF mask
<1> QED BY <1>1, <1>2

\* The readiness of a socket is kept up where somebody waits for it.
Keeps(fd) ==
  /\ level'[fd] \subseteq level[fd] /\ (fd \in readyList => fd \in readyList')
  /\ \A e \in events : e.fd = fd => e \in events'
\* Nobody who is suspended loses his mask.
KeepsMask(fd) == (fd \in DOMAIN interest => fd \in DOMAIN interest') /\ (fd \in writeInterested => fd \in writeInterested')

\* Suspensions end, and the rest is kept.
LEMMA ShrinkReported ==
  ASSUME Registered, RootReads, Reported, Shrinks, \A fd \in Fds \cap DOMAIN suspendedTasks' : Keeps(fd) /\ KeepsMask(fd)
  PROVE  Registered' /\ RootReads' /\ Reported'
<1>1. Registered'
  BY DEF Registered, Shrinks, KeepsMask
<1>2. RootReads'
  BY DEF RootReads, Shrinks
<1>3. ASSUME NEW fd \in Fds \cap DOMAIN suspendedTasks', level'[fd] \cap Wanted(suspendedTasks'[fd]) # {}
      PROVE  fd \in readyList' \/ \E e \in events' : e.fd = fd /\ ShouldWake(suspendedTasks'[fd], e.mask)
  <2>1. fd \in DOMAIN suspendedTasks /\ suspendedTasks'[fd] = suspendedTasks[fd]
    BY DEF Shrinks
  <2>2. level[fd] \cap Wanted(suspendedTasks[fd]) # {}
    BY <1>3, <2>1 DEF Keeps
  <2>3. fd \in readyList \/ \E e \in events : e.fd = fd /\ ShouldWake(suspendedTasks[fd], e.mask)
    BY <2>1, <2>2 DEF Reported
  <2> QED BY <2>1, <2>3 DEF Keeps
<1>4. Reported'
  BY <1>3 DEF Reported, Wanted, ShouldWake
<1> QED BY <1>1, <1>2, <1>4

\* A coroutine suspends on key.
LEMMA AddReported ==
  ASSUME Registered, RootReads, Reported, NEW key, NEW t \in Tasks, NEW write \in BOOLEAN, SuspendOn(key, t, write),
         \A fd \in Fds \cap DOMAIN suspendedTasks : Keeps(fd) /\ KeepsMask(fd),
         t = Root => key = Listener /\ ~write,
         key \in Fds => /\ key \in DOMAIN interest' /\ (write => key \in writeInterested')
                        /\ (level'[key] \cap {"ERR", IF write THEN "OUT" ELSE "IN"} # {} => key \in readyList')
  PROVE  Registered' /\ RootReads' /\ Reported'
<1> DEFINE s == [handle |-> t, waitingForWrite |-> write, suspensionSeq |-> FreshSeq]
<1>1. suspendedTasks' = With(suspendedTasks, key, s) /\ s.handle = t /\ s.waitingForWrite = write
  BY DEF SuspendOn
<1> HIDE DEF s
<1>2. /\ DOMAIN suspendedTasks' = DOMAIN suspendedTasks \cup {key} /\ suspendedTasks'[key] = s
      /\ \A k \in DOMAIN suspendedTasks : k # key => suspendedTasks'[k] = suspendedTasks[k]
  BY <1>1 DEF With
<1>3. Registered'
  BY <1>1, <1>2 DEF Registered, KeepsMask
<1>4. RootReads'
  BY <1>1, <1>2 DEF RootReads
<1>5. ASSUME NEW fd \in Fds \cap DOMAIN suspendedTasks', level'[fd] \cap Wanted(suspendedTasks'[fd]) # {}
      PROVE  fd \in readyList' \/ \E e \in events' : e.fd = fd /\ ShouldWake(suspendedTasks'[fd], e.mask)
  <2>1. CASE fd = key
    <3>1. Wanted(suspendedTasks'[fd]) = {"ERR", IF write THEN "OUT" ELSE "IN"}
      BY <1>1, <1>2, <2>1 DEF Wanted
    <3> QED BY <1>5, <2>1, <3>1
  <2>2. CASE fd # key
    <3>1. fd \in DOMAIN suspendedTasks /\ suspendedTasks'[fd] = suspendedTasks[fd]
      BY <1>2, <2>2
    <3>2. level[fd] \cap Wanted(suspendedTasks[fd]) # {}
      BY <1>5, <3>1 DEF Keeps
    <3>3. fd \in readyList \/ \E e \in events : e.fd = fd /\ ShouldWake(suspendedTasks[fd], e.mask)
      BY <3>1, <3>2 DEF Reported
    <3> QED BY <3>1, <3>3 DEF Keeps
  <2> QED BY <2>1, <2>2
<1>6. Reported'
  BY <1>5 DEF Reported, Wanted, ShouldWake
<1> QED BY <1>3, <1>4, <1>6

\* The accept loop has not just timed out.
LEMMA StillUnreported ==
  ASSUME Unreported, NoNewTimeout, current' = <<>> \/ UNCHANGED <<current, tlTimedOut>>,
         TimedOutRoot => /\ Listener \in DOMAIN interest => Listener \in DOMAIN interest'
                         /\ level'[Listener] \subseteq level[Listener]
                         /\ Listener \in readyList => Listener \in readyList'
  PROVE  Unreported'
<1>1. TimedOutRoot' => TimedOutRoot
  BY DEF TimedOutRoot, NoNewTimeout
<1> QED BY <1>1 DEF Unreported, Listener

\* Nothing happens to sockets, masks and their events.
LEMMA CalmWatched ==
  ASSUME Watched, Shrinks, NoNewTimeout, UNCHANGED <<writeInterested, interest, level>>,
         readyList \subseteq readyList', \A e \in events : e.fd \in Fds => e \in events',
         current' = <<>> \/ UNCHANGED <<current, tlTimedOut>>
  PROVE  Watched'
<1>1. MaskTypes' /\ LevelTypes'
  BY DEF Watched, MaskTypes, LevelTypes, Listener
<1>2. Registered' /\ RootReads' /\ Reported'
  BY ShrinkReported DEF Watched, Keeps, KeepsMask
<1>3. Unreported'
  BY StillUnreported DEF Watched
<1> QED BY <1>1, <1>2, <1>3 DEF Watched

\* A step that leaves the ready queue alone.
LEMMA SameReadyNoTimeout == ASSUME UNCHANGED readyQueue PROVE NoNewTimeout
  BY DEF NoNewTimeout

\* A socket is read or written until it would block.
LEMMA DrainedLevel ==
  ASSUME LevelTypes, NEW fd \in Fds, NEW X, level' = [level EXCEPT ![fd] = @ \ X]
  PROVE  LevelTypes' /\ \A x \in Fds : level'[x] \subseteq level[x]
<1>1. level \in [Fds -> SUBSET {"IN", "OUT", "ERR"}] /\ level[fd] \ X \in SUBSET {"IN", "OUT", "ERR"}
  BY DEF LevelTypes
<1>2. level' \in [Fds -> SUBSET {"IN", "OUT", "ERR"}] /\ \A x \in Fds : level'[x] \subseteq level[x]
  BY <1>1
<1> QED BY <1>2, ListenerIsFd DEF LevelTypes, Listener

\* The running coroutine waits for its socket that would block.
LEMMA WaitWatched ==
  ASSUME Core, Watched, NEW t \in Tasks, current = <<t>>, NEW timeout \in Timeouts, NEW write \in BOOLEAN,
         SuspendOn(FdOf[t], t, write), current' = <<>>, UNCHANGED <<readyQueue, level, events>>,
         MaskTypes', DOMAIN interest \subseteq DOMAIN interest', FdOf[t] \in DOMAIN interest',
         writeInterested \subseteq writeInterested', write => FdOf[t] \in writeInterested', readyList \subseteq readyList',
         t = Root => ~write,
         level[FdOf[t]] \cap {"ERR", IF write THEN "OUT" ELSE "IN"} # {} => FdOf[t] \in readyList'
  PROVE  Watched'
<1>1. LevelTypes' /\ MaskTypes'
  BY DEF Watched, LevelTypes, Listener
<1>2. \A fd \in Fds \cap DOMAIN suspendedTasks : Keeps(fd) /\ KeepsMask(fd)
  BY DEF Keeps, KeepsMask
<1>3. t = Root => FdOf[t] = Listener /\ ~write
  BY DEF Listener
<1>4. Registered' /\ RootReads' /\ Reported'
  BY <1>2, <1>3, AddReported DEF Watched
<1>5. Unreported'
  BY StillUnreported, SameReadyNoTimeout DEF Watched
<1> QED BY <1>1, <1>4, <1>5 DEF Watched

\* A coroutine other than the accept loop suspends on a key of its own.
LEMMA KeyWatched ==
  ASSUME Core, Watched, NEW t \in Tasks, t # Root, SuspendOn(FreshKey, t, FALSE), current' = <<>>,
         UNCHANGED readyQueue, UNCHANGED epollVars
  PROVE  Watched'
<1>1. UNCHANGED <<writeInterested, interest, level, readyList, events>>
  BY DEF epollVars
<1>2. LevelTypes' /\ MaskTypes'
  BY <1>1 DEF Watched, LevelTypes, MaskTypes, Listener
<1>3. \A fd \in Fds \cap DOMAIN suspendedTasks : Keeps(fd) /\ KeepsMask(fd)
  BY <1>1 DEF Keeps, KeepsMask
<1>4. FreshKey \notin Fds
  BY FreshKeyIsFresh, ExecutorAssumption DEF Core, Keys
<1>5. Registered' /\ RootReads' /\ Reported'
  BY <1>3, <1>4, AddReported DEF Watched
<1>6. Unreported'
  BY <1>1, StillUnreported, SameReadyNoTimeout DEF Watched
<1> QED BY <1>2, <1>5, <1>6 DEF Watched

\* Sockets are read or written, registered; masks grow.
LEMMA GrowWatched ==
  ASSUME Watched, UNCHANGED <<readyQueue, suspendedTasks, current, tlTimedOut, events>>,
         MaskTypes', LevelTypes', \A fd \in Fds : level'[fd] \subseteq level[fd],
         DOMAIN interest \subseteq DOMAIN interest', writeInterested \subseteq writeInterested', readyList \subseteq readyList'
  PROVE  Watched'
<1>1. Shrinks
  BY Shrinking
<1>2. Registered' /\ RootReads' /\ Reported'
  BY <1>1, ShrinkReported DEF Watched, Keeps, KeepsMask
<1>3. Unreported'
  BY StillUnreported, SameReadyNoTimeout, ListenerIsFd DEF Watched
<1> QED BY <1>2, <1>3 DEF Watched

\* A connection ends and its socket is closed.
LEMMA CloseWatched ==
  ASSUME Core, Watched, NEW t \in Tasks, t # Root, current = <<t>>, current' = <<>>, CloseFd(FdOf[t]),
         UNCHANGED <<readyQueue, events>>, Shrinks,
         writeInterested' = writeInterested \ {FdOf[t]}
  PROVE  Watched'
<1> DEFINE f == FdOf[t]
<1>1. f \in Fds /\ f \notin DOMAIN suspendedTasks /\ f # Listener
  <2>1. t \in Live
    BY CurrentOnly DEF Core
  <2>2. FdOf[t] \notin DOMAIN suspendedTasks
    BY CurrentOnly, NothingOnFd DEF Core
  <2> QED BY <2>1, <2>2, ExecutorAssumption DEF Core, Owned
<1>2. /\ interest' = Without(interest, f) /\ readyList' = readyList \ {f} /\ level' = [level EXCEPT ![f] = {}]
      /\ writeInterested' = writeInterested \ {f}
  BY DEF CloseFd
<1> HIDE DEF f
<1>3. /\ DOMAIN interest' = DOMAIN interest \ {f}
      /\ \A x \in DOMAIN interest' : interest'[x] = interest[x]
      /\ interest' \in [DOMAIN interest' -> SUBSET {"IN", "OUT"}]
  BY <1>2 DEF Without, Restrict, Watched, MaskTypes
<1>4. MaskTypes'
  BY <1>2, <1>3 DEF Watched, MaskTypes
<1>5. /\ level' \in [Fds -> SUBSET {"IN", "OUT", "ERR"}] /\ \A x \in Fds : level'[x] \subseteq level[x]
  BY <1>1, <1>2 DEF Watched, LevelTypes
<1>6. LevelTypes'
  BY <1>5, ListenerIsFd DEF Watched, LevelTypes, Listener
<1>7. \A fd \in Fds \cap DOMAIN suspendedTasks' : Keeps(fd) /\ KeepsMask(fd)
  BY <1>1, <1>2, <1>3, <1>5 DEF Keeps, KeepsMask, Shrinks
<1>8. Registered' /\ RootReads' /\ Reported'
  BY <1>7, ShrinkReported DEF Watched
<1>9. Unreported'
  BY <1>1, <1>2, <1>3, <1>5, ListenerIsFd, StillUnreported, SameReadyNoTimeout DEF Watched
<1> QED BY <1>4, <1>6, <1>8, <1>9 DEF Watched

\* A connection is accepted on a number that nobody waits for.
LEMMA AcceptWatched == ASSUME Core, Watched, NEW c \in Tasks, Accept(c) PROVE Watched'
<1> DEFINE f == FdOf[c]
<1>1. /\ current = <<Root>> /\ c \in Callers /\ SpawnTask(c)
      /\ level' = [level EXCEPT ![Listener] = @ \ {"IN"}, ![f] = {"OUT"}]
      /\ UNCHANGED <<current, tlTimedOut, suspendedTasks, writeInterested, interest, readyList, events>>
  BY DEF Accept, Running, loopVars, suspVars
<1>2. Root \in Live /\ \A d \in Live : FdOf[d] # f
  BY <1>1, CurrentOnly, ListenerIsFd DEF Core, Callers
<1>3. f \in Fds /\ f # Listener /\ f \notin DOMAIN suspendedTasks
  <2>1. f \in Fds /\ f # Listener
    BY <1>2, ExecutorAssumption DEF Listener
  <2>2. ASSUME f \in DOMAIN suspendedTasks PROVE FALSE
    <3>1. suspendedTasks[f].handle \in InSuspended /\ FdOf[suspendedTasks[f].handle] = f
      BY <2>1, <2>2 DEF InSuspended, Core, OnOwnFd
    <3>2. suspendedTasks[f].handle \in Live
      BY <3>1, HeldIs DEF Core, Holding, Total, Places
    <3> QED BY <1>2, <3>1, <3>2
  <2> QED BY <2>1, <2>2
<1> HIDE DEF f
<1>4. /\ level' \in [Fds -> SUBSET {"IN", "OUT", "ERR"}]
      /\ \A x \in Fds : x # f => level'[x] \subseteq level[x]
  <2>1. level \in [Fds -> SUBSET {"IN", "OUT", "ERR"}]
    BY DEF Watched, LevelTypes
  <2>2. \A x \in Fds : level'[x] = IF x = f THEN {"OUT"} ELSE IF x = Listener THEN level[x] \ {"IN"} ELSE level[x]
    BY <1>1, <1>3, <2>1, ListenerIsFd
  <2>3. \A x \in Fds : level'[x] \in SUBSET {"IN", "OUT", "ERR"}
    BY <2>1, <2>2
  <2>4. level' = [x \in Fds |-> level'[x]]
    BY <1>1, <2>1
  <2> QED BY <2>2, <2>3, <2>4
<1>5. LevelTypes' /\ MaskTypes'
  <2>1. "ERR" \notin level'[Listener]
    BY <1>3, <1>4, ListenerIsFd DEF Watched, LevelTypes
  <2> QED BY <1>1, <1>4, <2>1 DEF Watched, LevelTypes, MaskTypes, Listener
<1>6. Shrinks /\ NoNewTimeout
  BY <1>1, Appending, Shrinking DEF SpawnTask, Core, NoNewTimeout
<1>7. \A fd \in Fds \cap DOMAIN suspendedTasks' : Keeps(fd) /\ KeepsMask(fd)
  BY <1>1, <1>3, <1>4 DEF Keeps, KeepsMask
<1>8. Registered' /\ RootReads' /\ Reported'
  BY <1>6, <1>7, ShrinkReported DEF Watched
<1>9. Unreported'
  BY <1>1, <1>3, <1>4, <1>6, ListenerIsFd, StillUnreported DEF Watched
<1> QED BY <1>5, <1>8, <1>9 DEF Watched

\* What coroutines do.
LEMMA CoroutineWatched == ASSUME Core, Watched, Coroutine PROVE Watched'
<1>1. ASSUME NEW timeout \in Timeouts, AcceptLoopStart(timeout) PROVE Watched'
  <2>1. /\ current = <<Root>> /\ Root \in Tasks /\ Listener \in Fds /\ FdOf[Root] = Listener
        /\ Listener \notin DOMAIN interest /\ EpollCtl(Listener, {"IN"}) /\ UNCHANGED writeInterested
        /\ SuspendOn(FdOf[Root], Root, FALSE) /\ current' = <<>> /\ UNCHANGED <<readyQueue, level, events>>
    BY <1>1, ListenerIsFd DEF AcceptLoopStart, Running, WaitForRead, Leave, Listener
  <2>2. /\ MaskTypes' /\ DOMAIN interest \subseteq DOMAIN interest' /\ Listener \in DOMAIN interest'
        /\ readyList \subseteq readyList' /\ (level[Listener] \cap {"IN", "ERR"} # {} => Listener \in readyList')
    BY <2>1, RegisterMasks DEF Watched
  <2>3. level[FdOf[Root]] \cap {"ERR", IF FALSE THEN "OUT" ELSE "IN"} # {} => FdOf[Root] \in readyList'
    BY <2>1, <2>2
  <2> QED BY <2>1, <2>2, <2>3, WaitWatched
<1>2. ASSUME NEW timeout \in Timeouts, AcceptLoopWait(timeout) PROVE Watched'
  <2>1. /\ current = <<Root>> /\ Root \in Tasks /\ Listener \in Fds /\ FdOf[Root] = Listener
        /\ Listener \in DOMAIN interest /\ (~tlTimedOut => "IN" \notin level[Listener])
        /\ SuspendOn(FdOf[Root], Root, FALSE) /\ current' = <<>>
        /\ UNCHANGED <<readyQueue, level, events, writeInterested, interest, readyList>>
    BY <1>2, ListenerIsFd DEF AcceptLoopWait, Running, WaitForRead, Leave, Listener, epollVars
  <2>2. MaskTypes'
    BY <2>1 DEF Watched, MaskTypes
  <2>3. "IN" \in level[Listener] => Listener \in readyList
    BY <2>1 DEF Watched, Unreported, TimedOutRoot
  <2>4. level[FdOf[Root]] \cap {"ERR", IF FALSE THEN "OUT" ELSE "IN"} # {} => FdOf[Root] \in readyList'
    BY <2>1, <2>3 DEF Watched, LevelTypes
  <2> QED BY <2>1, <2>2, <2>4, WaitWatched
<1>3. CASE AcceptLoopReturns
  <2>1. UNCHANGED <<readyQueue, suspendedTasks, writeInterested, interest, level, readyList, events>> /\ current' = <<>>
    BY <1>3 DEF AcceptLoopReturns, Finish, suspVars, epollVars
  <2> QED BY <2>1, CalmWatched, Shrinking, SameReadyNoTimeout
<1>4. ASSUME NEW t \in Tasks, ConnectionReturns(t) \/ ConnectionThrows(t) PROVE Watched'
  <2>1. /\ t # Root /\ current = <<t>> /\ current' = <<>> /\ CloseFd(FdOf[t]) /\ UNCHANGED <<readyQueue, events>>
    BY <1>4 DEF ConnectionReturns, ConnectionThrows, Running, Finish
  <2>2. suspendedTasks' = suspendedTasks \/ suspendedTasks' = Without(suspendedTasks, FdOf[t])
    BY <1>4 DEF ConnectionReturns, ConnectionThrows, Unregister, suspVars
  <2>3. writeInterested' = writeInterested \ {FdOf[t]}
    BY <1>4 DEF ConnectionReturns, ConnectionThrows, Unregister
  <2>4. Shrinks
    BY <2>2, Shrinking
  <2> QED BY <2>1, <2>3, <2>4, CloseWatched
<1>5. ASSUME NEW t \in Tasks, RegisterReadFd(t) PROVE Watched'
  <2>1. /\ FdOf[t] \in Fds /\ FdOf[t] \notin DOMAIN interest /\ EpollCtl(FdOf[t], {"IN"})
        /\ UNCHANGED <<readyQueue, suspendedTasks, current, tlTimedOut, events, level, writeInterested>>
    BY <1>5, ExecutorAssumption DEF RegisterReadFd, loopVars, suspVars
  <2>2. MaskTypes' /\ DOMAIN interest \subseteq DOMAIN interest' /\ readyList \subseteq readyList'
    BY <2>1, RegisterMasks DEF Watched
  <2>3. LevelTypes'
    BY <2>1 DEF Watched, LevelTypes, Listener
  <2> QED BY <2>1, <2>2, <2>3, GrowWatched
<1>6. ASSUME NEW t \in Tasks, NEW timeout \in Timeouts, ReadOrSuspend(t, timeout) PROVE Watched'
  <2>1. /\ current = <<t>> /\ t # Root /\ FdOf[t] \in Fds /\ FdOf[t] \in DOMAIN interest
        /\ UNCHANGED <<readyQueue, writeInterested, interest, readyList, events>>
    BY <1>6, ExecutorAssumption DEF ReadOrSuspend, Running, Uses
  <2>2. MaskTypes'
    BY <2>1 DEF Watched, MaskTypes
  <2>3. CASE level' = [level EXCEPT ![FdOf[t]] = @ \ {"IN"}] /\ UNCHANGED <<loopVars, suspVars, awaiting>>
    <3>1. LevelTypes' /\ \A x \in Fds : level'[x] \subseteq level[x]
      BY <2>1, <2>3, DrainedLevel DEF Watched
    <3>2. UNCHANGED <<suspendedTasks, current, tlTimedOut>>
      BY <2>3 DEF loopVars, suspVars
    <3> QED BY <2>1, <2>2, <3>1, <3>2, GrowWatched
  <2>4. CASE WouldBlock(FdOf[t], "IN") /\ WaitForRead(t, timeout) /\ UNCHANGED <<level, eventKeys>>
    <3>1. SuspendOn(FdOf[t], t, FALSE) /\ current' = <<>> /\ UNCHANGED level
      BY <2>4 DEF WaitForRead, Leave
    <3>2. level[FdOf[t]] \cap {"ERR", IF FALSE THEN "OUT" ELSE "IN"} = {}
      BY <2>4 DEF WouldBlock
    <3> QED BY <2>1, <2>2, <3>1, <3>2, WaitWatched
  <2> QED BY <1>6, <2>3, <2>4 DEF ReadOrSuspend
<1>7. ASSUME NEW t \in Tasks, NEW timeout \in Timeouts, WriteOrSuspend(t, timeout) PROVE Watched'
  <2>1. /\ current = <<t>> /\ t # Root /\ FdOf[t] \in Fds /\ FdOf[t] \in DOMAIN interest
        /\ UNCHANGED <<readyQueue, events>>
    BY <1>7, ExecutorAssumption DEF WriteOrSuspend, Running, Uses
  <2>2. CASE /\ level' = [level EXCEPT ![FdOf[t]] = @ \ {"OUT"}]
             /\ UNCHANGED <<loopVars, suspVars, writeInterested, interest, readyList, awaiting>>
    <3>1. LevelTypes' /\ \A x \in Fds : level'[x] \subseteq level[x]
      BY <2>1, <2>2, DrainedLevel DEF Watched
    <3>2. UNCHANGED <<suspendedTasks, current, tlTimedOut>> /\ MaskTypes'
      BY <2>2 DEF loopVars, suspVars, Watched, MaskTypes
    <3> QED BY <2>1, <2>2, <3>1, <3>2, GrowWatched
  <2>3. CASE /\ WouldBlock(FdOf[t], "OUT") /\ EnableWriteEvents(FdOf[t]) /\ WaitForWrite(t, timeout)
             /\ UNCHANGED <<level, eventKeys>>
    <3>1. SuspendOn(FdOf[t], t, TRUE) /\ current' = <<>> /\ UNCHANGED level
      BY <2>3 DEF WaitForWrite, Leave
    <3>2. level[FdOf[t]] \cap {"ERR", IF TRUE THEN "OUT" ELSE "IN"} = {}
      BY <2>3 DEF WouldBlock
    <3>3. /\ MaskTypes' /\ DOMAIN interest \subseteq DOMAIN interest' /\ FdOf[t] \in DOMAIN interest'
          /\ writeInterested \subseteq writeInterested' /\ FdOf[t] \in writeInterested' /\ readyList \subseteq readyList'
      BY <2>1, <2>3, EnableMasks DEF Watched
    <3> QED BY <2>1, <3>1, <3>2, <3>3, WaitWatched
  <2> QED BY <1>7, <2>2, <2>3 DEF WriteOrSuspend
<1>8. ASSUME NEW t \in Tasks, NEW timeout \in Timeouts, WaitForEvent(t, timeout) PROVE Watched'
  BY <1>8, KeyWatched DEF WaitForEvent, Uses, Leave
<1>9. ASSUME NEW t \in Tasks, NEW cycles \in Cycles, WakeMeIn(t, cycles) PROVE Watched'
  BY <1>9, KeyWatched DEF WakeMeIn, Uses, Leave
<1>10. ASSUME NEW t \in Tasks, NEW key \in eventKeys, FireEvent(t, key) PROVE Watched'
  <2>1. /\ \/ key \in DOMAIN suspendedTasks /\ WakeSuspended(key, FALSE)
           \/ UNCHANGED <<readyQueue, suspendedTasks>>
        /\ UNCHANGED <<current, tlTimedOut, writeInterested, interest, level, readyList, events>>
    BY <1>10 DEF FireEvent, loopVars, epollVars
  <2>2. Shrinks /\ NoNewTimeout
    BY <2>1, WakeIsCalm DEF Core
  <2> QED BY <2>1, <2>2, CalmWatched
<1>11. ASSUME NEW t \in Tasks, AwaitPoolJob(t) \/ \E kind \in OpKinds : SubmitOp(t, kind) PROVE Watched'
  <2>1. UNCHANGED <<readyQueue, suspendedTasks, writeInterested, interest, level, readyList, events>> /\ current' = <<>>
    BY <1>11 DEF AwaitPoolJob, SubmitOp, Leave, suspVars, epollVars
  <2> QED BY <2>1, CalmWatched, Shrinking, SameReadyNoTimeout
<1>12. CASE AcceptLoop
  BY <1>12, <1>1, <1>2, <1>3, AcceptWatched DEF AcceptLoop
<1>13. ASSUME NEW t \in Tasks, Connection(t) PROVE Watched'
  BY <1>13, <1>4, <1>5, <1>6, <1>7, <1>8, <1>9, <1>10, <1>11 DEF Connection
<1> QED BY <1>12, <1>13 DEF Coroutine

\* Resuming may take write events away from a coroutine that is not suspended.
LEMMA ResumeWatched == ASSUME Core, Watched, Resume PROVE Watched'
<1> DEFINE h == Head(readyQueue).task
<1>1. /\ \A i \in DOMAIN readyQueue' : \E j \in DOMAIN readyQueue : readyQueue'[i] = readyQueue[j]
      /\ (h # NullHandle => h \in InReady /\ h \in Tasks)
  BY ResumeStep DEF Core
<1>2. UNCHANGED <<suspendedTasks, level, events>> /\ current = <<>> /\ readyQueue # <<>>
  BY DEF Resume, suspVars, epollVars
<1>3. 1 \in DOMAIN readyQueue /\ Head(readyQueue) = readyQueue[1]
  <2>1. readyQueue \in Seq(ReadyEntry)
    BY DEF Core, Holding, Once, OnceReady, ReadyEntry
  <2> QED BY <1>2, <2>1
<1>4. \/ UNCHANGED <<current, tlTimedOut>>
      \/ current' = <<h>> /\ tlTimedOut' = Head(readyQueue).timedOut
  BY DEF Resume
<1>5. /\ \/ UNCHANGED <<writeInterested, interest, readyList>>
         \/ h # NullHandle /\ DisableWriteEvents(FdOf[h])
  BY DEF Resume, epollVars
<1>6. TimedOutRoot' => TimedOutRoot
  <2>1. CASE \E i \in DOMAIN readyQueue' : readyQueue'[i].task = Root /\ readyQueue'[i].timedOut
    BY <1>1, <2>1 DEF TimedOutRoot
  <2>2. CASE current' = <<Root>> /\ tlTimedOut'
    <3>1. current' = <<h>> /\ tlTimedOut' = Head(readyQueue).timedOut
      BY <1>2, <1>4, <2>2
    <3>2. h = Root
      BY <2>2, <3>1
    <3> QED BY <1>3, <2>2, <3>1, <3>2 DEF TimedOutRoot
  <2> QED BY <2>1, <2>2 DEF TimedOutRoot
<1> HIDE DEF h
<1>7. /\ MaskTypes' /\ DOMAIN interest \subseteq DOMAIN interest' /\ readyList \subseteq readyList'
      /\ \A fd \in Fds \cap DOMAIN suspendedTasks : fd \in writeInterested => fd \in writeInterested'
  <2>1. CASE UNCHANGED <<writeInterested, interest, readyList>>
    BY <2>1 DEF Watched, MaskTypes
  <2>2. CASE h # NullHandle /\ DisableWriteEvents(FdOf[h])
    <3>1. h \in Tasks /\ FdOf[h] \in Fds /\ h \in InReady
      BY <1>1, <2>2, ExecutorAssumption
    <3>2. h \in Live /\ h \notin InSuspended
      BY <3>1, HeldIs DEF Core, Holding, Total, Apart, Places
    <3>3. FdOf[h] \notin DOMAIN suspendedTasks
      BY <3>1, <3>2, NothingOnFd DEF Core
    <3>4. /\ MaskTypes' /\ DOMAIN interest \subseteq DOMAIN interest'
          /\ \A x \in writeInterested : x # FdOf[h] => x \in writeInterested'
          /\ readyList \subseteq readyList'
      BY <2>2, <3>1, DisableMasks DEF Watched
    <3> QED BY <3>3, <3>4
  <2> QED BY <1>5, <2>1, <2>2
<1>8. LevelTypes'
  BY <1>2 DEF Watched, LevelTypes, Listener
<1>9. \A fd \in Fds \cap DOMAIN suspendedTasks' : Keeps(fd) /\ KeepsMask(fd)
  BY <1>2, <1>7 DEF Keeps, KeepsMask
<1>10. Registered' /\ RootReads' /\ Reported'
  BY <1>2, <1>9, Shrinking, ShrinkReported DEF Watched
<1>11. Unreported'
  BY <1>2, <1>6, <1>7 DEF Watched, Unreported, Listener
<1> QED BY <1>7, <1>8, <1>10, <1>11 DEF Watched

\* epoll_wait() turns the ready list into events.
LEMMA EpollWaitWatched == ASSUME Core, Watched, HandledFirst, EpollWait PROVE Watched'
<1>1. /\ pc = "ready" /\ current = <<>> /\ readyQueue = <<>>
      /\ UNCHANGED <<current, tlTimedOut, readyQueue, suspendedTasks, writeInterested, interest, level>>
  BY DEF EpollWait, suspVars
<1>2. events = {}
  BY <1>1 DEF HandledFirst
<1>3. MaskTypes' /\ LevelTypes'
  BY <1>1 DEF Watched, MaskTypes, LevelTypes, Listener
<1>4. Registered' /\ RootReads'
  BY <1>1 DEF Watched, Registered, RootReads
<1>5. ASSUME NEW fd \in Fds \cap DOMAIN suspendedTasks, level[fd] \cap Wanted(suspendedTasks[fd]) # {}
      PROVE  \E e \in events' : e.fd = fd /\ ShouldWake(suspendedTasks[fd], e.mask)
  <2> DEFINE m == level[fd] \cap (interest[fd] \cup {"ERR"})
             e == [fd |-> fd, mask |-> m]
  <2>1. fd \in readyList
    BY <1>2, <1>5 DEF Watched, Reported
  <2>2. fd \in DOMAIN interest /\ Wanted(suspendedTasks[fd]) \subseteq interest[fd] \cup {"ERR"}
    BY DEF Watched, Registered, MaskTypes, Wanted
  <2>3. level[fd] \in SUBSET {"IN", "OUT", "ERR"}
    BY DEF Watched, LevelTypes
  <2>4. m \in SUBSET {"IN", "OUT", "ERR"} /\ m # {} /\ m \cap Wanted(suspendedTasks[fd]) # {}
    BY <1>5, <2>2, <2>3
  <2>5. e \in [fd : readyList \cap DOMAIN interest, mask : SUBSET {"IN", "OUT", "ERR"}] /\ e.fd = fd /\ e.mask = m
    BY <2>1, <2>2, <2>4
  <2>6. e.mask = level[e.fd] \cap (interest[e.fd] \cup {"ERR"}) /\ e.mask # {}
    BY <2>4, <2>5
  <2>7. e \in events'
    BY <2>5, <2>6 DEF EpollWait
  <2>8. ShouldWake(suspendedTasks[fd], m)
    BY <2>4 DEF ShouldWake, Wanted
  <2> QED BY <2>5, <2>7, <2>8
<1>6. Reported'
  BY <1>1, <1>5 DEF Reported, Wanted, ShouldWake
<1>7. ~TimedOutRoot'
  <2>1. DOMAIN readyQueue' = {}
    BY <1>1
  <2>2. current' # <<Root>>
    BY <1>1
  <2> QED BY <2>1, <2>2 DEF TimedOutRoot
<1> QED BY <1>3, <1>4, <1>6, <1>7 DEF Watched, Unreported

\* An event of a socket is handled: who should wake does.
LEMMA HandleWatched == ASSUME Core, Watched, NEW e \in events, HandleEvent(e) PROVE Watched'
<1>1. /\ events' = events \ {e}
      /\ UNCHANGED <<current, tlTimedOut, writeInterested, interest, level, readyList>>
      /\ \/ e.fd \in DOMAIN suspendedTasks /\ WakeSuspended(e.fd, FALSE)
         \/ UNCHANGED <<readyQueue, suspendedTasks>>
  BY DEF HandleEvent, loopVars
<1>2. Shrinks /\ NoNewTimeout
  BY <1>1, WakeIsCalm DEF Core
<1>3. MaskTypes' /\ LevelTypes'
  BY <1>1 DEF Watched, MaskTypes, LevelTypes, Listener
<1>4. Registered' /\ RootReads'
  BY <1>1, <1>2 DEF Watched, Registered, RootReads, Shrinks
<1>5. ASSUME NEW fd \in Fds \cap DOMAIN suspendedTasks', level[fd] \cap Wanted(suspendedTasks'[fd]) # {}
      PROVE  fd \in readyList \/ \E x \in events' : x.fd = fd /\ ShouldWake(suspendedTasks'[fd], x.mask)
  <2>1. fd \in DOMAIN suspendedTasks /\ suspendedTasks'[fd] = suspendedTasks[fd]
    BY <1>2 DEF Shrinks
  <2>2. CASE fd \in readyList
    BY <2>2
  <2>3. CASE fd \notin readyList
    <3>1. PICK x \in events : x.fd = fd /\ ShouldWake(suspendedTasks[fd], x.mask)
      BY <1>5, <2>1, <2>3 DEF Watched, Reported
    <3>2. CASE x = e
      <4>1. WakeSuspended(fd, FALSE)
        BY <2>1, <3>1, <3>2 DEF HandleEvent
      <4>2. fd \notin DOMAIN suspendedTasks'
        BY <4>1 DEF WakeSuspended, Without, Restrict
      <4> QED BY <4>2
    <3> QED BY <1>1, <2>1, <3>1, <3>2
  <2> QED BY <2>2, <2>3
<1>6. Reported'
  BY <1>1, <1>5 DEF Reported, Wanted, ShouldWake
<1>7. Unreported'
  BY <1>1, <1>2, StillUnreported DEF Watched
<1> QED BY <1>3, <1>4, <1>6, <1>7 DEF Watched

\* A deadline expires: with no events left over, what the accept loop has not
\* seen is on the ready list.
LEMMA SweepWatched == ASSUME Core, Watched, HandledFirst, NEW d \in taskDeadlines, SweepDeadline(d) PROVE Watched'
<1>1. /\ pc = "sweep" /\ UNCHANGED <<current, tlTimedOut, writeInterested, interest, level, readyList, events>>
  BY DEF SweepDeadline, loopVars, epollVars
<1>2. events = {}
  BY <1>1 DEF HandledFirst
<1>3. Shrinks
  BY Shrinking DEF SweepDeadline, WakeSuspended
<1>4. CASE ~IsSuspendedUnder(d)
  <2>1. NoNewTimeout
    BY <1>4, SameReadyNoTimeout DEF SweepDeadline
  <2> QED BY <1>1, <1>3, <2>1, CalmWatched
<1>5. CASE IsSuspendedUnder(d)
  <2> DEFINE h == suspendedTasks[d.fd].handle
  <2>1. MaskTypes' /\ LevelTypes'
    BY <1>1 DEF Watched, MaskTypes, LevelTypes, Listener
  <2>2. Registered' /\ RootReads' /\ Reported'
    BY <1>1, <1>3, ShrinkReported DEF Watched, Keeps, KeepsMask
  <2>3. d.fd \in DOMAIN suspendedTasks /\ h \in Tasks /\ readyQueue' = Append(readyQueue, Ready(h, TRUE))
    BY <1>5 DEF IsSuspendedUnder, SweepDeadline, WakeSuspended, Core, Keyed, SuspendedTypes, Suspended
  <2>4. h = Root => d.fd = Listener /\ ~suspendedTasks[Listener].waitingForWrite
    BY <2>3 DEF Watched, RootReads
  <2>5. h = Root => Listener \in DOMAIN interest /\ ("IN" \in level[Listener] => Listener \in readyList)
    <3> SUFFICES ASSUME h = Root PROVE Listener \in DOMAIN interest /\ ("IN" \in level[Listener] => Listener \in readyList)
      OBVIOUS
    <3>1. Listener \in Fds \cap DOMAIN suspendedTasks /\ Wanted(suspendedTasks[Listener]) = {"ERR", "IN"}
      BY <2>3, <2>4, ListenerIsFd DEF Wanted
    <3> QED BY <1>2, <3>1 DEF Watched, Registered, Reported
  <2> HIDE DEF h
  <2>6. \A i \in DOMAIN readyQueue' :
          \/ i \in DOMAIN readyQueue /\ readyQueue'[i] = readyQueue[i]
          \/ readyQueue'[i].task = h
    BY <2>3, Appending DEF Core
  <2>7. TimedOutRoot' => TimedOutRoot \/ h = Root
    BY <1>1, <2>6 DEF TimedOutRoot
  <2>8. Unreported'
    BY <1>1, <2>5, <2>7 DEF Watched, Unreported, Listener
  <2> QED BY <2>1, <2>2, <2>8 DEF Watched
<1> QED BY <1>4, <1>5

\* The turn of the loop.
LEMMA LoopWatched == ASSUME Core, Watched, HandledFirst, Loop PROVE Watched'
<1>1. CASE TopOfLoop
  <2>1. UNCHANGED <<suspendedTasks, writeInterested, interest, level, readyList, events, current, tlTimedOut>>
    BY <1>1 DEF TopOfLoop, suspVars, epollVars
  <2>2. NoNewTimeout
    <3>1. CASE UNCHANGED readyQueue
      BY <3>1, SameReadyNoTimeout
    <3>2. CASE readyQueue' = readyQueue \o ReadyAll(CompletedHandles) /\ pendingOps' = OpsLeft
      <4>1. UNCHANGED <<suspendedTasks, preps, poolResumeQueue, poolJobs, current, ownedTasks>>
        BY <1>1 DEF TopOfLoop, suspVars, postVars, ownVars
      <4> QED BY <3>2, <4>1, CompletedStep DEF Core, NoNewTimeout
    <3> QED BY <1>1, <3>1, <3>2 DEF TopOfLoop
  <2> QED BY <2>1, <2>2, CalmWatched, Shrinking
<1>2. ASSUME NEW e \in events, ReadEventFd(e) PROVE Watched'
  <2>1. /\ e.fd = EventFd /\ events' = events \ {e}
        /\ UNCHANGED <<suspendedTasks, writeInterested, interest, level, readyList, readyQueue, current, tlTimedOut>>
    BY <1>2 DEF ReadEventFd, suspVars
  <2>2. EventFd \notin Fds
    BY ExecutorAssumption DEF EventFd
  <2> QED BY <2>1, <2>2, CalmWatched, Shrinking, SameReadyNoTimeout
<1>3. CASE DrainPoolResumeQueue
  <2>1. UNCHANGED <<suspendedTasks, writeInterested, interest, level, readyList, events, current, tlTimedOut>>
    BY <1>3 DEF DrainPoolResumeQueue, suspVars, epollVars
  <2>2. NoNewTimeout
    BY <1>3, DrainStep DEF Core, NoNewTimeout
  <2> QED BY <2>1, <2>2, CalmWatched, Shrinking
<1>4. CASE EventsHandled
  <2>1. UNCHANGED <<suspendedTasks, writeInterested, interest, level, readyList, events, readyQueue, current, tlTimedOut>>
    BY <1>4 DEF EventsHandled, suspVars, epollVars
  <2> QED BY <2>1, CalmWatched, Shrinking, SameReadyNoTimeout
<1>5. CASE EndOfTurn
  <2>1. /\ UNCHANGED <<writeInterested, interest, level, readyList, events, current, tlTimedOut>>
        /\ PrepAndSubmit /\ WakeSlot(wakeUpQueue[wakeTime])
        /\ UNCHANGED <<poolResumeQueue, poolJobs, current, ownedTasks>>
    BY <1>5 DEF EndOfTurn, epollVars, postVars, ownVars
  <2>2. Shrinks /\ NoNewTimeout
    BY <2>1, TurnStep DEF Core, Shrinks, NoNewTimeout
  <2> QED BY <2>1, <2>2, CalmWatched
<1> QED BY <1>1, <1>2, <1>3, <1>4, <1>5, ResumeWatched, EpollWaitWatched, HandleWatched, SweepWatched DEF Loop

\* A socket becomes ready: whoever waits for that has it on the ready list.
LEMMA SocketWatched ==
  ASSUME Core, Watched, NEW fd \in Fds, NEW what \in SUBSET {"IN", "OUT", "ERR"}, "ERR" \in what => fd # Listener,
         SocketEvent(fd, what)
  PROVE  Watched'
<1>1. /\ level' = [level EXCEPT ![fd] = @ \cup what] /\ readyList \subseteq readyList'
      /\ (fd \in DOMAIN interest /\ what \cap (interest[fd] \cup {"ERR"}) # {} => fd \in readyList')
      /\ UNCHANGED <<readyQueue, suspendedTasks, writeInterested, interest, events, current, tlTimedOut>>
  BY DEF SocketEvent, loopVars, suspVars
<1>2. level \in [Fds -> SUBSET {"IN", "OUT", "ERR"}] /\ "ERR" \notin level[Listener]
  BY DEF Watched, LevelTypes
<1>3. /\ level' \in [Fds -> SUBSET {"IN", "OUT", "ERR"}]
      /\ level'[fd] = level[fd] \cup what /\ \A x \in Fds : x # fd => level'[x] = level[x]
  BY <1>1, <1>2
<1>4. MaskTypes' /\ LevelTypes'
  <2>1. "ERR" \notin level'[Listener]
    BY <1>2, <1>3, ListenerIsFd
  <2> QED BY <1>1, <1>3, <2>1 DEF Watched, MaskTypes, LevelTypes, Listener
<1>5. Registered' /\ RootReads'
  BY <1>1 DEF Watched, Registered, RootReads
<1>6. ASSUME NEW f \in Fds \cap DOMAIN suspendedTasks, level'[f] \cap Wanted(suspendedTasks[f]) # {}
      PROVE  f \in readyList' \/ \E e \in events : e.fd = f /\ ShouldWake(suspendedTasks[f], e.mask)
  <2>1. CASE level[f] \cap Wanted(suspendedTasks[f]) # {}
    BY <1>1, <2>1 DEF Watched, Reported
  <2>2. CASE level[f] \cap Wanted(suspendedTasks[f]) = {}
    <3>1. f = fd /\ what \cap Wanted(suspendedTasks[fd]) # {}
      BY <1>3, <1>6, <2>2
    <3>2. fd \in DOMAIN interest /\ Wanted(suspendedTasks[fd]) \subseteq interest[fd] \cup {"ERR"}
      BY <3>1 DEF Watched, Registered, MaskTypes, Wanted
    <3> QED BY <1>1, <3>1, <3>2
  <2> QED BY <2>1, <2>2
<1>7. Reported'
  BY <1>1, <1>6 DEF Reported, Wanted, ShouldWake
<1>8. Unreported'
  <2> SUFFICES ASSUME TimedOutRoot' PROVE Listener \in DOMAIN interest' /\ ("IN" \in level'[Listener] => Listener \in readyList')
    BY DEF Unreported, Listener
  <2>1. Listener \in DOMAIN interest /\ ("IN" \in level[Listener] => Listener \in readyList)
    BY <1>1 DEF Watched, Unreported, TimedOutRoot
  <2>2. "IN" \in interest[Listener]
    BY <2>1 DEF Watched, MaskTypes
  <2> QED BY <1>1, <1>3, <2>1, <2>2, ListenerIsFd
<1> QED BY <1>4, <1>5, <1>7, <1>8 DEF Watched

\* Pool threads, the kernel and time.
LEMMA EnvironmentWatched == ASSUME Core, Watched, Environment PROVE Watched'
<1>1. ASSUME UNCHANGED <<suspendedTasks, writeInterested, interest, level, events, readyQueue, current, tlTimedOut>>,
             readyList \subseteq readyList'
      PROVE  Watched'
  BY <1>1, CalmWatched, Shrinking, SameReadyNoTimeout
<1>2. ASSUME NEW t \in Tasks, PostPush(t) \/ PostSignal(t) PROVE Watched'
  BY <1>1, <1>2 DEF PostPush, PostSignal, suspVars, epollVars, loopVars
<1>3. CASE PeerConnects
  BY <1>3, SocketWatched, ListenerIsFd DEF PeerConnects
<1>4. ASSUME NEW t \in Tasks, PeerSends(t) \/ PeerReads(t) \/ PeerHangsUp(t) PROVE Watched'
  <2>1. FdOf[t] \in Fds /\ t \in Live /\ t # Root
    BY <1>4, ExecutorAssumption DEF PeerSends, PeerReads, PeerHangsUp, Uses
  <2>2. FdOf[t] # Listener
    BY <2>1 DEF Core, Owned
  <2>3. PICK what \in SUBSET {"IN", "OUT", "ERR"} : SocketEvent(FdOf[t], what)
    BY <1>4 DEF PeerSends, PeerReads, PeerHangsUp
  <2> QED BY <2>1, <2>2, <2>3, SocketWatched
<1>5. ASSUME NEW u \in inflight, Complete(u) PROVE Watched'
  BY <1>1, <1>5 DEF Complete, suspVars, epollVars, loopVars
<1>6. CASE Tick \/ SignalShutdown
  BY <1>1, <1>6 DEF Tick, SignalShutdown, suspVars, epollVars, loopVars
<1> QED BY <1>2, <1>3, <1>4, <1>5, <1>6 DEF Environment

\* No event is left over when epoll_wait() is called, and what is suspended is
\* watched.
LEMMA WatchedInvariant == Spec => []Watched
<1>1. Init => Watched
  <2> SUFFICES ASSUME Init PROVE Watched
    OBVIOUS
  <2>1. /\ interest = <<>> /\ writeInterested = {} /\ suspendedTasks = <<>> /\ current = <<>>
        /\ level = [fd \in Fds |-> {}] /\ readyQueue = <<Ready(Root, FALSE)>>
    BY DEF Init
  <2>2. DOMAIN interest = {} /\ DOMAIN suspendedTasks = {}
    BY <2>1
  <2>3. interest \in [DOMAIN interest -> SUBSET {"IN", "OUT"}]
    BY <2>1
  <2>4. MaskTypes
    BY <2>1, <2>2, <2>3 DEF MaskTypes
  <2>5. LevelTypes
    BY <2>1, ListenerIsFd DEF LevelTypes
  <2>6. Registered /\ RootReads /\ Reported
    BY <2>2 DEF Registered, RootReads, Reported
  <2>7. \A i \in DOMAIN readyQueue : ~readyQueue[i].timedOut
    BY <2>1 DEF Ready
  <2>8. Unreported
    BY <2>1, <2>7 DEF Unreported, TimedOutRoot
  <2> QED BY <2>4, <2>5, <2>6, <2>8 DEF Watched
<1>2. Core /\ HandledFirst /\ Watched /\ [Next]_vars => Watched'
  <2> SUFFICES ASSUME Core, HandledFirst, Watched, [Next]_vars PROVE Watched'
    OBVIOUS
  <2>1. CASE UNCHANGED vars
    <3>1. UNCHANGED <<suspendedTasks, writeInterested, interest, level, readyList, events, readyQueue, current, tlTimedOut>>
      BY <2>1 DEF vars, loopVars, suspVars, epollVars
    <3> QED BY <3>1, CalmWatched, Shrinking, SameReadyNoTimeout
  <2> QED BY <2>1, CoroutineWatched, LoopWatched, EnvironmentWatched DEF Next
<1>3. IInv => HandledFirst
  BY DEF IInv
<1> QED BY <1>1, <1>2, <1>3, CoreInvariant, PostInvariant, PTL DEF Spec

\* Edge-triggered epoll never leaves a coroutine suspended on a socket that is
\* ready for it without a report to come, also not the accept loop that waits
\* again after a timeout without trying (run(), the awaitables and
\* enableWriteEvents() of the executor).
THEOREM NoReadinessIsLost == Spec => []NoLostReadiness
<1>1. Watched => NoLostReadiness
  <2> SUFFICES ASSUME Watched, NEW fd \in Fds \cap DOMAIN suspendedTasks,
                      level[fd] \cap Wanted(suspendedTasks[fd]) # {}
               PROVE  \/ fd \in readyList /\ Wanted(suspendedTasks[fd]) \subseteq interest[fd] \cup {"ERR"}
                      \/ \E e \in events : e.fd = fd /\ ShouldWake(suspendedTasks[fd], e.mask)
    BY DEF NoLostReadiness, Wanted
  <2>1. fd \in readyList \/ \E e \in events : e.fd = fd /\ ShouldWake(suspendedTasks[fd], e.mask)
    BY DEF Watched, Reported
  <2>2. Wanted(suspendedTasks[fd]) \subseteq interest[fd] \cup {"ERR"}
    BY DEF Watched, Registered, MaskTypes, Wanted
  <2> QED BY <2>1, <2>2
<1> QED BY <1>1, WatchedInvariant, PTL

\* The owned tasks and their index, the masks of epoll, the operations of
\* io_uring: the tables agree in every state (spawn(), markRootFinished(),
\* enableWriteEvents(), drainCompletions()).
THEOREM TablesAlwaysAgree == Spec => []TablesAgree
<1>1. ASSUME Owned PROVE DOMAIN ownedTaskMap = Live /\ Len(ownedTasks) = Cardinality(Live)
  <2> DEFINE n == Len(ownedTasks)
  <2>1. n \in Nat /\ DOMAIN ownedTasks = 1..n /\ \A i \in 1..n : ownedTasks[i] \in Live
    BY <1>1 DEF Owned, Live, Range
  <2>2. ownedTasks = [i \in 1..n |-> ownedTasks[i]]
    BY <1>1, <2>1 DEF Owned
  <2>3. \A i, j \in 1..n : ownedTasks[i] = ownedTasks[j] => i = j
    <3> SUFFICES ASSUME NEW i \in 1..n, NEW j \in 1..n, ownedTasks[i] = ownedTasks[j] PROVE i = j
      OBVIOUS
    <3>1. ownedTaskMap[ownedTasks[i]] = i - 1 /\ ownedTaskMap[ownedTasks[j]] = j - 1
      BY <1>1, <2>1 DEF Owned
    <3>2. i - 1 = j - 1
      BY <3>1
    <3> QED BY <3>2
  <2>4. \A t \in Live : \E i \in 1..n : ownedTasks[i] = t
    BY <2>1 DEF Live, Range
  <2>5. n \in Nat /\ ExistsBijection(1..n, Live)
    <3>1. ownedTasks \in [1..n -> Live]
      BY <2>1, <2>2
    <3> HIDE DEF n
    <3>2. ownedTasks \in Bijection(1..n, Live)
      BY <2>3, <2>4, <3>1 DEF Bijection, Injection, Surjection, IsInjective
    <3> QED BY <2>1, <3>2 DEF ExistsBijection
  <2> HIDE DEF n
  <2>6. Cardinality(Live) = n
    BY <2>5, FS_CountingElements
  <2> QED BY <1>1, <2>6 DEF Owned, n
<1>2. ASSUME Numbered, NEW u \in inflight \cup Range(completions)
      PROVE  Cardinality({k \in OpKinds : u \in DOMAIN pendingOps[k]}) = 1
  <2> DEFINE S == {k \in OpKinds : u \in DOMAIN pendingOps[k]}
  <2>1. S # {} /\ \A x, y \in S : x = y
    BY <1>2 DEF Numbered, KernelsAreKnown, MapsDiffer
  <2> HIDE DEF S
  <2>2. Cardinality(S) = IF S = {} THEN 0 ELSE 1
    BY <2>1, OneOrNone
  <2> QED BY <2>1, <2>2 DEF S
<1>3. Core /\ Watched => TablesAgree
  <2> SUFFICES ASSUME Core, Watched PROVE TablesAgree
    OBVIOUS
  <2>1. DOMAIN ownedTaskMap = Live /\ Len(ownedTasks) = Cardinality(Live)
    BY <1>1 DEF Core
  <2>2. \A t \in Live : ownedTaskMap[t] + 1 \in DOMAIN ownedTasks /\ ownedTasks[ownedTaskMap[t] + 1] = t
    BY DEF Core, Owned
  <2>3. \A fd \in Fds : fd \in writeInterested <=> fd \in DOMAIN interest /\ "OUT" \in interest[fd]
    BY DEF Watched, MaskTypes
  <2>4. \A u \in inflight \cup Range(completions) : Cardinality({k \in OpKinds : u \in DOMAIN pendingOps[k]}) = 1
    BY <1>2 DEF Core
  <2> QED BY <2>1, <2>2, <2>3, <2>4 DEF TablesAgree
<1> QED BY <1>3, CoreInvariant, WatchedInvariant, PTL
=============================================================================
