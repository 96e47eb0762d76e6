------------------------------ MODULE Executor ------------------------------
(***************************************************************************)
(* The coroutine executor of one worker thread (rukh/core/Executor): the   *)
(* ready queue, the table of suspended coroutines with their deadlines,    *)
(* edge-triggered epoll, the eventfd through which pool threads post       *)
(* coroutines, io_uring file operations, timed wake-ups and shutdown.      *)
(*                                                                         *)
(* A root coroutine ("task") is a member of Tasks and is its own handle.   *)
(* What a coroutine does between two suspensions is abstracted to the      *)
(* executor calls it makes; payloads, buffers and results are left out.    *)
(* Root is an accept loop (HttpServer::tcpAcceptLoop); the other tasks are *)
(* connections (HttpServer::handleConnection) that suspend as they like.   *)
(* Three actors interleave with the loop: pool threads (PostPush,          *)
(* PostSignal), the kernel (socket readiness, completions) and time.       *)
(*                                                                         *)
(* Two data abstractions keep behaviours infinite and states few.          *)
(*  - Deadlines are kept as the time that is left, 0 meaning expired, and  *)
(*    Tick lets a unit of time pass for all of them.                       *)
(*  - The counters nextSeq_, nextUserData_ and syntheticEventKey_ only     *)
(*    ever supply a number that is not in use; the model draws the least   *)
(*    such number.  Wrap-around of these 64-bit counters is left out.      *)
(*                                                                         *)
(* A definition marked "seeded fault" is not part of the model: it is the  *)
(* definition that follows it with a plausible mistake, kept to show that  *)
(* the properties notice the mistake.                                      *)
(***************************************************************************)
EXTENDS Integers, Sequences, FiniteSets, FiniteSetsExt, Functions

CONSTANTS
  Tasks,            \* root coroutines
  Root,             \* the one spawned before run(): an accept loop
  Fds,              \* sockets
  FdOf,             \* the socket a coroutine serves, again each time it connects
  NullHandle,       \* std::coroutine_handle<>{}
  Workloads,        \* which suspensions each may use; one that uses none stays away
  Timeouts,         \* deadlines are now + one of these
  Cycles,           \* arguments given to wakeMeIn
  MaxWakeupTurn,    \* MAX_WAKEUP_TURN
  SqSize,           \* submission queue entries of the ring
  GracePeriod,      \* GRACEFUL_SHUTDOWN_TIMEOUT_S
  MaxDeadlines      \* bound: peers pause at this many deadlines of a socket, coroutines
                    \* wait for no further event at this many of events

AllOps == {"read", "write", "event", "wakein", "file", "splice", "pool"}
Stops == "stop"   \* the accept loop uses it where the shutdown flag may be set
OpKinds == {"file", "splice"}
EventFd == -1     \* eventFd_ among the fds epoll reports; no socket has it

ASSUME ExecutorAssumption ==
  /\ Root \in Tasks
  /\ NullHandle \notin Tasks
  /\ Fds \subseteq Nat
  /\ FdOf \in [Tasks -> Fds]
  /\ Workloads \subseteq [Tasks -> SUBSET (AllOps \cup {Stops})]
  /\ Timeouts \subseteq Nat
  /\ Cycles \subseteq Nat
  /\ MaxWakeupTurn \in Nat \ {0}
  /\ SqSize \in Nat \ {0}
  /\ GracePeriod \in Nat
  /\ MaxDeadlines \in Nat

VARIABLES
  pc,                 \* phase of the loop in run()
  current,            \* <<task>> being resumed, or <<>>
  tlTimedOut,         \* tl_timed_out
  readyQueue,         \* readyQueue_
  suspendedTasks,     \* suspendedTasks_: key -> SuspendedTask
  taskDeadlines,      \* taskDeadlines_
  eventKeys,          \* keys returned by waitForEvent and not yet fired
  writeInterested,    \* writeInterested_
  interest,           \* kernel: epoll interest list, fd -> mask
  level,              \* kernel: current readiness of each socket
  readyList,          \* kernel: epoll's ready list (fds with a pending edge)
  events,             \* what epoll_wait returned and run() has not handled yet
  eventFdSet,         \* kernel: the eventfd counter is non-zero
  poolResumeQueue,    \* poolResumeQueue_
  poolJobs,           \* coroutines whose job is still with a pool thread
  posting,            \* pool threads in post() that pushed but did not write yet
  preps,              \* pendingFileOpPreps_, pendingSpliceOpPreps_
  pendingOps,         \* pendingFileOps_, pendingSpliceOps_: userData -> handle
  inflight,           \* kernel: userData of submitted operations
  completions,        \* kernel: the completion queue
  wakeUpQueue,        \* wakeUpQueue_
  wakeTime,           \* wakeTime_ % MAX_WAKEUP_TURN, all the code uses of it
  ownedTasks,         \* ownedTasks_
  ownedTaskMap,       \* ownedTaskMap_, a 0-based index as in the code
  awaiting,           \* the awaitable in each coroutine's frame
  workload,           \* the one of Workloads this behaviour is about
  shutdown,           \* the flag run() is given
  shutdownDeadline    \* local of run(): -1 is time_point::max()

loopVars  == <<pc, current, tlTimedOut>>
suspVars  == <<suspendedTasks, taskDeadlines, eventKeys>>
epollVars == <<writeInterested, interest, level, readyList, events>>
postVars  == <<eventFdSet, poolResumeQueue, poolJobs, posting>>
uringVars == <<preps, pendingOps, inflight, completions>>
wakeVars  == <<wakeUpQueue, wakeTime>>
ownVars   == <<ownedTasks, ownedTaskMap>>
runVars   == <<workload, shutdown, shutdownDeadline>>
vars == <<loopVars, readyQueue, suspVars, epollVars, postVars, uringVars,
          wakeVars, ownVars, awaiting, runVars>>

-----------------------------------------------------------------------------
(* Helpers *)

Without(f, k) == Restrict(f, DOMAIN f \ {k})
With(f, k, v) == [x \in DOMAIN f \cup {k} |-> IF x = k THEN v ELSE f[x]]
Fresh(used) == CHOOSE n \in 0..Cardinality(used) : n \notin used

NotAwaiting == [op |-> "none", left |-> 0]
Ready(h, t) == [task |-> h, timedOut |-> t]
ReadyAll(hs) == [i \in DOMAIN hs |-> Ready(hs[i], FALSE)]

Running(t) == pc = "ready" /\ current = <<t>>
Looping == pc \notin {"returned", "crashed"}
Live == Range(ownedTasks)
Listener == FdOf[Root]
\* Those who may connect: the kernel hands out an fd that no live one holds.
Callers == {c \in Tasks \ (Live \cup {Root}) :
              workload[c] # {} /\ \A d \in Live : FdOf[d] # FdOf[c]}
Uses(t, op) == t # Root /\ op \in workload[t]
Quiet(keys) == Cardinality({d \in taskDeadlines : d.fd \in keys}) < MaxDeadlines

FreshSeq == Fresh({d.suspensionSeq : d \in taskDeadlines}
                  \cup {s.suspensionSeq : s \in Range(suspendedTasks)})
FreshKey ==
  -1 - Fresh({-1 - k : k \in {d.fd : d \in taskDeadlines}
                         \cup DOMAIN suspendedTasks \cup eventKeys
                         \cup UNION {Range(wakeUpQueue[i]) : i \in DOMAIN wakeUpQueue}})
FreshUserData ==
  Fresh(UNION {{p.userData : p \in Range(preps[k])} \cup DOMAIN pendingOps[k]
                 : k \in OpKinds})

-----------------------------------------------------------------------------
\* workerMain has spawned the accept loop and calls run().
Init ==
  /\ pc = "top" /\ current = <<>> /\ tlTimedOut = FALSE
  /\ readyQueue = <<Ready(Root, FALSE)>>
  /\ suspendedTasks = <<>> /\ taskDeadlines = {} /\ eventKeys = {}
  /\ writeInterested = {} /\ interest = <<>>
  /\ level = [fd \in Fds |-> {}] /\ readyList = {} /\ events = {}
  /\ eventFdSet = FALSE
  /\ poolResumeQueue = <<>> /\ poolJobs = {} /\ posting = {}
  /\ preps = [k \in OpKinds |-> <<>>]
  /\ pendingOps = [k \in OpKinds |-> <<>>]
  /\ inflight = {} /\ completions = <<>>
  /\ wakeUpQueue = [i \in 0..MaxWakeupTurn - 1 |-> <<>>] /\ wakeTime = 0
  /\ ownedTasks = <<Root>> /\ ownedTaskMap = With(<<>>, Root, 0)
  /\ awaiting = [t \in Tasks |-> NotAwaiting]
  /\ workload \in Workloads
  /\ shutdown = FALSE /\ shutdownDeadline = -1

-----------------------------------------------------------------------------
(* epoll_ctl and the pieces of a suspension *)

\* EPOLL_CTL_ADD and EPOLL_CTL_MOD queue the fd when it is ready for the new
\* mask, whatever was reported before.
EpollCtl(fd, mask) ==
  /\ interest' = With(interest, fd, mask)
  /\ readyList' = IF level[fd] \cap (mask \cup {"ERR"}) # {}
                  THEN readyList \cup {fd} ELSE readyList

\* No epoll_ctl when the fd is already in the set.
EnableWriteEvents(fd) ==
  IF fd \in writeInterested
  THEN UNCHANGED <<writeInterested, interest, readyList>>
  ELSE /\ writeInterested' = writeInterested \cup {fd}
       /\ EpollCtl(fd, {"IN", "OUT"})

\* No epoll_ctl when the fd is not in the set.
DisableWriteEvents(fd) ==
  IF fd \notin writeInterested
  THEN UNCHANGED <<writeInterested, interest, readyList>>
  ELSE /\ writeInterested' = writeInterested \ {fd}
       /\ EpollCtl(fd, {"IN"})

\* The entry a suspension leaves in suspendedTasks_: an earlier entry under
\* the same key is overwritten.
SuspendOn(key, t, write) ==
  suspendedTasks' = With(suspendedTasks, key,
    [handle |-> t, waitingForWrite |-> write, suspensionSeq |-> FreshSeq])

\* Earlier deadlines of the key stay queued.
NoDeadline(key, timeout) == UNCHANGED taskDeadlines  \* seeded fault
SetDeadline(key, timeout) ==
  taskDeadlines' = taskDeadlines \cup
    {[left |-> timeout, fd |-> key, suspensionSeq |-> FreshSeq]}

\* A suspended coroutine becomes ready, once.
WakeSuspendedKeepingEntry(key, timedOut) ==  \* seeded fault
  /\ readyQueue' = Append(readyQueue, Ready(suspendedTasks[key].handle, timedOut))
  /\ UNCHANGED suspendedTasks
WakeSuspended(key, timedOut) ==
  /\ readyQueue' = Append(readyQueue, Ready(suspendedTasks[key].handle, timedOut))
  /\ suspendedTasks' = Without(suspendedTasks, key)

\* await_suspend returns and with it resume(): the flag is cleared.
Leave(t, op, timeout) ==
  /\ current' = <<>> /\ tlTimedOut' = FALSE
  /\ awaiting' = [awaiting EXCEPT ![t] = [op |-> op, left |-> timeout]]
  /\ UNCHANGED pc

-----------------------------------------------------------------------------
(* Calls a running coroutine makes *)

WaitForRead(t, timeout) ==
  /\ SuspendOn(FdOf[t], t, FALSE)
  /\ SetDeadline(FdOf[t], timeout)
  /\ Leave(t, "read", timeout)

\* recv() or send() would block: no data, no room, no error to report.
NeverTried(fd, direction) == TRUE  \* seeded fault
WouldBlock(fd, direction) == level[fd] \cap {direction, "ERR"} = {}

\* A ReadDataAwaitable reads until the socket would block before it suspends.
ReadOrSuspend(t, timeout) ==
  /\ Running(t) /\ Uses(t, "read")
  /\ FdOf[t] \in DOMAIN interest
  /\ \/ /\ ~WouldBlock(FdOf[t], "IN")
        /\ level' = [level EXCEPT ![FdOf[t]] = @ \ {"IN"}]
        /\ UNCHANGED <<loopVars, suspVars, awaiting>>
     \/ /\ WouldBlock(FdOf[t], "IN")
        /\ WaitForRead(t, timeout)
        /\ UNCHANGED <<level, eventKeys>>
  /\ UNCHANGED <<readyQueue, writeInterested, interest, readyList, events,
                 postVars, uringVars, wakeVars, ownVars, runVars>>

WaitForWrite(t, timeout) ==
  /\ SuspendOn(FdOf[t], t, TRUE)
  /\ SetDeadline(FdOf[t], timeout)
  /\ Leave(t, "write", timeout)

\* Sending until the socket would block, then waiting for room
\* (WriteDataAwaitable, and WriteAwaitable after an EAGAIN).
WriteOrSuspend(t, timeout) ==
  /\ Running(t) /\ Uses(t, "write")
  /\ FdOf[t] \in DOMAIN interest
  /\ \/ /\ ~WouldBlock(FdOf[t], "OUT")
        /\ level' = [level EXCEPT ![FdOf[t]] = @ \ {"OUT"}]
        /\ UNCHANGED <<loopVars, suspVars, writeInterested, interest, readyList,
                       awaiting>>
     \/ /\ WouldBlock(FdOf[t], "OUT")
        /\ EnableWriteEvents(FdOf[t])
        /\ WaitForWrite(t, timeout)
        /\ UNCHANGED <<level, eventKeys>>
  /\ UNCHANGED <<readyQueue, events, postVars, uringVars, wakeVars, ownVars,
                 runVars>>

WaitForEvent(t, timeout) ==
  /\ Running(t) /\ Uses(t, "event")
  /\ Quiet(Int \ Fds) /\ Cardinality(eventKeys) < MaxDeadlines
  /\ SuspendOn(FreshKey, t, FALSE)
  /\ SetDeadline(FreshKey, timeout)
  /\ eventKeys' = eventKeys \cup {FreshKey}
  /\ Leave(t, "event", timeout)
  /\ UNCHANGED <<readyQueue, epollVars, postVars, uringVars, wakeVars, ownVars,
                 runVars>>

\* The key may be the one of a coroutine that has timed out since.
FireEvent(t, key) ==
  /\ Running(t) /\ t # Root
  /\ key \in eventKeys
  /\ eventKeys' = eventKeys \ {key}
  /\ IF key \in DOMAIN suspendedTasks
     THEN WakeSuspended(key, FALSE)
     ELSE UNCHANGED <<readyQueue, suspendedTasks>>
  /\ UNCHANGED <<loopVars, taskDeadlines, epollVars, postVars, uringVars,
                 wakeVars, ownVars, awaiting, runVars>>

WakeMeIn(t, cycles) ==
  /\ Running(t) /\ Uses(t, "wakein")
  /\ SuspendOn(FreshKey, t, FALSE)
  /\ wakeUpQueue' = [wakeUpQueue EXCEPT ![(wakeTime + cycles) % MaxWakeupTurn]
                       = Append(@, FreshKey)]
  /\ Leave(t, "wakein", 0)
  /\ UNCHANGED <<readyQueue, taskDeadlines, eventKeys, epollVars, postVars,
                 uringVars, wakeTime, ownVars, runVars>>

\* submitFileRead(), submitFileWrite() and submitSplice().
SubmitOp(t, kind) ==
  /\ Running(t) /\ Uses(t, kind)
  /\ preps' = [preps EXCEPT ![kind] =
                 Append(@, [userData |-> FreshUserData, handle |-> t])]
  /\ Leave(t, kind, 0)
  /\ UNCHANGED <<readyQueue, suspVars, epollVars, postVars, pendingOps,
                 inflight, completions, wakeVars, ownVars, runVars>>

\* Suspending on a job of the thread pool: its handle is with the job.
AwaitPoolJob(t) ==
  /\ Running(t) /\ Uses(t, "pool")
  /\ poolJobs' = poolJobs \cup {t}
  /\ Leave(t, "pool", 0)
  /\ UNCHANGED <<readyQueue, suspVars, epollVars, eventFdSet, poolResumeQueue,
                 posting, uringVars, wakeVars, ownVars,
                 runVars>>

-----------------------------------------------------------------------------
(* Roots: spawning, the accept loop, the end of a connection *)

SpawnTask(c) ==
  /\ ownedTaskMap' = With(ownedTaskMap, c, Len(ownedTasks))
  /\ ownedTasks' = Append(ownedTasks, c)
  /\ readyQueue' = Append(readyQueue, Ready(c, FALSE))

Accept(c) ==
  /\ Running(Root) /\ ~tlTimedOut
  /\ "IN" \in level[Listener]
  /\ c \in Callers
  /\ SpawnTask(c)
  /\ level' = [level EXCEPT ![Listener] = @ \ {"IN"}, ![FdOf[c]] = {"OUT"}]
  /\ UNCHANGED <<loopVars, suspVars, writeInterested, interest, readyList,
                 events, postVars, uringVars, wakeVars, awaiting, runVars>>

\* registerReadFd(), then a ReadAwaitable that suspends without trying first.
AcceptLoopStart(timeout) ==
  /\ Running(Root)
  /\ Listener \notin DOMAIN interest
  /\ EpollCtl(Listener, {"IN"})
  /\ WaitForRead(Root, timeout)
  /\ UNCHANGED <<readyQueue, eventKeys, writeInterested, level, events,
                 postVars, uringVars, wakeVars, ownVars, runVars>>

\* Back to the ReadAwaitable: after a timeout without trying to accept, else
\* once accept() has nothing more to give.
AcceptLoopWait(timeout) ==
  /\ Running(Root)
  /\ Listener \in DOMAIN interest
  /\ IF tlTimedOut THEN ~shutdown ELSE "IN" \notin level[Listener]
  /\ WaitForRead(Root, timeout)
  /\ UNCHANGED <<readyQueue, eventKeys, epollVars, postVars, uringVars,
                 wakeVars, ownVars, runVars>>

\* The first thing a connection does.
RegisterReadFd(t) ==
  /\ Running(t) /\ t # Root
  /\ FdOf[t] \notin DOMAIN interest
  /\ EpollCtl(FdOf[t], {"IN"})
  /\ UNCHANGED <<loopVars, readyQueue, suspVars, writeInterested, level, events,
                 postVars, uringVars, wakeVars, ownVars, awaiting, runVars>>

\* A finished root: markRootFinished, then the ready loop moves the last task
\* into its place and destroys the frame.
ReapRootKeepingIndex(t) ==  \* seeded fault
  LET last  == Len(ownedTasks) - 1
      moved == ownedTasks[last + 1]
  IN /\ ownedTasks' = SubSeq([ownedTasks EXCEPT ![ownedTaskMap[t] + 1] = moved], 1, last)
     /\ ownedTaskMap' = Without(ownedTaskMap, t)
ReapRoot(t) ==
  LET index == ownedTaskMap[t]
      last  == Len(ownedTasks) - 1
      moved == ownedTasks[last + 1]
  IN /\ ownedTasks' = SubSeq([ownedTasks EXCEPT ![index + 1] = moved], 1, last)
     /\ ownedTaskMap' = Without([ownedTaskMap EXCEPT ![moved] = index], t)

Finish(t) ==
  /\ current' = <<>> /\ tlTimedOut' = FALSE /\ UNCHANGED pc
  /\ awaiting' = [awaiting EXCEPT ![t] = NotAwaiting]
  /\ ReapRoot(t)

\* The frame of a connection owns its stream: closing the fd takes it off
\* epoll's lists.
CloseFd(fd) ==
  /\ interest' = Without(interest, fd)
  /\ readyList' = readyList \ {fd}
  /\ level' = [level EXCEPT ![fd] = {}]

\* unregister(); CloseFd covers its epoll_ctl.
Unregister(fd) ==
  /\ writeInterested' = writeInterested \ {fd}
  /\ suspendedTasks' = Without(suspendedTasks, fd)

\* run() of the connection returned: unregister(fd) and the end.
ConnectionReturns(t) ==
  /\ Running(t) /\ t # Root
  /\ FdOf[t] \in DOMAIN interest
  /\ Unregister(FdOf[t])
  /\ CloseFd(FdOf[t])
  /\ Finish(t)
  /\ UNCHANGED <<readyQueue, taskDeadlines, eventKeys, events, postVars,
                 uringVars, wakeVars, runVars>>

\* An exception left run(): the promise swallows it and unregister(fd) is
\* skipped.  It can only come from a read, with no write pending.
ConnectionThrows(t) ==
  /\ Running(t) /\ t # Root
  /\ FdOf[t] \in DOMAIN interest
  /\ FdOf[t] \notin writeInterested
  /\ CloseFd(FdOf[t])
  /\ Finish(t)
  /\ UNCHANGED <<readyQueue, suspVars, writeInterested, events, postVars,
                 uringVars, wakeVars, runVars>>

\* The accept loop ends at a timeout once shutdown is set.  Its listener stays
\* open and registered.
AcceptLoopReturns ==
  /\ Running(Root) /\ tlTimedOut /\ shutdown
  /\ Finish(Root)
  /\ UNCHANGED <<readyQueue, suspVars, epollVars, postVars, uringVars, wakeVars,
                 runVars>>

-----------------------------------------------------------------------------
(* One turn of the loop in run(), in the order of its phases *)

\* The deadline is set the first time run() sees the flag.
ShutdownDeadlineRestarted == IF shutdown THEN GracePeriod + 1 ELSE shutdownDeadline  \* seeded fault
NextShutdownDeadline ==
  IF shutdown /\ shutdownDeadline = -1 THEN GracePeriod + 1 ELSE shutdownDeadline

\* drainCompletions(): each completion finds its coroutine by userData in one
\* of the two maps and leaves the map.
CompletedHandles ==
  [i \in DOMAIN completions |->
     LET k == CHOOSE k \in OpKinds : completions[i] \in DOMAIN pendingOps[k]
     IN pendingOps[k][completions[i]]]
OpsLeft ==
  [k \in OpKinds |-> Restrict(pendingOps[k], DOMAIN pendingOps[k] \ Range(completions))]

\* The shutdown check, then drainCompletions().
TopOfLoop ==
  /\ pc = "top"
  /\ shutdownDeadline' = NextShutdownDeadline
  /\ \/ /\ shutdown /\ (ownedTasks = <<>> \/ shutdownDeadline = 0)
        /\ pc' = "returned"
        /\ UNCHANGED <<readyQueue, pendingOps, completions>>
     \/ /\ ~(shutdown /\ (ownedTasks = <<>> \/ shutdownDeadline = 0))
        /\ pc' = "ready"
        /\ readyQueue' = readyQueue \o ReadyAll(CompletedHandles)
        /\ pendingOps' = OpsLeft
        /\ completions' = <<>>
  /\ UNCHANGED <<current, tlTimedOut, suspVars, epollVars, postVars, preps,
                 inflight, wakeVars, ownVars, awaiting, workload, shutdown>>

\* Resuming the head of the ready queue.  Leaving a WriteAwaitable disables
\* write events; a WriteDataAwaitable that timed out or still has data does not.
Resume ==
  /\ pc = "ready" /\ current = <<>> /\ readyQueue # <<>>
  /\ LET h == Head(readyQueue).task
     IN IF h = NullHandle
        THEN /\ pc' = "crashed"
             /\ UNCHANGED <<current, tlTimedOut, epollVars, awaiting>>
        ELSE /\ current' = <<h>>
             /\ tlTimedOut' = Head(readyQueue).timedOut
             /\ awaiting' = [awaiting EXCEPT ![h] = NotAwaiting]
             /\ \/ /\ awaiting[h].op = "write"
                   /\ DisableWriteEvents(FdOf[h])
                \/ UNCHANGED <<writeInterested, interest, readyList>>
             /\ UNCHANGED <<pc, level, events>>
  /\ readyQueue' = Tail(readyQueue)
  /\ UNCHANGED <<suspVars, postVars, uringVars, wakeVars, ownVars, runVars>>

\* With the ready queue empty, epoll_wait() reports every fd of the ready list
\* that is ready for its mask and empties the list.  It returns with nothing
\* after EPOLL_WAIT_TIMEOUT_S, at once while file operations are pending.
EpollWait ==
  /\ pc = "ready" /\ current = <<>> /\ readyQueue = <<>>
  /\ pc' = "events"
  /\ events' =
       {e \in [fd : readyList \cap DOMAIN interest, mask : SUBSET {"IN", "OUT", "ERR"}] :
          /\ e.mask = level[e.fd] \cap (interest[e.fd] \cup {"ERR"})
          /\ e.mask # {}}
       \cup {e \in {[fd |-> EventFd, mask |-> {"IN"}]} : EventFd \in readyList /\ eventFdSet}
  /\ readyList' = {}
  /\ UNCHANGED <<current, tlTimedOut, readyQueue, suspVars, writeInterested,
                 interest, level, postVars, uringVars, wakeVars, ownVars,
                 awaiting, runVars>>

\* For the eventfd, first the counter is read ...
ReadEventFd(e) ==
  /\ pc = "events" /\ e \in events /\ e.fd = EventFd
  /\ events' = events \ {e}
  /\ pc' = "drainPool"
  /\ eventFdSet' = FALSE
  /\ UNCHANGED <<current, tlTimedOut, readyQueue, suspVars, writeInterested,
                 interest, level, readyList, poolResumeQueue, poolJobs, posting,
                 uringVars, wakeVars, ownVars, awaiting, runVars>>

\* ... then the queue is drained under its lock.
DrainOneOfPoolResumeQueue ==  \* seeded fault
  /\ pc = "drainPool"
  /\ pc' = "events"
  /\ readyQueue' = readyQueue \o ReadyAll(SubSeq(poolResumeQueue, 1, 1))
  /\ poolResumeQueue' = SubSeq(poolResumeQueue, 2, Len(poolResumeQueue))
  /\ UNCHANGED <<current, tlTimedOut, suspVars, epollVars, eventFdSet, poolJobs,
                 posting, uringVars, wakeVars, ownVars, awaiting, runVars>>
DrainPoolResumeQueue ==
  /\ pc = "drainPool"
  /\ pc' = "events"
  /\ readyQueue' = readyQueue \o ReadyAll(poolResumeQueue)
  /\ poolResumeQueue' = <<>>
  /\ UNCHANGED <<current, tlTimedOut, suspVars, epollVars, eventFdSet, poolJobs,
                 posting, uringVars, wakeVars, ownVars, awaiting, runVars>>

ShouldWake(s, mask) ==
  \/ "ERR" \in mask
  \/ s.waitingForWrite /\ "OUT" \in mask
  \/ ~s.waitingForWrite /\ "IN" \in mask

\* An event nobody is suspended for, or in the other direction, is dropped.
HandleEvent(e) ==
  /\ pc = "events" /\ e \in events /\ e.fd # EventFd
  /\ events' = events \ {e}
  /\ IF e.fd \in DOMAIN suspendedTasks /\ ShouldWake(suspendedTasks[e.fd], e.mask)
     THEN WakeSuspended(e.fd, FALSE)
     ELSE UNCHANGED <<readyQueue, suspendedTasks>>
  /\ UNCHANGED <<loopVars, taskDeadlines, eventKeys, writeInterested, interest,
                 level, readyList, postVars, uringVars, wakeVars, ownVars,
                 awaiting, runVars>>

EventsHandled ==
  /\ pc = "events" /\ events = {}
  /\ pc' = "sweep"
  /\ UNCHANGED <<current, tlTimedOut, readyQueue, suspVars, epollVars, postVars,
                 uringVars, wakeVars, ownVars, awaiting, runVars>>

IsSuspended(d) == d.fd \in DOMAIN suspendedTasks  \* seeded fault
IsSuspendedUnder(d) ==
  /\ d.fd \in DOMAIN suspendedTasks
  /\ suspendedTasks[d.fd].suspensionSeq = d.suspensionSeq

\* Expired deadlines are popped; one whose key is suspended under another
\* sequence number, or not at all, is stale.  The queue orders them by time;
\* here expired deadlines are popped in any order.
SweepDeadline(d) ==
  /\ pc = "sweep"
  /\ d \in taskDeadlines /\ d.left = 0
  /\ taskDeadlines' = taskDeadlines \ {d}
  /\ IF IsSuspendedUnder(d)
     THEN WakeSuspended(d.fd, TRUE)
     ELSE UNCHANGED <<readyQueue, suspendedTasks>>
  /\ UNCHANGED <<loopVars, eventKeys, epollVars, postVars, uringVars, wakeVars,
                 ownVars, awaiting, runVars>>

\* Preparing file operations, then splices, as long as the ring has entries,
\* and ioSubmit().  What does not fit stays queued for the next turn.
PrepAndSubmit ==
  LET nFile   == Min({Len(preps["file"]), SqSize})
      nSplice == Min({Len(preps["splice"]), SqSize - nFile})
      taken   == [k \in OpKinds |->
                    SubSeq(preps[k], 1, IF k = "file" THEN nFile ELSE nSplice)]
      ids(k)  == {p.userData : p \in Range(taken[k])}
  IN /\ preps' = [k \in OpKinds |->
                    SubSeq(preps[k], Len(taken[k]) + 1, Len(preps[k]))]
     /\ pendingOps' = [k \in OpKinds |->
          [u \in DOMAIN pendingOps[k] \cup ids(k) |->
             IF u \in ids(k) THEN (CHOOSE p \in Range(taken[k]) : p.userData = u).handle
             ELSE pendingOps[k][u]]]
     /\ inflight' = inflight \cup UNION {ids(k) : k \in OpKinds}

\* The wake-up slot of this turn.  Looking a key up with operator[] yields the
\* null handle when the coroutine is no longer suspended; the slot keeps its
\* keys.
StillSuspended(slot) == Restrict(suspendedTasks, DOMAIN suspendedTasks \ Range(slot))
WakeSlot(slot) ==
  /\ readyQueue' = readyQueue \o ReadyAll(
       [i \in DOMAIN slot |-> IF slot[i] \in DOMAIN suspendedTasks
                              THEN suspendedTasks[slot[i]].handle ELSE NullHandle])
  /\ suspendedTasks' = StillSuspended(slot)

NextTurn == (wakeTime + 1) % MaxWakeupTurn

EndOfTurn ==
  /\ pc = "sweep"
  /\ \A d \in taskDeadlines : d.left > 0
  /\ pc' = "top"
  /\ PrepAndSubmit
  /\ WakeSlot(wakeUpQueue[wakeTime])
  /\ wakeTime' = NextTurn
  /\ UNCHANGED <<current, tlTimedOut, taskDeadlines, eventKeys, epollVars,
                 postVars, completions, wakeUpQueue, ownVars, awaiting, runVars>>

-----------------------------------------------------------------------------
(* Pool threads, the kernel, time and the signal handler *)

\* post() from a pool thread: push under the lock ...
PostPush(t) ==
  /\ Looping
  /\ t \in poolJobs
  /\ poolJobs' = poolJobs \ {t}
  /\ poolResumeQueue' = Append(poolResumeQueue, t)
  /\ posting' = posting \cup {t}
  /\ UNCHANGED <<loopVars, readyQueue, suspVars, epollVars, eventFdSet,
                 uringVars, wakeVars, ownVars, awaiting, runVars>>

\* ... and write the eventfd after unlocking.
PostSignal(t) ==
  /\ t \in posting
  /\ posting' = posting \ {t}
  /\ eventFdSet' = TRUE
  /\ readyList' = readyList \cup {EventFd}
  /\ UNCHANGED <<loopVars, readyQueue, suspVars, writeInterested, interest,
                 level, events, poolResumeQueue, poolJobs, uringVars, wakeVars,
                 ownVars, awaiting, runVars>>

\* A socket becomes ready; epoll queues the fd when it waits for that.
SocketEvent(fd, what) ==
  /\ Looping /\ Quiet({fd})
  /\ level' = [level EXCEPT ![fd] = @ \cup what]
  /\ readyList' = IF fd \in DOMAIN interest /\ what \cap (interest[fd] \cup {"ERR"}) # {}
                  THEN readyList \cup {fd} ELSE readyList
  /\ UNCHANGED <<loopVars, readyQueue, suspVars, writeInterested, interest,
                 events, postVars, uringVars, wakeVars, ownVars, awaiting,
                 runVars>>

PeerConnects ==
  /\ Callers # {}
  /\ SocketEvent(Listener, {"IN"})

PeerSends(t) == t \in Live /\ Uses(t, "read") /\ SocketEvent(FdOf[t], {"IN"})
PeerReads(t) == t \in Live /\ Uses(t, "write") /\ SocketEvent(FdOf[t], {"OUT"})
PeerHangsUp(t) ==
  /\ t \in Live /\ (Uses(t, "read") \/ Uses(t, "write"))
  /\ SocketEvent(FdOf[t], {"IN", "ERR"})

\* io_uring finishes an operation.
Complete(u) ==
  /\ Looping /\ u \in inflight
  /\ inflight' = inflight \ {u}
  /\ completions' = Append(completions, u)
  /\ UNCHANGED <<loopVars, readyQueue, suspVars, epollVars, postVars, preps,
                 pendingOps, wakeVars, ownVars, awaiting, runVars>>

Less(n) == IF n > 0 THEN n - 1 ELSE n

\* The sweep reads the clock once, before its first pop.
Tick ==
  /\ Looping /\ pc # "sweep"
  /\ taskDeadlines' = {[d EXCEPT !.left = Less(@)] : d \in taskDeadlines}
  /\ awaiting' = [t \in Tasks |-> [awaiting[t] EXCEPT !.left = Less(@)]]
  /\ shutdownDeadline' = Less(shutdownDeadline)
  /\ UNCHANGED <<loopVars, readyQueue, suspendedTasks, eventKeys, epollVars,
                 postVars, uringVars, wakeVars, ownVars, workload, shutdown>>

SignalShutdown ==
  /\ Stops \in workload[Root] /\ ~shutdown /\ shutdown' = TRUE
  /\ UNCHANGED <<loopVars, readyQueue, suspVars, epollVars, postVars, uringVars,
                 wakeVars, ownVars, awaiting, workload, shutdownDeadline>>

-----------------------------------------------------------------------------
AcceptLoop ==
  \/ \E timeout \in Timeouts : AcceptLoopStart(timeout) \/ AcceptLoopWait(timeout)
  \/ \E c \in Tasks : Accept(c)
  \/ AcceptLoopReturns

Connection(t) ==
  \/ RegisterReadFd(t)
  \/ \E timeout \in Timeouts : \/ ReadOrSuspend(t, timeout)
                               \/ WriteOrSuspend(t, timeout)
                               \/ WaitForEvent(t, timeout)
  \/ \E key \in eventKeys : FireEvent(t, key)
  \/ \E cycles \in Cycles : WakeMeIn(t, cycles)
  \/ \E kind \in OpKinds : SubmitOp(t, kind)
  \/ AwaitPoolJob(t)
  \/ ConnectionReturns(t)
  \/ ConnectionThrows(t)

Coroutine == AcceptLoop \/ \E t \in Tasks : Connection(t)

Loop ==
  \/ TopOfLoop
  \/ Resume
  \/ EpollWait
  \/ \E e \in events : ReadEventFd(e) \/ HandleEvent(e)
  \/ DrainPoolResumeQueue
  \/ EventsHandled
  \/ \E d \in taskDeadlines : SweepDeadline(d)
  \/ EndOfTurn

Environment ==
  \/ \E t \in Tasks : PostPush(t) \/ PostSignal(t)
  \/ PeerConnects
  \/ \E t \in Tasks : PeerSends(t) \/ PeerReads(t) \/ PeerHangsUp(t)
  \/ \E u \in inflight : Complete(u)
  \/ Tick
  \/ SignalShutdown

Next == Coroutine \/ Loop \/ Environment

Spec == Init /\ [][Next]_vars

\* A resumed coroutine suspends or ends after finitely many calls, the loop's
\* own steps are not delayed for ever, pool jobs and file operations finish,
\* and time passes (strongly: Tick pauses during each sweep).  Peers owe nothing.
Fairness ==
  /\ WF_vars(Loop)
  /\ WF_vars(Coroutine /\ current' = <<>>)
  /\ WF_vars(\E c \in Tasks : Accept(c) \/ RegisterReadFd(c))
  /\ WF_vars(\E t \in Tasks : PostPush(t))
  /\ WF_vars(\E t \in Tasks : PostSignal(t))
  /\ WF_vars(\E u \in inflight : Complete(u))
  /\ SF_vars(Tick)

FairSpec == Spec /\ Fairness

-----------------------------------------------------------------------------
(* Properties *)

\* In how many places the executor, the kernel or a pool thread holds t.
HolderCount(t) ==
    Cardinality({i \in DOMAIN readyQueue : readyQueue[i].task = t})
  + Cardinality({k \in DOMAIN suspendedTasks : suspendedTasks[k].handle = t})
  + Cardinality({i \in DOMAIN preps["file"] : preps["file"][i].handle = t})
  + Cardinality({i \in DOMAIN preps["splice"] : preps["splice"][i].handle = t})
  + Cardinality({u \in DOMAIN pendingOps["file"] : pendingOps["file"][u] = t})
  + Cardinality({u \in DOMAIN pendingOps["splice"] : pendingOps["splice"][u] = t})
  + Cardinality({i \in DOMAIN poolResumeQueue : poolResumeQueue[i] = t})
  + Cardinality(poolJobs \cap {t})
  + Cardinality({c \in {t} : current = <<c>>})

\* Exactly one place holds the handle of a live coroutine and none holds the
\* handle of a destroyed one: whatever order events, deadlines, fired events,
\* completions and posts arrive in, a suspension is resumed at most once, is
\* never forgotten, and no destroyed frame is resumed.
OneHolder ==
  \A t \in Tasks : HolderCount(t) = IF t \in Live THEN 1 ELSE 0

\* A coroutine is only resumed as timed out when the deadline of the very
\* suspension it is in has passed: deadlines left behind by earlier
\* suspensions of the same fd, of this or an earlier connection, are stale.
TimeoutIsGenuine ==
  \A i \in DOMAIN readyQueue :
    readyQueue[i].timedOut =>
      /\ awaiting[readyQueue[i].task].op \in {"read", "write", "event"}
      /\ awaiting[readyQueue[i].task].left = 0

\* Edge-triggered epoll reports a readiness once.  Whenever a coroutine is
\* suspended on a socket that is ready for it, the report is still to come:
\* the loop never drops an edge its coroutine depends on.
NoLostReadiness ==
  \A fd \in Fds \cap DOMAIN suspendedTasks :
    LET s == suspendedTasks[fd]
        wanted == {"ERR", IF s.waitingForWrite THEN "OUT" ELSE "IN"}
    IN level[fd] \cap wanted # {} =>
         \/ fd \in readyList /\ wanted \subseteq interest[fd] \cup {"ERR"}
         \/ \E e \in events : e.fd = fd /\ ShouldWake(s, e.mask)

\* A coroutine in poolResumeQueue_ is going to be drained: its poster has yet
\* to write the eventfd, the eventfd is still to be reported, or the loop is
\* about to drain.
PostedIsSignalled ==
  poolResumeQueue # <<>> =>
    \/ posting # {}
    \/ eventFdSet /\ EventFd \in readyList
    \/ \E e \in events : e.fd = EventFd
    \/ pc = "drainPool"

\* The tables of the loop agree with each other and with the kernel, through
\* every order of spawns, ends, timeouts and reused numbers: ownedTaskMap_ is
\* the inverse of ownedTasks_, also when removals move the last task into the
\* gap; writeInterested_, which saves epoll_ctl calls, has the mask the kernel
\* holds; and every operation the kernel has, and every completion it queued,
\* finds its coroutine in one of pendingFileOps_ and pendingSpliceOps_.
TablesAgree ==
  /\ DOMAIN ownedTaskMap = Live /\ Len(ownedTasks) = Cardinality(Live)
  /\ \A t \in Live : ownedTaskMap[t] + 1 \in DOMAIN ownedTasks /\ ownedTasks[ownedTaskMap[t] + 1] = t
  /\ \A fd \in Fds : fd \in writeInterested <=> fd \in DOMAIN interest /\ "OUT" \in interest[fd]
  /\ \A u \in inflight \cup Range(completions) :
       Cardinality({k \in OpKinds : u \in DOMAIN pendingOps[k]}) = 1

\* Every handle that becomes ready is the one of a coroutine that suspended:
\* wakeMeIn() wakes the coroutine in the given number of turns and does nothing
\* else.
OnlyCoroutinesAreResumed ==
  \A i \in DOMAIN readyQueue : readyQueue[i].task # NullHandle

\* Every suspension ends: by its event, its deadline, its completion or its
\* post, unless the loop has returned.
SuspensionsEnd ==
  \A t \in Tasks : awaiting[t].op # "none" ~> (awaiting[t].op = "none" \/ ~Looping)

\* After the shutdown flag is set run() returns, whatever coroutines are
\* still waiting for.
ShutdownReturns == shutdown ~> pc = "returned"

=============================================================================
