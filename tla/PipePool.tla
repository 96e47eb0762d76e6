------------------------------ MODULE PipePool ------------------------------
(***************************************************************************)
(* The per-thread pool of pipes (core/PipePool.cpp) and its one user,      *)
(* TcpStream::sendFileSplice(), which moves a file through a pipe into a   *)
(* socket.  Everything runs on one thread: a step is what a coroutine does *)
(* between two suspensions.                                                *)
(*                                                                         *)
(* A waiter is known to the pool by the key that Executor::waitForEvent()  *)
(* gave it; fireEvent() on a key nobody is suspended under does nothing.   *)
(* Sizes are counted in units of data, a pipe takes one chunk at a time.   *)
(* Definitions marked "seeded fault" are not part of the model.            *)
(***************************************************************************)
EXTENDS Integers, Sequences, FiniteSets, FiniteSetsExt

CONSTANTS
  Coroutines,
  Pipes,       \* file descriptor pairs the kernel can give
  MaxPipes,    \* maxPipes_
  NoPipe,
  ChunkSize,   \* PIPE_BUFFER_SIZE
  FileSize,    \* bound: what a coroutine sends
  MaxKey       \* bound: event keys given out

ASSUME PipePoolAssumption ==
  /\ NoPipe \notin Pipes
  /\ IsFiniteSet(Pipes) /\ MaxPipes \in Nat /\ MaxPipes <= Cardinality(Pipes)
  /\ ChunkSize \in Nat \ {0} /\ FileSize \in Nat \ {0}
  /\ MaxKey \in Nat

VARIABLES
  freePipes,  \* freePipes_
  waiters,    \* waiters_, event keys
  created,    \* created_
  content,    \* what is in each open pipe; -1 when it is closed
  pc,         \* of each coroutine: "idle", "suspended", "filling", "draining"
  key,        \* the key it is suspended under, or 0
  woken,      \* "no", "fired" or "timedOut": it is on the ready queue
  pipe,       \* the pipe it holds
  remaining,  \* what it still has to send
  nextKey,    \* the last key given out
  calm        \* in this behaviour no wait times out and pipe2() never fails

vars == <<freePipes, waiters, created, content, pc, key, woken, pipe, remaining, nextKey, calm>>

Init ==
  /\ freePipes = <<>> /\ waiters = <<>> /\ created = 0
  /\ content = [p \in Pipes |-> -1]
  /\ pc = [c \in Coroutines |-> "idle"]
  /\ key = [c \in Coroutines |-> 0]
  /\ woken = [c \in Coroutines |-> "no"]
  /\ pipe = [c \in Coroutines |-> NoPipe]
  /\ remaining = [c \in Coroutines |-> 0]
  /\ nextKey = 0
  /\ calm \in BOOLEAN

-----------------------------------------------------------------------------
(* acquire() *)

Hold(c, p) ==
  /\ pipe' = [pipe EXCEPT ![c] = p]
  /\ pc' = [pc EXCEPT ![c] = "filling"]
  /\ UNCHANGED <<waiters, key, nextKey>>

\* tryAcquire() takes the pipe released last, ...
TakeFree(c) ==
  /\ freePipes # <<>>
  /\ Hold(c, freePipes[Len(freePipes)])
  /\ freePipes' = SubSeq(freePipes, 1, Len(freePipes) - 1)
  /\ UNCHANGED <<created, content>>

AtCapacity == created >= MaxPipes

\* ... or creates one, ...
Create(c) ==
  /\ freePipes = <<>> /\ ~AtCapacity
  /\ \E p \in Pipes : /\ content[p] = -1
                      /\ Hold(c, p)
                      /\ content' = [content EXCEPT ![p] = 0]
  /\ created' = created + 1
  /\ UNCHANGED freePipes

\* ... or, at the limit or when pipe2() fails, the coroutine waits for an event
\* with a new key.
Wait(c) ==
  /\ freePipes = <<>> /\ (AtCapacity \/ ~calm)
  /\ nextKey < MaxKey
  /\ nextKey' = nextKey + 1
  /\ key' = [key EXCEPT ![c] = nextKey']
  /\ waiters' = Append(waiters, nextKey')
  /\ pc' = [pc EXCEPT ![c] = "suspended"]
  /\ UNCHANGED <<freePipes, created, content, pipe>>

Acquire(c) == TakeFree(c) \/ Create(c) \/ Wait(c)

SendFileSplice(c) ==
  /\ pc[c] = "idle"
  /\ \E n \in 1..FileSize : remaining' = [remaining EXCEPT ![c] = n]
  /\ Acquire(c)
  /\ UNCHANGED woken

\* The executor's sweep: the key stays among the waiters.
TimeOut(c) ==
  /\ ~calm /\ key[c] # 0
  /\ woken' = [woken EXCEPT ![c] = "timedOut"]
  /\ key' = [key EXCEPT ![c] = 0]
  /\ UNCHANGED <<freePipes, waiters, created, content, pc, pipe, remaining, nextKey>>

\* A fired waiter tries again, ...
ResumeFired(c) ==
  /\ woken[c] = "fired"
  /\ Acquire(c)
  /\ woken' = [woken EXCEPT ![c] = "no"]
  /\ UNCHANGED remaining

\* ... one that timed out gives up with -EBUSY.
ResumeTimedOut(c) ==
  /\ woken[c] = "timedOut"
  /\ pc' = [pc EXCEPT ![c] = "idle"]
  /\ woken' = [woken EXCEPT ![c] = "no"]
  /\ remaining' = [remaining EXCEPT ![c] = 0]
  /\ UNCHANGED <<freePipes, waiters, created, content, key, pipe, nextKey>>

-----------------------------------------------------------------------------
(* release() and discard() *)

\* wakeOneWaiter(): fireEvent() on the oldest key, whether or not somebody is
\* still suspended under it.
WakeNobody == UNCHANGED <<waiters, key, woken>>  \* seeded fault
WakeOneWaiter ==
  IF waiters = <<>> THEN UNCHANGED <<waiters, key, woken>>
  ELSE /\ waiters' = Tail(waiters)
       /\ woken' = [c \in Coroutines |-> IF key[c] = Head(waiters) THEN "fired" ELSE woken[c]]
       /\ key' = [c \in Coroutines |-> IF key[c] = Head(waiters) THEN 0 ELSE key[c]]

Release(c) ==
  /\ freePipes' = Append(freePipes, pipe[c])
  /\ WakeOneWaiter
  /\ UNCHANGED created

DiscardUncounted(c) ==  \* seeded fault
  /\ content' = [content EXCEPT ![pipe[c]] = -1]
  /\ WakeOneWaiter
  /\ UNCHANGED <<created, freePipes>>
Discard(c) ==
  /\ content' = [content EXCEPT ![pipe[c]] = -1]
  /\ created' = created - 1
  /\ WakeOneWaiter
  /\ UNCHANGED freePipes

Done(c) ==
  /\ pc' = [pc EXCEPT ![c] = "idle"]
  /\ pipe' = [pipe EXCEPT ![c] = NoPipe]
  /\ remaining' = [remaining EXCEPT ![c] = 0]

-----------------------------------------------------------------------------
(* The loop of sendFileSplice().  -EAGAIN makes it wait and repeat the call. *)

FillPipe(c) ==
  /\ pc[c] = "filling"
  /\ \E n \in 1..Min({remaining[c], ChunkSize}) :
       /\ content' = [content EXCEPT ![pipe[c]] = n]
       /\ remaining' = [remaining EXCEPT ![c] = @ - n]
  /\ pc' = [pc EXCEPT ![c] = "draining"]
  /\ UNCHANGED <<freePipes, waiters, created, key, woken, pipe, nextKey>>

DrainPart(c) ==
  /\ pc[c] = "draining"
  /\ \E n \in 1..content[pipe[c]] - 1 : content' = [content EXCEPT ![pipe[c]] = @ - n]
  /\ UNCHANGED <<freePipes, waiters, created, pc, key, woken, pipe, remaining, nextKey>>

DrainRest(c) ==
  /\ pc[c] = "draining"
  /\ content' = [content EXCEPT ![pipe[c]] = 0]
  /\ \/ /\ remaining[c] > 0
        /\ pc' = [pc EXCEPT ![c] = "filling"]
        /\ UNCHANGED <<freePipes, waiters, created, key, woken, pipe, remaining>>
     \/ remaining[c] = 0 /\ Release(c) /\ Done(c)
  /\ UNCHANGED nextKey

\* Either splice fails, or the file or the socket is at its end.
SpliceFails(c) ==
  /\ pc[c] \in {"filling", "draining"}
  /\ Discard(c) /\ Done(c)
  /\ UNCHANGED nextKey

-----------------------------------------------------------------------------
Next ==
  /\ \E c \in Coroutines :
       \/ SendFileSplice(c) \/ TimeOut(c) \/ ResumeFired(c) \/ ResumeTimedOut(c)
       \/ FillPipe(c) \/ DrainPart(c) \/ DrainRest(c) \/ SpliceFails(c)
  /\ UNCHANGED calm

Spec == Init /\ [][Next]_vars

-----------------------------------------------------------------------------
(* Properties *)

\* created_ counts the open pipes, each of which is free or held by one
\* coroutine: no descriptor leaks, none is used by two.  A free pipe is empty:
\* what one response left in a pipe never goes out with another.
PipesAccounted ==
  /\ created = Cardinality({p \in Pipes : content[p] # -1})
  /\ \A p \in Pipes :
       Cardinality({i \in 1..Len(freePipes) : freePipes[i] = p})
         + Cardinality({c \in Coroutines : pipe[c] = p}) = IF content[p] = -1 THEN 0 ELSE 1
  /\ \A i \in 1..Len(freePipes) : content[freePipes[i]] = 0

\* As long as no wait times out and pipe2() works, a coroutine waits only while
\* there is no pipe to be had or somebody has been woken to take it.
NoStrandedWaiter ==
  calm /\ (\E c \in Coroutines : key[c] # 0) /\ (freePipes # <<>> \/ created < MaxPipes) =>
    \E c \in Coroutines : woken[c] = "fired"
=============================================================================
