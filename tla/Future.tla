------------------------------- MODULE Future -------------------------------
(***************************************************************************)
(* What ThreadPool::submit() promises a coroutine: the job is accepted or  *)
(* rejected, an accepted job completes once, and whoever awaits it goes on *)
(* once, after the completion, whether or not it had to wait.              *)
(***************************************************************************)
CONSTANT Jobs
VARIABLES status, awaiter

vars == <<status, awaiter>>

Init ==
  /\ status = [j \in Jobs |-> "idle"]
  /\ awaiter = [j \in Jobs |-> "none"]

Accept(j) ==
  /\ status[j] = "idle"
  /\ status' = [status EXCEPT ![j] = "accepted"]
  /\ UNCHANGED awaiter

Reject(j) ==
  /\ status[j] = "idle"
  /\ status' = [status EXCEPT ![j] = "rejected"]
  /\ UNCHANGED awaiter

Complete(j) ==
  /\ status[j] = "accepted"
  /\ status' = [status EXCEPT ![j] = "completed"]
  /\ UNCHANGED awaiter

Await(j) ==
  /\ awaiter[j] = "none"
  /\ status[j] \in {"accepted", "completed"}
  /\ awaiter' = [awaiter EXCEPT ![j] = "waiting"]
  /\ UNCHANGED status

\* A job that is complete when it is awaited needs no wait.
Resume(j) ==
  /\ awaiter[j] \in {"none", "waiting"}
  /\ status[j] = "completed"
  /\ awaiter' = [awaiter EXCEPT ![j] = "resumed"]
  /\ UNCHANGED status

Next == \E j \in Jobs : Accept(j) \/ Reject(j) \/ Complete(j) \/ Await(j) \/ Resume(j)

Spec == Init /\ [][Next]_vars

FairSpec ==
  /\ Spec
  /\ \A j \in Jobs : /\ WF_vars(Complete(j))
                      /\ WF_vars(awaiter[j] = "waiting" /\ Resume(j))
=============================================================================
