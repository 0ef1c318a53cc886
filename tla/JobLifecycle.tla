---------------------------- MODULE JobLifecycle ----------------------------
(***************************************************************************)
(* What the content-job queue promises to whoever submits a job, with no   *)
(* workers, leases, clocks or statements in sight: a job is attempted at   *)
(* most MaxAttempts times, one attempt after the other; it is retried only *)
(* while attempts remain; a completed job carries the result of its last   *)
(* attempt; it is given up as exhausted only after its last attempt; it    *)
(* can be cancelled while no attempt is under way; and what is over stays  *)
(* over.  ContentWorkers implements this specification.                    *)
(***************************************************************************)
EXTENDS Integers

CONSTANTS Job, MaxAttempts

VARIABLE job    \* per job: status, attempts, result, failure

Waiting == {"queued", "retrying"}

Unborn == [status |-> "absent", attempts |-> 0, result |-> 0,
           failure |-> "none"]

Init == job = [j \in Job |-> Unborn]

Submit(j) ==
    /\ job[j].status = "absent"
    /\ job' = [job EXCEPT ![j] = [@ EXCEPT !.status = "queued"]]

Attempt(j) ==
    /\ job[j].status \in Waiting
    /\ job[j].attempts < MaxAttempts
    /\ job' = [job EXCEPT ![j] =
          [@ EXCEPT !.status = "processing", !.attempts = job[j].attempts + 1]]

Complete(j) ==
    /\ job[j].status = "processing"
    /\ job' = [job EXCEPT ![j] =
          [@ EXCEPT !.status = "completed", !.result = job[j].attempts]]

Retry(j) ==
    /\ job[j].status = "processing"
    /\ job[j].attempts < MaxAttempts
    /\ job' = [job EXCEPT ![j] = [@ EXCEPT !.status = "retrying"]]

Fail(j) ==
    /\ job[j].status = "processing"
    /\ \E failure \in {"error", "exhausted"} :
          /\ failure = "exhausted" => job[j].attempts = MaxAttempts
          /\ job' = [job EXCEPT ![j] =
                [@ EXCEPT !.status = "failed", !.failure = failure]]

Cancel(j) ==
    /\ job[j].status \in Waiting
    /\ job' = [job EXCEPT ![j] = [@ EXCEPT !.status = "cancelled"]]

Next ==
    \E j \in Job : \/ Submit(j) \/ Attempt(j) \/ Complete(j)
                   \/ Retry(j) \/ Fail(j) \/ Cancel(j)

Spec == Init /\ [][Next]_job

=============================================================================
