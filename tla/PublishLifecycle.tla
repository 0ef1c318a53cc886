-------------------------- MODULE PublishLifecycle --------------------------
(***************************************************************************)
(* What the publish queue promises, with no workers, leases or clocks: a   *)
(* job is taken up by one party at a time; what it ends as agrees with the *)
(* remote engine's job; once the remote job is known it stays known;       *)
(* between two contacts that succeed there are fewer than                  *)
(* MaxConsecutiveFailures failures, and a job is given up as exhausted     *)
(* only at the last of them; it can be cancelled while nobody works on it; *)
(* and what is over stays over.  PublishWorkers implements this.           *)
(***************************************************************************)
EXTENDS Integers

CONSTANTS Job, MaxConsecutiveFailures

VARIABLES
    job,     \* per job: phase, contact, failures and reason of a failure
    remote   \* the engine's job

Unborn == [phase |-> "absent", contact |-> "none", failures |-> 0,
           reason |-> "none"]

Init ==
    /\ job = [j \in Job |-> Unborn]
    /\ remote = [j \in Job |-> "none"]

Becomes(j, new) == job'[j] = new

Request(j) ==
    /\ job[j].phase = "absent"
    /\ Becomes(j, [job[j] EXCEPT !.phase = "idle"])

TakeUp(j) ==
    /\ job[j].phase = "idle"
    /\ Becomes(j, [job[j] EXCEPT !.phase = "busy"])

\* The engine has been heard of the job, which it is still working on or has
\* finished meanwhile.
Contact(j) ==
    /\ job[j].phase = "busy"
    /\ remote[j] # "none"
    /\ Becomes(j, [job[j] EXCEPT !.phase = "idle", !.contact = "known",
                                 !.failures = 0])

Stumble(j) ==
    /\ job[j].phase = "busy"
    /\ job[j].failures + 1 < MaxConsecutiveFailures
    /\ Becomes(j, [job[j] EXCEPT !.phase = "idle",
                                 !.failures = job[j].failures + 1])

Complete(j) ==
    /\ job[j].phase = "busy"
    /\ job[j].contact = "known" /\ remote[j] = "completed"
    /\ Becomes(j, [job[j] EXCEPT !.phase = "completed", !.failures = 0])

\* Another reason is an error that no retry would mend.
Fail(j) ==
    /\ job[j].phase = "busy"
    /\ \E reason \in {"remote", "exhausted", "error"} :
          /\ reason = "remote" => remote[j] = "failed"
          /\ reason = "exhausted"
                 => job[j].failures + 1 >= MaxConsecutiveFailures
          /\ \E n \in {job[j].failures, job[j].failures + 1} :
                Becomes(j, [job[j] EXCEPT !.phase = "failed",
                                          !.reason = reason, !.failures = n])

Cancel(j) ==
    /\ \/ job[j].phase = "idle"
       \/ job[j].phase = "busy" /\ remote[j] = "cancelled"
    /\ Becomes(j, [job[j] EXCEPT !.phase = "cancelled"])

\* The jobs move independently: one step may move several of them.
JobMoves(j) ==
    \/ job'[j] = job[j]
    \/ Request(j) \/ TakeUp(j) \/ Contact(j) \/ Stumble(j)
    \/ Complete(j) \/ Fail(j) \/ Cancel(j)

EngineMoves(j) ==
    \/ remote'[j] = remote[j]
    \/ remote[j] = "none" /\ remote'[j] = "running"
    \/ /\ remote[j] = "running"
       /\ remote'[j] \in {"completed", "failed", "cancelled"}

Next ==
    /\ DOMAIN job' = Job /\ DOMAIN remote' = Job
    /\ \A j \in Job : JobMoves(j) /\ EngineMoves(j)

Spec == Init /\ [][Next]_<<job, remote>>

=============================================================================
