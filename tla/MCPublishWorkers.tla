-------------------------- MODULE MCPublishWorkers --------------------------
(***************************************************************************)
(* Small instances of PublishWorkers for TLC.                              *)
(***************************************************************************)
EXTENDS PublishWorkers, TLC

CONSTANTS w1, w2, j1

Workers == {w1, w2}

\* The worker processes are interchangeable.
WorkerSymmetry == Permutations(Workers)

\* The code PUBLISH_REMOTE_JOB_CANCELLED, for which the classifier words the
\* message "remote job cancelled" (publish-retry-classifier.ts:103-104), is
\* stored only for a job whose remote job was cancelled.
RemoteCancelledIsTrue ==
    \A j \in Job :
        jobs[j].errorCode = "PUBLISH_REMOTE_JOB_CANCELLED"
            => remote[j] = "cancelled"

\* No fetch rejects as an abort by itself: calls are cancelled by the signal.
BreaksOff == \E w \in Worker, s \in Slot :
    ~Aborted(w, exec[w][s]) /\ CallThrows(w, s, CancelledCall)
SignalledSpec == Init /\ [][Next /\ ~BreaksOff]_vars

-----------------------------------------------------------------------------
(* Unbounded time with finitely many states: the clock stops at MaxTime    *)
(* and the times that are stored move into the past instead.  What         *)
(* reaches 0 stays there, long past.  Sweeps are on time here as           *)
(* statements are, so that no two times that are compared are both at 0.   *)

Past(t) == IF t <= 0 THEN t ELSE t - 1

SweepsOnTime ==
    \A w \in Worker : loop[w].pc = "sweeping" => clock - loop[w].now < MaxLag

Slide ==
    /\ clock = MaxTime
    /\ StatementsOnTime
    /\ jobs' = [j \in Job |->
          [jobs[j] EXCEPT !.leaseExpiresAt = Past(@), !.nextAttemptAt = Past(@),
                          !.nextPollAt = Past(@)]]
    /\ loop' = [w \in Worker |-> [loop[w] EXCEPT !.now = Past(@)]]
    /\ exec' = [w \in Worker |-> [s \in Slot |->
          [exec[w][s] EXCEPT !.now = Past(@), !.beatNow = Past(@)]]]
    /\ orphans' = [w \in Worker |->
          {[o EXCEPT !.now = Past(@)] : o \in orphans[w]}]
    /\ UNCHANGED <<clock, sent, remote, proc>>

TimePasses == SweepsOnTime /\ (Tick \/ Slide)

\* Calls of the loop that fail or find nothing, with no effect, are left out:
\* the loop sleeps and calls again, so to leave them out is to say that the
\* database does not fail forever.
EffectiveLoopNext(w) ==
    \/ Poll(w) /\ \E j \in Job : Due(jobs[j], clock)
    \/ \E j \in Job : AcquireThrows(w, j) \/ \E s \in Slot : AcquireNext(w, s, j)
    \/ AcquireNothing(w) /\ \A j \in Job : ~Due(jobs[j], loop[w].now)
    \/ SweepSelect(w) \/ SweepCommit(w)

EffectiveNext ==
    \/ \E j \in Job : ApiNext(j) \/ EngineNext(j)
    \/ \E w \in Worker : \/ EffectiveLoopNext(w)
                         \/ \E s \in Slot : ExecNext(w, s)
                         \/ \E o \in orphans[w] : LateRenewal(w, o)
    \/ TimePasses

\* A remote call ends: with an answer or with an error, because the client has
\* a request timeout and a bounded number of retries.
CallEnds(w, s) ==
    \/ SubmitAnswered(w, s) \/ PollAnswered(w, s) \/ DownloadAnswered(w, s)
    \/ \E failure \in Failures : CallThrows(w, s, failure)

\* Time passes, the loop goes round, statements are answered, calls
\* end, and the engine finishes what it has accepted.  The API owes nothing,
\* the engine need not accept a submission, and nobody has to crash.
Fairness ==
    /\ WF_vars(TimePasses)
    /\ \A j \in Job : WF_vars(EngineFinishes(j))
    /\ \A w \in Worker :
          /\ WF_vars(EffectiveLoopNext(w))
          /\ WF_vars(Exit(w))
          /\ WF_vars(\E o \in orphans[w] : LateRenewal(w, o))
          /\ \A s \in Slot :
                /\ WF_vars(CallEnds(w, s))
                /\ WF_vars(RenewLease(w, s))
                /\ WF_vars(ReadJob(w, s) \/ SetStage(w, s) \/ Record(w, s)
                              \/ LogEvent(w, s) \/ Handle(w, s))

\* w2 is the worker the deployment keeps running; w1 may crash.
EndlessSpec ==
    /\ Init
    /\ [][EffectiveNext \/ Start(w2) \/ Start(w1) \/ Crash(w1)]_vars
    /\ Fairness
    /\ WF_vars(Start(w2))

\* Every publish job that was accepted ends, although workers crash, stop,
\* lose leases, answers and acknowledgements: it waits for the engine only as
\* long as the engine works, and failures in a row are bounded.
EveryPublishEnds ==
    \A j \in Job : jobs[j].status # Absent ~> jobs[j].status \in Terminal

=============================================================================
