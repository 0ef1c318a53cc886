-------------------------- MODULE MCContentWorkers --------------------------
(***************************************************************************)
(* Small instances of ContentWorkers for TLC.                              *)
(***************************************************************************)
EXTENDS ContentWorkers, TLC

CONSTANTS w1, w2

Workers == {w1, w2}
OneJob == {1}

\* The worker processes are interchangeable.
WorkerSymmetry == Permutations(Workers)

-----------------------------------------------------------------------------
(* Punctual heartbeats: the heartbeat interval is one tick, so time passes *)
(* only when every execution that sends heartbeats has one under way.      *)

PunctualTick ==
    /\ \A w \in Worker, s \in Slot :
          (exec[w][s].pc \notin {"free", "settling"} /\ ~exec[w][s].aborted)
              => exec[w][s].beating
    /\ Tick

PunctualSpec == Init /\ [][Step \/ PunctualTick]_vars

-----------------------------------------------------------------------------
(* Unbounded time with finitely many states: the clock stops at MaxTime    *)
(* and the times that are stored move into the past instead.  What         *)
(* reaches 0 stays there, long past.  Sweeps are on time here as           *)
(* statements are, so that no two times that are compared are both at 0.   *)

Past(t) == IF t <= 0 THEN t ELSE t - 1

SweepsOnTime ==
    \A w \in Worker :
        loop[w].pc \in {"sweeping", "updating"} => clock - loop[w].now < MaxLag

Slide ==
    /\ clock = MaxTime
    /\ StatementsOnTime
    /\ jobs' = [j \in Job |->
          [jobs[j] EXCEPT !.leaseExpiresAt = Past(@), !.nextAttemptAt = Past(@)]]
    /\ loop' = [w \in Worker |-> [loop[w] EXCEPT !.now = Past(@)]]
    /\ exec' = [w \in Worker |-> [s \in Slot |->
          [exec[w][s] EXCEPT !.now = Past(@), !.beatNow = Past(@)]]]
    /\ UNCHANGED <<clock, lastEvent, cancels, proc>>

TimePasses == SweepsOnTime /\ (Tick \/ Slide)

\* A call of the loop that fails without effect, or a poll that can find no
\* row, is left out: the loop sleeps and calls again, so to leave it out is to
\* say that the database does not fail forever.
DuePoll(w) == Poll(w) /\ \E j \in Job : Due(jobs[j], clock)

EffectiveLoopNext(w) ==
    \/ DuePoll(w)
    \/ \E j \in Job : AcquireThrows(w, j) \/ \E s \in Slot : AcquireNext(w, s, j)
    \/ AcquireNothing(w) /\ \A j \in Job : ~Candidate(j, w, loop[w].now)
    \/ ListStale(w)
    \/ \E entry \in loop[w].todo : SelectStale(w, entry)
    \/ UpdateStale(w)
    \/ SweepThrows(w) /\ jobs' # jobs

\* w2 is the worker the deployment keeps running; w1 may stop or crash.
EndlessNext ==
    \/ \E j \in Job : ApiNext(j)
    \/ \E w \in Worker : EffectiveLoopNext(w) \/ \E s \in Slot : ExecNext(w, s)
    \/ ProcNext(w1)
    \/ Start(w2)
    \/ TimePasses

\* Time passes, w2 starts, the loop goes round, statements under way are
\* answered, and the processor returns or throws, because the calls of the AI
\* provider have timeouts.  The API owes nothing, and nobody has to crash.
Fairness ==
    /\ WF_vars(TimePasses)
    /\ WF_vars(Start(w2))
    /\ \A w \in Worker :
          /\ WF_vars(EffectiveLoopNext(w))
          /\ WF_vars(Exit(w))
          /\ \A s \in Slot :
                /\ WF_vars(ProcessorSucceeds(w, s) \/ ProcessorThrows(w, s, TRUE))
                /\ WF_vars(MarkCompleted(w, s) \/ ScheduleRetry(w, s)
                              \/ MarkFailed(w, s) \/ Settle(w, s))
                /\ WF_vars(RenewLease(w, s))

EndlessSpec == Init /\ [][EndlessNext]_vars /\ Fairness

\* Every job that was accepted ends: completed, failed or cancelled, although
\* workers crash, stop, lose leases and lose answers.  What is leased when its
\* worker dies is found by a sweep, and the attempts are finite.
EveryJobEnds ==
    \A j \in Job :
        jobs[j].status # Absent ~> jobs[j].status \in Terminal

\* A worker that is told to stop stops: no execution outlives the abort.
ShutdownEnds == proc[w1] = "stopping" ~> proc[w1] = "gone"

=============================================================================
