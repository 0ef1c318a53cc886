--------------------------- MODULE ContentWorkers ---------------------------
(***************************************************************************)
(* The content-job queue at work: worker processes (WorkerLoop,            *)
(* JobExecutor, StaleJobRecovery) and the API share the content_jobs table *)
(* of ContentJobStore.                                                     *)
(*                                                                         *)
(* A step is one committed database statement or transaction, or one local *)
(* step of a process between two awaits.  PostgreSQL runs at READ          *)
(* COMMITTED, so what happens between a SELECT without a lock and the      *)
(* UPDATE that follows it (the sweep's recovery, the API's cancel) is a    *)
(* step of its own.                                                        *)
(*                                                                         *)
(* The processes' clocks agree.  A process samples `now` before it awaits  *)
(* the statement, so when the statement takes effect its `now` is old: a   *)
(* statement is under way for at most MaxLag ticks.  Nothing in the code   *)
(* bounds that time; MaxLag is a parameter, and the properties that need   *)
(* it to be short say so.                                                  *)
(*                                                                         *)
(* Any call may throw, with the statement committed or not (the            *)
(* acknowledgement is lost), and a process may crash at any point.  A      *)
(* heartbeat that throws in the timer loop is an unhandled rejection and   *)
(* ends the process: that is Crash.                                        *)
(***************************************************************************)
EXTENDS ContentJobStore

CONSTANTS
    Job,          \* jobs, numbered in the order of created_at
    Concurrency,  \* WORKER_CONCURRENCY
    MaxAttempts,  \* WORKER_MAX_ATTEMPTS
    MaxLag,       \* the longest time a statement is under way
    MaxTime       \* bound on clock

ASSUME JobAssumption == Job \subseteq Nat /\ Job # {}
ASSUME ConcurrencyAssumption == Concurrency \in Nat \ {0}
ASSUME MaxAttemptsAssumption == MaxAttempts \in Nat \ {0}
ASSUME MaxLagAssumption == MaxLag \in Nat
ASSUME MaxTimeAssumption == MaxTime \in Nat

VARIABLES
    clock,      \* the current time
    jobs,       \* the content_jobs table
    lastEvent,  \* the newest job_events row of each job
    cancels,    \* the status an API cancel under way has read, or "none"
    proc,       \* lifecycle of each worker process
    loop,       \* where each worker's loop is, and its recovery sweep
    exec        \* the executions of each worker, one per concurrency slot

vars == <<clock, jobs, lastEvent, cancels, proc, loop, exec>>

Slot == 1 .. Concurrency

-----------------------------------------------------------------------------
(* Types *)

EventTypes == {"none", "job-created", "job-lease-acquired", "job-completed",
               "job-retry-scheduled", "job-failed", "job-lease-expired",
               "job-cancelled"}

Event == [type        : EventTypes,
          priorStatus : ContentJobStatus \union {Absent},
          newStatus   : ContentJobStatus \union {Absent}]

NoEvent == [type |-> "none", priorStatus |-> Absent, newStatus |-> Absent]

\* stopping: shutdown requested; timedOut: the shutdown timeout has passed.
ProcState == {"off", "running", "stopping", "timedOut", "gone"}

\* A row the sweep has listed: its id and the attempt count it showed.
StaleEntry == [job : Job, attemptCount : Nat]

\* idle: at the top of the loop or asleep; acquiring: awaiting acquireNext;
\* sweeping: between the calls of StaleJobRecovery.runOnce; updating: inside
\* recoverStaleJob, after its SELECT found the row (exhausted is decided).
\* now is the time sampled for acquireNext, or for the sweep.
Loop == [pc        : {"idle", "acquiring", "sweeping", "updating"},
         now       : Nat,
         todo      : SUBSET StaleEntry,
         current   : StaleEntry,
         exhausted : BOOLEAN]

AnyJob == CHOOSE j \in Job : TRUE
IdleLoop == [pc |-> "idle", now |-> 0, todo |-> {},
             current |-> [job |-> AnyJob, attemptCount |-> 0],
             exhausted |-> FALSE]

\* processing: inside processor.process; completing, scheduling, failing and
\* exhausting: awaiting the statement that ends the attempt (exhausting is
\* markFailed with WORKER_MAX_ATTEMPTS_EXCEEDED); settling: in the finally
\* block.  steps counts the stages reported, beating says that a renewLease
\* is under way; now and beatNow are the times sampled for the two statements.
Ending == {"completing", "scheduling", "failing", "exhausting"}
ExecPc == {"free", "processing", "settling"} \union Ending
Exec == [pc        : ExecPc,
         job       : Job,
         attempt   : Nat,
         steps     : 0 .. 2,
         now       : Nat,
         beating   : BOOLEAN,
         beatNow   : Nat,
         leaseLost : BOOLEAN,
         aborted   : BOOLEAN]

FreeSlot == [pc |-> "free", job |-> AnyJob, attempt |-> 0, steps |-> 0,
             now |-> 0, beating |-> FALSE, beatNow |-> 0,
             leaseLost |-> FALSE, aborted |-> FALSE]

Started(j, attempt) ==
    [FreeSlot EXCEPT !.pc = "processing", !.job = j, !.attempt = attempt]

TypeOK ==
    /\ clock \in Nat
    /\ jobs \in [Job -> Row]
    /\ lastEvent \in [Job -> Event]
    /\ cancels \in [Job -> ContentJobStatus \union {"none"}]
    /\ proc \in [Worker -> ProcState]
    /\ loop \in [Worker -> Loop]
    /\ exec \in [Worker -> [Slot -> Exec]]

Init ==
    /\ clock = 0
    /\ jobs = [j \in Job |-> NoRow]
    /\ lastEvent = [j \in Job |-> NoEvent]
    /\ cancels = [j \in Job |-> "none"]
    /\ proc = [w \in Worker |-> "off"]
    /\ loop = [w \in Worker |-> IdleLoop]
    /\ exec = [w \in Worker |-> [s \in Slot |-> FreeSlot]]

-----------------------------------------------------------------------------
(* Writing a row *)

\* The values `now` may have when a statement takes effect that was issued no
\* more than MaxLag ago (for statements whose sample is not kept in the state).
Now == {t \in 0 .. clock : clock - t <= MaxLag}

\* A status change and its event, in one transaction.  prior is what the code
\* puts in the event: a literal, or a status it read earlier.
Commit(j, row, prior, type) ==
    /\ jobs' = [jobs EXCEPT ![j] = row]
    /\ lastEvent' = [lastEvent EXCEPT ![j] =
           [type |-> type, priorStatus |-> prior, newStatus |-> row.status]]

\* The UPDATE ... RETURNING of a single row, which writes no event.
Update(j, row) ==
    /\ jobs' = [jobs EXCEPT ![j] = row]
    /\ UNCHANGED lastEvent

NoWrite == UNCHANGED <<jobs, lastEvent>>

Live(w) == proc[w] \in {"running", "stopping", "timedOut"}

-----------------------------------------------------------------------------
(* The API *)

\* createOrGetIdempotent inserts the row of a new job.
Create(j) ==
    /\ jobs[j].status = Absent
    /\ Commit(j, Inserted, Absent, "job-created")
    /\ UNCHANGED <<clock, cancels, proc, loop, exec>>

\* cancel, first statement: read the row and check the transition.
CancelRead(j) ==
    /\ cancels[j] = "none"
    /\ isTransitionAllowed(jobs[j].status, "cancelled")
    /\ cancels' = [cancels EXCEPT ![j] = jobs[j].status]
    /\ UNCHANGED <<clock, jobs, lastEvent, proc, loop, exec>>

\* VARIANT of CancelUpdate: the row's status is not compared with the one read.
CancelUpdateUnguarded(j) ==
    /\ cancels[j] # "none"
    /\ Commit(j, Cancelled(jobs[j]), cancels[j], "job-cancelled")
    /\ cancels' = [cancels EXCEPT ![j] = "none"]
    /\ UNCHANGED <<clock, proc, loop, exec>>

\* cancel, second statement: UPDATE where the status is still the one read,
\* and the event with that status; otherwise the request ends in a conflict.
CancelUpdate(j) ==
    /\ cancels[j] # "none"
    /\ IF jobs[j].status = cancels[j]
       THEN Commit(j, Cancelled(jobs[j]), cancels[j], "job-cancelled")
       ELSE NoWrite
    /\ cancels' = [cancels EXCEPT ![j] = "none"]
    /\ UNCHANGED <<clock, proc, loop, exec>>

-----------------------------------------------------------------------------
(* Worker processes *)

Start(w) ==
    /\ proc[w] = "off"
    /\ proc' = [proc EXCEPT ![w] = "running"]
    /\ UNCHANGED <<clock, jobs, lastEvent, cancels, loop, exec>>

\* The process dies: its loop and its executions are gone, the rows it holds
\* stay processing until their leases run out.
Crash(w) ==
    /\ Live(w)
    /\ proc' = [proc EXCEPT ![w] = "gone"]
    /\ loop' = [loop EXCEPT ![w] = IdleLoop]
    /\ exec' = [exec EXCEPT ![w] = [s \in Slot |-> FreeSlot]]
    /\ UNCHANGED <<clock, jobs, lastEvent, cancels>>

\* Abort every execution that has started and is not in its finally block.
AbortAll(w) ==
    exec' = [exec EXCEPT ![w] = [s \in Slot |->
        [exec[w][s] EXCEPT !.aborted = exec[w][s].pc \notin {"free", "settling"}]]]

\* SIGINT or SIGTERM: the loop's signal aborts, and with it, through the
\* listener the loop has added, the controller of every execution that is
\* already registered.
RequestShutdown(w) ==
    /\ proc[w] = "running"
    /\ proc' = [proc EXCEPT ![w] = "stopping"]
    /\ AbortAll(w)
    /\ UNCHANGED <<clock, jobs, lastEvent, cancels, loop>>

\* The loop has ended with executions still active and the shutdown timeout
\* has passed: abort them all, including one acquired during the shutdown.
ShutdownTimeout(w) ==
    /\ proc[w] = "stopping"
    /\ loop[w].pc = "idle"
    /\ \E s \in Slot : exec[w][s].pc # "free"
    /\ proc' = [proc EXCEPT ![w] = "timedOut"]
    /\ AbortAll(w)
    /\ UNCHANGED <<clock, jobs, lastEvent, cancels, loop>>

\* run() returns once every execution has settled.
Exit(w) ==
    /\ proc[w] \in {"stopping", "timedOut"}
    /\ loop[w].pc = "idle"
    /\ \A s \in Slot : exec[w][s].pc = "free"
    /\ proc' = [proc EXCEPT ![w] = "gone"]
    /\ UNCHANGED <<clock, jobs, lastEvent, cancels, loop, exec>>

-----------------------------------------------------------------------------
(* Acquisition *)

\* The loop calls acquireNext while a slot is free and no shutdown is asked.
Poll(w) ==
    /\ proc[w] = "running"
    /\ loop[w].pc = "idle"
    /\ \E s \in Slot : exec[w][s].pc = "free"
    /\ loop' = [loop EXCEPT ![w] =
                       [@ EXCEPT !.pc = "acquiring", !.now = clock]]
    /\ UNCHANGED <<clock, jobs, lastEvent, cancels, proc, exec>>

\* FOR UPDATE SKIP LOCKED passes over a row that another transaction may hold.
MayBeLocked(j, w) ==
    \/ cancels[j] # "none"
    \/ \E v \in Worker \ {w} : loop[v].pc = "acquiring"

\* The oldest due row that is not locked.
Candidate(j, w, now) ==
    /\ Due(jobs[j], now)
    /\ \A i \in Job : i < j /\ Due(jobs[i], now) => MayBeLocked(i, w)

\* acquireNext returns a job: the loop starts its execution, with a controller
\* that is not aborted even when a shutdown was requested during the await.
AcquireNext(w, s, j) ==
    /\ loop[w].pc = "acquiring"
    /\ exec[w][s].pc = "free"
    /\ Candidate(j, w, loop[w].now)
    /\ Commit(j, Acquired(jobs[j], w, loop[w].now), jobs[j].status,
              "job-lease-acquired")
    /\ loop' = [loop EXCEPT ![w] = IdleLoop]
    /\ exec' = [exec EXCEPT ![w][s] = Started(j, jobs[j].attemptCount + 1)]
    /\ UNCHANGED <<clock, cancels, proc>>

\* acquireNext finds no row, or throws before it commits.
AcquireNothing(w) ==
    /\ loop[w].pc = "acquiring"
    /\ loop' = [loop EXCEPT ![w] = IdleLoop]
    /\ UNCHANGED <<clock, jobs, lastEvent, cancels, proc, exec>>

\* acquireNext commits and throws: the row is leased and nobody executes it.
AcquireThrows(w, j) ==
    /\ loop[w].pc = "acquiring"
    /\ Candidate(j, w, loop[w].now)
    /\ Commit(j, Acquired(jobs[j], w, loop[w].now), jobs[j].status,
              "job-lease-acquired")
    /\ loop' = [loop EXCEPT ![w] = IdleLoop]
    /\ UNCHANGED <<clock, cancels, proc, exec>>

-----------------------------------------------------------------------------
(* The recovery sweep: StaleJobRecovery.runOnce and recoverStaleJob.  One  *)
(* `now` serves the whole sweep, however long it takes.  The rows are      *)
(* taken in any order, which is the order of lease_expires_at and more.    *)

StaleJobs(now) ==
    {[job |-> j, attemptCount |-> jobs[j].attemptCount] :
        j \in {i \in Job : Stale(jobs[i], now)}}

\* runOnce samples now and lists the stale rows; an empty list ends the sweep.
ListStale(w) ==
    /\ proc[w] = "running"
    /\ loop[w].pc = "idle"
    /\ \E now \in Now :
          /\ StaleJobs(now) # {}
          /\ loop' = [loop EXCEPT ![w] =
                [@ EXCEPT !.pc = "sweeping", !.now = now,
                          !.todo = StaleJobs(now)]]
    /\ UNCHANGED <<clock, jobs, lastEvent, cancels, proc, exec>>

\* The next row of the sweep, or the end of it.
Resumed(l) ==
    IF l.todo = {} THEN IdleLoop
    ELSE [IdleLoop EXCEPT !.pc = "sweeping", !.now = l.now, !.todo = l.todo]

\* recoverStaleJob, first statement: SELECT the row if it is still stale and
\* decide from its attempt count; the row is not locked.
Selected(l, entry) ==
    LET rest == [l EXCEPT !.todo = @ \ {entry}]
        row == jobs[entry.job]
    IN  IF Stale(row, l.now)
        THEN [rest EXCEPT !.pc = "updating", !.current = entry,
                          !.exhausted = row.attemptCount >= MaxAttempts]
        ELSE Resumed(rest)

SelectStale(w, entry) ==
    /\ loop[w].pc = "sweeping"
    /\ entry \in loop[w].todo
    /\ loop' = [loop EXCEPT ![w] = Selected(@, entry)]
    /\ UNCHANGED <<clock, jobs, lastEvent, cancels, proc, exec>>

\* recoverStaleJob, second statement: UPDATE where the row is still stale, and
\* the event.  The delay comes from the attempt count the sweep listed.
RecoverStmt(w) ==
    LET l == loop[w]
        j == l.current.job
        nextAttemptAt ==
            l.now + calculateRetryDelayMs(l.current.attemptCount + 1)
    IN  IF Stale(jobs[j], l.now)
        THEN Commit(j, Recovered(jobs[j], l.exhausted, nextAttemptAt),
                    "processing", "job-lease-expired")
        ELSE NoWrite

\* VARIANT of UpdateStale: the UPDATE only checks the id of the row.
UpdateStaleUnguarded(w) ==
    /\ loop[w].pc = "updating"
    /\ LET l == loop[w] IN
       Commit(l.current.job,
              Recovered(jobs[l.current.job], l.exhausted, l.now),
              "processing", "job-lease-expired")
    /\ loop' = [loop EXCEPT ![w] = Resumed(@)]
    /\ UNCHANGED <<clock, cancels, proc, exec>>

UpdateStale(w) ==
    /\ loop[w].pc = "updating"
    /\ RecoverStmt(w)
    /\ loop' = [loop EXCEPT ![w] = Resumed(@)]
    /\ UNCHANGED <<clock, cancels, proc, exec>>

\* A statement of the sweep throws, committed or not: the loop logs it and goes
\* on; the rows left are for the next sweep.
SweepThrows(w) ==
    /\ \/ loop[w].pc \in {"sweeping", "updating"} /\ NoWrite
       \/ loop[w].pc = "updating" /\ RecoverStmt(w)
    /\ loop' = [loop EXCEPT ![w] = IdleLoop]
    /\ UNCHANGED <<clock, cancels, proc, exec>>

-----------------------------------------------------------------------------
(* An execution: JobExecutor.execute around the transcript processor *)

SetExec(w, s, e) == exec' = [exec EXCEPT ![w][s] = e]

\* The finally block reads none of the flags any more; a heartbeat under way
\* is awaited.
Settling(e) ==
    [e EXCEPT !.pc = "settling", !.steps = 0, !.now = 0,
              !.leaseLost = FALSE, !.aborted = FALSE]

\* VARIANT of AfterError: one attempt too many.
AfterErrorOffByOne(e, retryable) ==
    IF e.pc = "settling" \/ e.leaseLost \/ e.aborted THEN Settling(e)
    ELSE [e EXCEPT !.steps = 0, !.now = clock,
                   !.pc = IF ~retryable THEN "failing"
                          ELSE IF e.attempt > MaxAttempts THEN "exhausting"
                          ELSE "scheduling"]

\* Where execute goes when process() or markCompleted throws.
AfterError(e, retryable) ==
    IF e.pc = "settling" \/ e.leaseLost \/ e.aborted THEN Settling(e)
    ELSE [e EXCEPT !.steps = 0,
                   !.now = clock,
                   !.pc = IF ~retryable THEN "failing"
                          ELSE IF e.attempt >= MaxAttempts THEN "exhausting"
                          ELSE "scheduling"]

StageOf(steps) ==
    IF steps = 0 THEN "normalizing-transcript" ELSE "calculating-statistics"

\* reportStage: when markStage finds no row the execution has lost its lease.
MarkStage(w, s) ==
    LET e == exec[w][s] IN
    /\ e.pc = "processing"
    /\ e.steps < 2
    /\ \E now \in Now :
          IF Owned(jobs[e.job], w, now)
          THEN /\ Update(e.job, Staged(jobs[e.job], StageOf(e.steps)))
               /\ SetExec(w, s, [e EXCEPT !.steps = @ + 1])
          ELSE /\ NoWrite
               /\ SetExec(w, s, Settling(e))
    /\ UNCHANGED <<clock, cancels, proc, loop>>

\* reportStage throws although the stage was stored.
MarkStageThrows(w, s) ==
    LET e == exec[w][s] IN
    /\ e.pc = "processing"
    /\ e.steps < 2
    /\ \E now \in Now : Owned(jobs[e.job], w, now)
    /\ Update(e.job, Staged(jobs[e.job], StageOf(e.steps)))
    /\ SetExec(w, s, AfterError(e, TRUE))
    /\ UNCHANGED <<clock, cancels, proc, loop>>

\* VARIANT of StartHeartbeat: the timer is never stopped.
StartHeartbeatForever(w, s) ==
    LET e == exec[w][s] IN
    /\ e.pc # "free"
    /\ ~e.beating
    /\ SetExec(w, s, [e EXCEPT !.beating = TRUE, !.beatNow = clock])
    /\ UNCHANGED <<clock, jobs, lastEvent, cancels, proc, loop>>

\* The timer, or the processor, asks for a heartbeat; one is under way at most.
StartHeartbeat(w, s) ==
    LET e == exec[w][s] IN
    /\ e.pc \notin {"free", "settling"}
    /\ ~e.beating
    /\ ~e.aborted
    /\ SetExec(w, s, [e EXCEPT !.beating = TRUE, !.beatNow = clock])
    /\ UNCHANGED <<clock, jobs, lastEvent, cancels, proc, loop>>

RenewStmt(w, e) ==
    IF Owned(jobs[e.job], w, e.beatNow)
    THEN Update(e.job, Renewed(jobs[e.job], e.beatNow))
    ELSE NoWrite

Answered(e) == [e EXCEPT !.beating = FALSE, !.beatNow = 0]

LostLease(e) ==
    IF e.pc = "settling" THEN e
    ELSE [e EXCEPT !.leaseLost = TRUE, !.aborted = TRUE]

\* renewLease takes effect; a null answer loses the lease and aborts the
\* processor.  It may come while the attempt's last statement is under way, or
\* after it, when the finally block waits for it.
RenewLease(w, s) ==
    LET e == exec[w][s] IN
    /\ e.beating
    /\ RenewStmt(w, e)
    /\ SetExec(w, s, IF Owned(jobs[e.job], w, e.beatNow)
                     THEN Answered(e) ELSE LostLease(Answered(e)))
    /\ UNCHANGED <<clock, cancels, proc, loop>>

\* renewLease throws, committed or not, when the processor or the finally block
\* awaits it.
HeartbeatThrows(w, s) ==
    LET e == exec[w][s] IN
    /\ e.beating
    /\ e.pc \in {"processing", "settling"}
    /\ NoWrite \/ RenewStmt(w, e)
    /\ SetExec(w, s, AfterError(Answered(e), TRUE))
    /\ UNCHANGED <<clock, cancels, proc, loop>>

\* process() returns: both stages were reported and the signal is not aborted.
ProcessorSucceeds(w, s) ==
    LET e == exec[w][s] IN
    /\ e.pc = "processing"
    /\ e.steps = 2
    /\ ~e.aborted
    /\ SetExec(w, s, [e EXCEPT !.pc = "completing", !.steps = 0,
                               !.now = clock])
    /\ UNCHANGED <<clock, jobs, lastEvent, cancels, proc, loop>>

\* process() throws, at any point.
ProcessorThrows(w, s, retryable) ==
    LET e == exec[w][s] IN
    /\ e.pc = "processing"
    /\ SetExec(w, s, AfterError(e, retryable))
    /\ UNCHANGED <<clock, jobs, lastEvent, cancels, proc, loop>>

CompleteStmt(w, e) ==
    IF Owned(jobs[e.job], w, e.now)
    THEN Commit(e.job, Completed(jobs[e.job], e.attempt),
                "processing", "job-completed")
    ELSE NoWrite

RetryStmt(w, e) ==
    IF Owned(jobs[e.job], w, e.now)
    THEN Commit(e.job,
                RetryScheduled(jobs[e.job],
                    e.now + calculateRetryDelayMs(e.attempt + 1)),
                "processing", "job-retry-scheduled")
    ELSE NoWrite

FailureCode(e) ==
    IF e.pc = "exhausting" THEN "WORKER_MAX_ATTEMPTS_EXCEEDED"
                           ELSE "processor-error"

FailStmt(w, e) ==
    IF Owned(jobs[e.job], w, e.now)
    THEN Commit(e.job, Failed(jobs[e.job], FailureCode(e)),
                "processing", "job-failed")
    ELSE NoWrite

MarkCompleted(w, s) ==
    /\ exec[w][s].pc = "completing"
    /\ CompleteStmt(w, exec[w][s])
    /\ SetExec(w, s, Settling(exec[w][s]))
    /\ UNCHANGED <<clock, cancels, proc, loop>>

\* markCompleted throws, committed or not: execute's catch block treats it as
\* an error of the attempt and goes on to schedule a retry.
MarkCompletedThrows(w, s) ==
    LET e == exec[w][s] IN
    /\ e.pc = "completing"
    /\ NoWrite \/ CompleteStmt(w, e)
    /\ SetExec(w, s, AfterError(e, TRUE))
    /\ UNCHANGED <<clock, cancels, proc, loop>>

\* scheduleRetry and markFailed end the execution whatever they answer, and
\* when they throw.
ScheduleRetry(w, s) ==
    /\ exec[w][s].pc = "scheduling"
    /\ NoWrite \/ RetryStmt(w, exec[w][s])
    /\ SetExec(w, s, Settling(exec[w][s]))
    /\ UNCHANGED <<clock, cancels, proc, loop>>

MarkFailed(w, s) ==
    /\ exec[w][s].pc \in {"failing", "exhausting"}
    /\ NoWrite \/ FailStmt(w, exec[w][s])
    /\ SetExec(w, s, Settling(exec[w][s]))
    /\ UNCHANGED <<clock, cancels, proc, loop>>

\* The finally block is done and the loop forgets the execution.
Settle(w, s) ==
    /\ exec[w][s].pc = "settling"
    /\ ~exec[w][s].beating
    /\ SetExec(w, s, FreeSlot)
    /\ UNCHANGED <<clock, jobs, lastEvent, cancels, proc, loop>>

-----------------------------------------------------------------------------

\* No statement is under way for longer than MaxLag.
StatementsOnTime ==
    \A w \in Worker :
        /\ loop[w].pc = "acquiring" => clock - loop[w].now < MaxLag
        /\ \A s \in Slot :
              /\ exec[w][s].pc \in Ending => clock - exec[w][s].now < MaxLag
              /\ exec[w][s].beating => clock - exec[w][s].beatNow < MaxLag

Tick ==
    /\ clock < MaxTime
    /\ StatementsOnTime
    /\ clock' = clock + 1
    /\ UNCHANGED <<jobs, lastEvent, cancels, proc, loop, exec>>

ApiNext(j) == Create(j) \/ CancelRead(j) \/ CancelUpdate(j)

LoopNext(w) ==
    \/ Poll(w) \/ AcquireNothing(w)
    \/ \E j \in Job : AcquireThrows(w, j) \/ \E s \in Slot : AcquireNext(w, s, j)
    \/ ListStale(w) \/ UpdateStale(w) \/ SweepThrows(w)
    \/ \E entry \in loop[w].todo : SelectStale(w, entry)

ExecNext(w, s) ==
    \/ MarkStage(w, s) \/ MarkStageThrows(w, s)
    \/ StartHeartbeat(w, s) \/ RenewLease(w, s) \/ HeartbeatThrows(w, s)
    \/ ProcessorSucceeds(w, s)
    \/ \E retryable \in BOOLEAN : ProcessorThrows(w, s, retryable)
    \/ MarkCompleted(w, s) \/ MarkCompletedThrows(w, s)
    \/ ScheduleRetry(w, s) \/ MarkFailed(w, s) \/ Settle(w, s)

ProcNext(w) ==
    Start(w) \/ Crash(w) \/ RequestShutdown(w) \/ ShutdownTimeout(w) \/ Exit(w)

\* Every step but the passing of time.
Step ==
    \/ \E j \in Job : ApiNext(j)
    \/ \E w \in Worker : \/ ProcNext(w)
                         \/ LoopNext(w)
                         \/ \E s \in Slot : ExecNext(w, s)

Next == Step \/ Tick

Spec == Init /\ [][Next]_vars

-----------------------------------------------------------------------------
(* Properties *)

\* No job is stranded: a queued or retrying row carries no lease and a
\* retrying row a date, so acquireNext finds it one day; a processing row
\* carries a lease, so the sweep finds it one day; and a row that is over
\* holds no lease.  No constraint of the table says so: it is what the
\* statements of the two sides keep together.
NoStrandedJob ==
    \A j \in Job :
        /\ jobs[j].status = "processing" <=> jobs[j].leaseOwner # NoWorker
        /\ jobs[j].status = "processing" <=> jobs[j].leaseExpiresAt # NoTime
        /\ jobs[j].status = "retrying" => jobs[j].nextAttemptAt # NoTime

\* A completed job shows the result of its last attempt: no execution that
\* lost its lease gets its result in after a later attempt has begun.
\* Holds with one execution per worker process: with WORKER_CONCURRENCY above 1
\* the guard of the statements, which compares worker ids, is no fence between
\* two executions of one worker.
ResultOfLastAttempt ==
    \A j \in Job :
        /\ jobs[j].status = "completed" => jobs[j].result = jobs[j].attemptCount
        /\ jobs[j].status # "completed" => jobs[j].result = 0

\* WORKER_MAX_ATTEMPTS is the number of attempts a job gets: never more, and a
\* job is given up as exhausted only when it has had them all.
AttemptBudget ==
    \A j \in Job :
        /\ jobs[j].attemptCount <= MaxAttempts
        /\ jobs[j].errorCode = "WORKER_MAX_ATTEMPTS_EXCEEDED"
               => jobs[j].attemptCount = MaxAttempts

\* Every change of a status is one the domain's transition policy allows (the
\* worker side never consults it) and a row that is over never changes again.
PolicyStep ==
    \A j \in Job :
        /\ jobs[j].status \in Terminal => jobs'[j] = jobs[j]
        /\ jobs'[j].status # jobs[j].status =>
              \/ jobs[j].status = Absent /\ jobs'[j].status = "queued"
              \/ isTransitionAllowed(jobs[j].status, jobs'[j].status)
FollowsPolicy == [][PolicyStep]_jobs

\* The event log tells the truth: whenever the status changes an event is
\* written with it, and the event's priorStatus, which the cancel request read
\* in an earlier statement, is the status the row left.
EventStep ==
    \A j \in Job :
        jobs'[j].status # jobs[j].status =>
            /\ lastEvent'[j].priorStatus = jobs[j].status
            /\ lastEvent'[j].newStatus = jobs'[j].status
EventsTellTheTransition == [][EventStep]_<<jobs, lastEvent>>

\* A lease is honoured: the sweep, which works from a list and from a SELECT
\* that may both be old, takes a row away only when its lease has run out,
\* whatever heartbeats have renewed it since.
RecoveryStep ==
    \A j \in Job :
        (lastEvent'[j] # lastEvent[j] /\ lastEvent'[j].type = "job-lease-expired")
            => jobs[j].leaseExpiresAt <= clock
LeaseHonoured == [][RecoveryStep]_<<jobs, lastEvent>>

-----------------------------------------------------------------------------
(* The promise of JobLifecycle, kept *)

Failure(row) ==
    IF row.status # "failed" THEN "none"
    ELSE IF row.errorCode = "WORKER_MAX_ATTEMPTS_EXCEEDED" THEN "exhausted"
    ELSE "error"

View(row) == [status |-> row.status, attempts |-> row.attemptCount,
              result |-> row.result, failure |-> Failure(row)]

Lifecycle == INSTANCE JobLifecycle WITH job <- [j \in Job |-> View(jobs[j])]

\* Through crashes, late statements, lost answers and races of the sweep with
\* the executor, the table behaves as JobLifecycle says.
ImplementsLifecycle == Lifecycle!Spec

-----------------------------------------------------------------------------
(* The inductive invariant behind these properties *)

\* A cancel request holds a status it may cancel.
CancelSeen == \A j \in Job : cancels[j] \in {"none", "queued", "retrying"}

\* No sampled time is in the future, and a statement under way is not late.
Sampled ==
    \A w \in Worker :
        /\ loop[w].now <= clock
        /\ loop[w].pc = "acquiring" => clock - loop[w].now <= MaxLag
        /\ \A s \in Slot :
              exec[w][s].beating => /\ exec[w][s].beatNow <= clock
                                    /\ clock - exec[w][s].beatNow <= MaxLag

\* The fence: where a row is leased to the worker of an execution that was
\* started for it, the row's current attempt is that execution's.
Fenced ==
    \A w \in Worker, s \in Slot :
        LET e == exec[w][s] IN
        (/\ e.pc # "free"
         /\ jobs[e.job].status = "processing"
         /\ jobs[e.job].leaseOwner = w) => jobs[e.job].attemptCount = e.attempt

\* An execution about to schedule a retry has attempts left, one about to give
\* up has none.
EndingDecision ==
    \A w \in Worker, s \in Slot :
        /\ exec[w][s].pc = "scheduling" => exec[w][s].attempt < MaxAttempts
        /\ exec[w][s].pc = "exhausting" => exec[w][s].attempt >= MaxAttempts

\* The sweep's decision, taken from a SELECT, is still right for the row its
\* UPDATE will change.
SweepDecision ==
    \A w \in Worker :
        LET l == loop[w]
            row == jobs[l.current.job]
        IN  (l.pc = "updating" /\ Stale(row, l.now))
               => (l.exhausted <=> row.attemptCount >= MaxAttempts)

\* A row that waits for an attempt has attempts left.
RowBudget ==
    \A j \in Job :
        /\ jobs[j].attemptCount <= MaxAttempts
        /\ jobs[j].status \in {Absent, "queued", "retrying"}
               => jobs[j].attemptCount < MaxAttempts
        /\ jobs[j].errorCode = "WORKER_MAX_ATTEMPTS_EXCEEDED"
               => jobs[j].status = "failed" /\ jobs[j].attemptCount = MaxAttempts

BudgetInv == Sampled /\ EndingDecision /\ SweepDecision /\ RowBudget

=============================================================================
