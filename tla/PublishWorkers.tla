--------------------------- MODULE PublishWorkers ---------------------------
(***************************************************************************)
(* The publish queue at work: publish worker processes                     *)
(* (PublishWorkerLoop, PublishJobExecutor, PublishStaleRecovery) and the   *)
(* API share the publish_jobs table of PublishJobStore and drive a remote  *)
(* render engine.                                                          *)
(*                                                                         *)
(* A step is one committed statement or transaction, one answer of the     *)
(* engine, or what a process does between two awaits.  Any call may throw, *)
(* with its effect or without; a process may crash at any point.  The      *)
(* statements that end an execution write their event in a second          *)
(* statement, outside a transaction: its failure is a step of its own, the *)
(* event log itself is left out.                                           *)
(*                                                                         *)
(* The processes' clocks agree.  A process samples `now` before it awaits  *)
(* a statement; a statement is under way for at most MaxLag ticks, which   *)
(* is a parameter because nothing in the code bounds it.                   *)
(***************************************************************************)
EXTENDS PublishJobStore

CONSTANTS
    Job,                     \* publish jobs
    Concurrency,             \* PUBLISH_JOB_CONCURRENCY
    MaxConsecutiveFailures,  \* PUBLISH_JOB_MAX_CONSECUTIVE_FAILURES
    MaxLag,                  \* the longest time a statement is under way
    MaxTime                  \* bound on clock

ASSUME JobAssumption == Job # {}
ASSUME ConcurrencyAssumption == Concurrency \in Nat \ {0}
ASSUME MaxConsecutiveFailuresAssumption == MaxConsecutiveFailures \in Nat \ {0}
ASSUME MaxLagAssumption == MaxLag \in Nat
ASSUME MaxTimeAssumption == MaxTime \in Nat

VARIABLES
    clock,    \* the current time
    jobs,     \* the publish_jobs table
    sent,     \* jobs for which a submission request is, or was, on the wire
    remote,   \* the engine's job for each publish job's idempotency key
    proc,     \* lifecycle of each worker process
    loop,     \* where each worker's loop is
    exec,     \* the executions of each worker, one per concurrency slot
    orphans   \* renewals under way whose remote call has ended

vars == <<clock, jobs, sent, remote, proc, loop, exec, orphans>>

Slot == 1 .. Concurrency

-----------------------------------------------------------------------------
(* Types *)

RemoteState == {"none", "running", "completed", "failed", "cancelled"}

ProcState == {"off", "running", "stopping", "gone"}

\* What recoverStaleLeases has read of a stale row.
Seen == [remoteJobId : RemoteJobId, consecutiveFailureCount : Nat]

\* acquiring: awaiting acquireNext; sweeping: inside the transaction of
\* recoverStaleLeases, after its SELECT, which returned the rows of seen.
Loop == [pc   : {"idle", "acquiring", "sweeping"},
         now  : Nat,
         rows : SUBSET Job,
         seen : [Job -> Seen]]

NothingSeen == [remoteJobId |-> "none", consecutiveFailureCount |-> 0]
IdleLoop == [pc |-> "idle", now |-> 0, rows |-> {},
             seen |-> [j \in Job |-> NothingSeen]]

\* reading: getById; staging, fetching: setStage; Calls: a remote call inside
\* withHeartbeat; Recording: the statements inside the try block; logging: the
\* event of such a statement; Handling: the statements of handleFailure.
Calls == {"submitting", "polling", "downloading"}
Recording == {"recording", "waiting", "remote-failed", "remote-cancelled",
              "completing"}
Handling == {"failing", "exhausting", "retrying"}
ExecPc == {"free", "reading", "staging", "fetching", "logging"}
              \union Calls \union Recording \union Handling

\* remoteJobId and failures are what getById showed; now is the time sampled
\* for the statement under way, beatNow the one for the renewal under way.
Exec == [pc          : ExecPc,
         job         : Job,
         remoteJobId : RemoteJobId,
         failures    : Nat,
         code        : ErrorCodes,
         now         : Nat,
         beating     : BOOLEAN,
         beatNow     : Nat,
         leaseLost   : BOOLEAN]

AnyJob == CHOOSE j \in Job : TRUE
FreeSlot == [pc |-> "free", job |-> AnyJob, remoteJobId |-> "none",
             failures |-> 0, code |-> "none", now |-> 0, beating |-> FALSE,
             beatNow |-> 0, leaseLost |-> FALSE]

Orphan == [job : Job, now : Nat]

TypeOK ==
    /\ clock \in Nat
    /\ jobs \in [Job -> Row]
    /\ sent \in SUBSET Job
    /\ remote \in [Job -> RemoteState]
    /\ proc \in [Worker -> ProcState]
    /\ loop \in [Worker -> Loop]
    /\ exec \in [Worker -> [Slot -> Exec]]
    /\ orphans \in [Worker -> SUBSET Orphan]

Init ==
    /\ clock = 0
    /\ jobs = [j \in Job |-> NoRow]
    /\ sent = {}
    /\ remote = [j \in Job |-> "none"]
    /\ proc = [w \in Worker |-> "off"]
    /\ loop = [w \in Worker |-> IdleLoop]
    /\ exec = [w \in Worker |-> [s \in Slot |-> FreeSlot]]
    /\ orphans = [w \in Worker |-> {}]

-----------------------------------------------------------------------------

\* The values `now` may have when a statement takes effect that was issued no
\* more than MaxLag ago (for statements whose sample is not kept in the state).
Now == {t \in 0 .. clock : clock - t <= MaxLag}

Write(j, row) == jobs' = [jobs EXCEPT ![j] = row]

SetExec(w, s, e) == exec' = [exec EXCEPT ![w][s] = e]

Engine == <<sent, remote>>

-----------------------------------------------------------------------------
(* The API *)

\* createOrGetIdempotent inserts the row of a new publish job.
Create(j) ==
    /\ jobs[j].status = Absent
    /\ \E now \in Now : Write(j, Inserted(now))
    /\ UNCHANGED <<clock, Engine, proc, loop, exec, orphans>>

\* cancel is one transaction; its UPDATE compares the status it has read, so it
\* is as if both happened at once.  Nothing is sent to the engine.
Cancel(j) ==
    /\ Cancellable(jobs[j])
    /\ Write(j, Cancelled(jobs[j]))
    /\ UNCHANGED <<clock, Engine, proc, loop, exec, orphans>>

-----------------------------------------------------------------------------
(* The remote engine.  A submission may be processed at any time after it  *)
(* was sent, also after its sender has given up; the idempotency key makes *)
(* all submissions of a publish job the same remote job.                   *)

EngineAccepts(j) ==
    /\ j \in sent
    /\ remote[j] = "none"
    /\ remote' = [remote EXCEPT ![j] = "running"]
    /\ UNCHANGED <<clock, jobs, sent, proc, loop, exec, orphans>>

EngineFinishes(j) ==
    /\ remote[j] = "running"
    /\ \E state \in {"completed", "failed", "cancelled"} :
          remote' = [remote EXCEPT ![j] = state]
    /\ UNCHANGED <<clock, jobs, sent, proc, loop, exec, orphans>>

-----------------------------------------------------------------------------
(* Worker processes *)

Start(w) ==
    /\ proc[w] = "off"
    /\ proc' = [proc EXCEPT ![w] = "running"]
    /\ UNCHANGED <<clock, jobs, Engine, loop, exec, orphans>>

\* The process dies, with its executions and its statements under way; a
\* renewal that throws is an unhandled rejection and has this effect too.
Crash(w) ==
    /\ proc[w] \in {"running", "stopping"}
    /\ proc' = [proc EXCEPT ![w] = "gone"]
    /\ loop' = [loop EXCEPT ![w] = IdleLoop]
    /\ exec' = [exec EXCEPT ![w] = [s \in Slot |-> FreeSlot]]
    /\ orphans' = [orphans EXCEPT ![w] = {}]
    /\ UNCHANGED <<clock, jobs, Engine>>

\* SIGINT or SIGTERM: the loop's signal, which every execution has been given.
RequestShutdown(w) ==
    /\ proc[w] = "running"
    /\ proc' = [proc EXCEPT ![w] = "stopping"]
    /\ UNCHANGED <<clock, jobs, Engine, loop, exec, orphans>>

\* run() returns once every execution has settled; the shutdown timeout is
\* only logged.  Then the pool is closed.
Exit(w) ==
    /\ proc[w] = "stopping"
    /\ loop[w].pc = "idle"
    /\ \A s \in Slot : exec[w][s].pc = "free"
    /\ orphans[w] = {}
    /\ proc' = [proc EXCEPT ![w] = "gone"]
    /\ UNCHANGED <<clock, jobs, Engine, loop, exec, orphans>>

-----------------------------------------------------------------------------
(* The loop: claims and sweeps *)

\* The loop calls acquireNext while a slot is free and no shutdown is asked.
Poll(w) ==
    /\ proc[w] = "running"
    /\ loop[w].pc = "idle"
    /\ \E s \in Slot : exec[w][s].pc = "free"
    /\ loop' = [loop EXCEPT ![w] =
                       [@ EXCEPT !.pc = "acquiring", !.now = clock]]
    /\ UNCHANGED <<clock, jobs, Engine, proc, exec, orphans>>

\* The claim goes to the due row with the oldest date, but SKIP LOCKED passes
\* over rows another transaction holds, such as a cancel or another claim: any
\* due row may be the one.
ClaimStmt(w, j) ==
    /\ loop[w].pc = "acquiring"
    /\ Due(jobs[j], loop[w].now)
    /\ Write(j, Claimed(jobs[j], w, loop[w].now))
    /\ loop' = [loop EXCEPT ![w] = IdleLoop]

AcquireNext(w, s, j) ==
    /\ ClaimStmt(w, j)
    /\ exec[w][s].pc = "free"
    /\ SetExec(w, s, [FreeSlot EXCEPT !.pc = "reading", !.job = j])
    /\ UNCHANGED <<clock, Engine, proc, orphans>>

\* acquireNext commits and throws: the row is leased and nobody executes it.
AcquireThrows(w, j) ==
    /\ ClaimStmt(w, j)
    /\ UNCHANGED <<clock, Engine, proc, exec, orphans>>

\* acquireNext finds no row, or throws before it commits.
AcquireNothing(w) ==
    /\ loop[w].pc = "acquiring"
    /\ loop' = [loop EXCEPT ![w] = IdleLoop]
    /\ UNCHANGED <<clock, jobs, Engine, proc, exec, orphans>>

\* recoverStaleLeases begins: its SELECT takes no lock.
SweepSelect(w) ==
    /\ proc[w] = "running"
    /\ loop[w].pc = "idle"
    /\ \E now \in Now :
          LET stale == {j \in Job : Stale(jobs[j], now)}
              seenOf(j) ==
                [remoteJobId |-> jobs[j].remoteJobId,
                 consecutiveFailureCount |-> jobs[j].consecutiveFailureCount]
          IN  /\ stale # {}
              /\ loop' = [loop EXCEPT ![w] =
                    [pc |-> "sweeping", now |-> now, rows |-> stale,
                     seen |-> [j \in Job |-> IF j \in stale THEN seenOf(j)
                                             ELSE NothingSeen]]]
    /\ UNCHANGED <<clock, jobs, Engine, proc, exec, orphans>>

\* One UPDATE per row, if the row is still stale, decided from what the SELECT
\* has seen.  A row that is updated stays locked until the transaction
\* commits, so it is as if all were updated then.
RecoverStmt(w) ==
    LET l == loop[w]
        recovered(j) ==
            Recovered(jobs[j], l.seen[j],
                l.seen[j].consecutiveFailureCount + 1 >= MaxConsecutiveFailures,
                l.now + calculateRetryDelayMs(1))
    IN  jobs' = [j \in Job |-> IF j \in l.rows /\ Stale(jobs[j], l.now)
                               THEN recovered(j) ELSE jobs[j]]

\* VARIANT of SweepCommit: the UPDATE only checks the id of the row.
SweepCommitUnguarded(w) ==
    /\ loop[w].pc = "sweeping"
    /\ jobs' = [j \in Job |->
          IF j \in loop[w].rows
          THEN Recovered(jobs[j], loop[w].seen[j], FALSE, loop[w].now)
          ELSE jobs[j]]
    /\ loop' = [loop EXCEPT ![w] = IdleLoop]
    /\ UNCHANGED <<clock, Engine, proc, exec, orphans>>

\* The transaction commits, whether the loop learns of it or not.
SweepCommit(w) ==
    /\ loop[w].pc = "sweeping"
    /\ RecoverStmt(w)
    /\ loop' = [loop EXCEPT ![w] = IdleLoop]
    /\ UNCHANGED <<clock, Engine, proc, exec, orphans>>

\* The transaction is rolled back; the loop logs it and goes on.
SweepThrows(w) ==
    /\ loop[w].pc = "sweeping"
    /\ loop' = [loop EXCEPT ![w] = IdleLoop]
    /\ UNCHANGED <<clock, jobs, Engine, proc, exec, orphans>>

-----------------------------------------------------------------------------
(* An execution: PublishJobExecutor.execute *)

\* A statement inside the execution is about to be sent; setStage's guard
\* does not use its time.
Goto(e, pc) ==
    [e EXCEPT !.pc = pc, !.now = IF pc = "fetching" THEN 0 ELSE clock]

\* getById: the job must still be the worker's, though its lease may be over.
ReadJob(w, s) ==
    LET e == exec[w][s]
        row == jobs[e.job]
    IN  /\ e.pc = "reading"
        /\ SetExec(w, s,
              IF Held(row, w)
              THEN [e EXCEPT !.pc = "staging",
                             !.remoteJobId = row.remoteJobId,
                             !.failures = row.consecutiveFailureCount]
              ELSE FreeSlot)
        /\ UNCHANGED <<clock, jobs, Engine, proc, loop, orphans>>

StageFor(e) ==
    IF e.pc = "fetching" THEN "retrieving-download"
    ELSE IF e.remoteJobId = "known" THEN "checking-remote-status"
    ELSE "submitting"

\* VARIANT of StageStmt: the UPDATE only checks the id of the row.
StageStmtUnguarded(w, e) == Write(e.job, Staged(jobs[e.job], StageFor(e)))

StageStmt(w, e) ==
    IF Held(jobs[e.job], w)
    THEN Write(e.job, Staged(jobs[e.job], StageFor(e)))
    ELSE UNCHANGED jobs

\* setStage, whose answer nobody looks at: the execution goes on when the job
\* is no longer its own.
SetStage(w, s) ==
    LET e == exec[w][s] IN
    /\ e.pc \in {"staging", "fetching"}
    /\ StageStmt(w, e)
    /\ SetExec(w, s,
          [e EXCEPT !.pc = IF e.pc = "fetching" THEN "downloading"
                           ELSE IF e.remoteJobId = "known" THEN "polling"
                           ELSE "submitting"])
    /\ UNCHANGED <<clock, Engine, proc, loop, orphans>>

\* getById or the first setStage throws: execute rejects, the loop logs it, and
\* the row is left to the sweep.
ExecuteRejects(w, s) ==
    LET e == exec[w][s] IN
    /\ e.pc \in {"reading", "staging"}
    /\ \/ UNCHANGED jobs
       \/ e.pc = "staging" /\ StageStmt(w, e)
    /\ SetExec(w, s, FreeSlot)
    /\ UNCHANGED <<clock, Engine, proc, loop, orphans>>

\* VARIANT of HandleFailure: one failure too many.
HandleFailureOffByOne(e, failure) ==
    LET failed == [e EXCEPT !.now = clock, !.leaseLost = FALSE,
                            !.beating = FALSE, !.beatNow = 0]
        count == e.failures + 1
    IN  IF ~failure.retryable
        THEN [failed EXCEPT !.pc = "failing", !.code = failure.code]
        ELSE IF count > MaxConsecutiveFailures
        THEN [failed EXCEPT !.pc = "exhausting",
                            !.code = "PUBLISH_JOB_RETRY_EXHAUSTED"]
        ELSE [failed EXCEPT !.pc = "retrying", !.code = failure.code]

\* handleFailure: fail at once, give up, or retry; decided from the failures
\* that getById showed.
HandleFailure(e, failure) ==
    LET failed == [e EXCEPT !.now = clock, !.leaseLost = FALSE,
                            !.beating = FALSE, !.beatNow = 0]
        count == e.failures + 1
    IN  IF ~failure.retryable
        THEN [failed EXCEPT !.pc = "failing", !.code = failure.code]
        ELSE IF count >= MaxConsecutiveFailures
        THEN [failed EXCEPT !.pc = "exhausting",
                            !.code = "PUBLISH_JOB_RETRY_EXHAUSTED"]
        ELSE [failed EXCEPT !.pc = "retrying", !.code = failure.code]

-----------------------------------------------------------------------------
(* Remote calls, with the heartbeat of withHeartbeat around them *)

Aborted(w, e) == e.leaseLost \/ proc[w] # "running"

\* The operation is over: the timer is cleared, a renewal under way is not
\* waited for.  An answer that comes after the lease was seen lost ends the
\* execution.
LeaveCall(w, s, next) ==
    LET e == exec[w][s] IN
    /\ SetExec(w, s,
          IF e.leaseLost /\ next.pc \notin Handling THEN FreeSlot
          ELSE [next EXCEPT !.beating = FALSE, !.beatNow = 0,
                            !.leaseLost = FALSE])
    /\ orphans' = IF e.beating
                  THEN [orphans EXCEPT ![w] =
                           @ \union {[job |-> e.job, now |-> e.beatNow]}]
                  ELSE orphans

\* The client puts the submission on the wire, unless it is aborted already.
SubmitSend(w, s) ==
    LET e == exec[w][s] IN
    /\ e.pc = "submitting"
    /\ e.job \notin sent
    /\ ~Aborted(w, e)
    /\ sent' = sent \union {e.job}
    /\ UNCHANGED <<clock, jobs, remote, proc, loop, exec, orphans>>

\* submitRender or submitCtaRender answers with the remote job.
SubmitAnswered(w, s) ==
    LET e == exec[w][s] IN
    /\ e.pc = "submitting"
    /\ e.job \in sent /\ remote[e.job] # "none"
    /\ LeaveCall(w, s, Goto(e, "recording"))
    /\ UNCHANGED <<clock, jobs, Engine, proc, loop>>

\* VARIANT of PollAnswered: a failed remote job is taken for a completed one.
PollAnsweredLax(w, s) ==
    LET e == exec[w][s] IN
    /\ e.pc = "polling"
    /\ remote[e.job] # "none"
    /\ LeaveCall(w, s, Goto(e, IF remote[e.job] = "running" THEN "waiting"
                               ELSE "completing"))
    /\ UNCHANGED <<clock, jobs, Engine, proc, loop>>

\* getJob answers with the state of the remote job, which may change before
\* the answer is recorded.
PollAnswered(w, s) ==
    LET e == exec[w][s] IN
    /\ e.pc = "polling"
    /\ remote[e.job] # "none"
    /\ LeaveCall(w, s, Goto(e, CASE remote[e.job] = "running" -> "waiting"
                                 [] remote[e.job] = "failed" -> "remote-failed"
                                 [] remote[e.job] = "cancelled"
                                        -> "remote-cancelled"
                                 [] OTHER -> "fetching"))
    /\ UNCHANGED <<clock, jobs, Engine, proc, loop>>

\* getDownload answers, and the metadata are valid.
DownloadAnswered(w, s) ==
    LET e == exec[w][s] IN
    /\ e.pc = "downloading"
    /\ LeaveCall(w, s, Goto(e, "completing"))
    /\ UNCHANGED <<clock, jobs, Engine, proc, loop>>

\* The call, or the validation around it, throws.  cancelled is what the client
\* throws when the signal aborts, and also when fetch rejects as an abort by
\* itself (cancelled and broken in RemoteCall).
CallThrows(w, s, failure) ==
    LET e == exec[w][s] IN
    /\ e.pc \in Calls
    /\ LeaveCall(w, s, HandleFailure(e, failure))
    /\ UNCHANGED <<clock, jobs, Engine, proc, loop>>

StartHeartbeat(w, s) ==
    LET e == exec[w][s] IN
    /\ e.pc \in Calls
    /\ ~e.beating
    /\ ~Aborted(w, e)
    /\ SetExec(w, s, [e EXCEPT !.beating = TRUE, !.beatNow = clock])
    /\ UNCHANGED <<clock, jobs, Engine, proc, loop, orphans>>

RenewStmt(w, j, now) ==
    IF Owned(jobs[j], w, now) THEN Write(j, Renewed(jobs[j], now))
                              ELSE UNCHANGED jobs

\* renewLease takes effect; when it finds no row the operation is aborted.
RenewLease(w, s) ==
    LET e == exec[w][s] IN
    /\ e.beating
    /\ RenewStmt(w, e.job, e.beatNow)
    /\ SetExec(w, s, [e EXCEPT !.beating = FALSE, !.beatNow = 0,
                         !.leaseLost = ~Owned(jobs[e.job], w, e.beatNow)])
    /\ UNCHANGED <<clock, Engine, proc, loop, orphans>>

\* A renewal takes effect, or not, after its operation has ended: perhaps when
\* the worker has claimed the job again.
LateRenewal(w, o) ==
    /\ o \in orphans[w]
    /\ RenewStmt(w, o.job, o.now)
    /\ orphans' = [orphans EXCEPT ![w] = @ \ {o}]
    /\ UNCHANGED <<clock, Engine, proc, loop, exec>>

-----------------------------------------------------------------------------
(* The statements that end an execution *)

Outcome(row, e) ==
    CASE e.pc = "recording" -> Submitted(row, e.now)
      [] e.pc = "waiting" -> RemoteWaiting(row, e.now)
      [] e.pc = "completing" -> Completed(row)
      [] e.pc = "remote-failed" -> Failed(row, "PUBLISH_REMOTE_JOB_FAILED")
      [] e.pc = "remote-cancelled" -> Cancelled(row)
      [] e.pc = "retrying" ->
            RetryRecorded(row, e.code,
                          e.now + calculateRetryDelayMs(e.failures + 1))
      [] OTHER -> Failed(row, e.code)

OutcomeStmt(w, e) ==
    IF Owned(jobs[e.job], w, e.now)
    THEN Write(e.job, Outcome(jobs[e.job], e))
    ELSE UNCHANGED jobs

\* recordSubmission, recordRemoteWaiting, fail, markRemoteCancelled or
\* complete: the UPDATE, and then the event; or no row, and the lease is lost.
Record(w, s) ==
    LET e == exec[w][s] IN
    /\ e.pc \in Recording
    /\ OutcomeStmt(w, e)
    /\ SetExec(w, s, IF Owned(jobs[e.job], w, e.now)
                     THEN [e EXCEPT !.pc = "logging", !.now = 0] ELSE FreeSlot)
    /\ UNCHANGED <<clock, Engine, proc, loop, orphans>>

\* It throws, committed or not: the catch block handles a database error, which
\* is no error to retry.  So does a setStage that throws in the try block.
RecordThrows(w, s) ==
    LET e == exec[w][s] IN
    /\ \/ e.pc \in Recording /\ (UNCHANGED jobs \/ OutcomeStmt(w, e))
       \/ e.pc = "fetching" /\ (UNCHANGED jobs \/ StageStmt(w, e))
    /\ SetExec(w, s, HandleFailure(e, DatabaseError))
    /\ UNCHANGED <<clock, Engine, proc, loop, orphans>>

\* The event is inserted, and the execution is over.
LogEvent(w, s) ==
    /\ exec[w][s].pc = "logging"
    /\ SetExec(w, s, FreeSlot)
    /\ UNCHANGED <<clock, jobs, Engine, proc, loop, orphans>>

\* The event is not inserted: the change has taken effect and the executor
\* handles a failure.
LogThrows(w, s) ==
    /\ exec[w][s].pc = "logging"
    /\ SetExec(w, s, HandleFailure(exec[w][s], DatabaseError))
    /\ UNCHANGED <<clock, jobs, Engine, proc, loop, orphans>>

\* fail or recordRetry of handleFailure: whatever it answers, and when it or
\* its event throws, the execution is over.
Handle(w, s) ==
    LET e == exec[w][s] IN
    /\ e.pc \in Handling
    /\ UNCHANGED jobs \/ OutcomeStmt(w, e)
    /\ SetExec(w, s, FreeSlot)
    /\ UNCHANGED <<clock, Engine, proc, loop, orphans>>

-----------------------------------------------------------------------------

\* No statement is under way for longer than MaxLag.
StatementsOnTime ==
    \A w \in Worker :
        /\ loop[w].pc = "acquiring" => clock - loop[w].now < MaxLag
        /\ \A o \in orphans[w] : clock - o.now < MaxLag
        /\ \A s \in Slot :
              /\ exec[w][s].pc \in Recording \union Handling
                     => clock - exec[w][s].now < MaxLag
              /\ exec[w][s].beating => clock - exec[w][s].beatNow < MaxLag

Tick ==
    /\ clock < MaxTime
    /\ StatementsOnTime
    /\ clock' = clock + 1
    /\ UNCHANGED <<jobs, Engine, proc, loop, exec, orphans>>

ApiNext(j) == Create(j) \/ Cancel(j)

EngineNext(j) == EngineAccepts(j) \/ EngineFinishes(j)

ProcNext(w) == Start(w) \/ Crash(w) \/ RequestShutdown(w) \/ Exit(w)

LoopNext(w) ==
    \/ Poll(w) \/ AcquireNothing(w)
    \/ \E j \in Job : AcquireThrows(w, j) \/ \E s \in Slot : AcquireNext(w, s, j)
    \/ SweepSelect(w) \/ SweepCommit(w) \/ SweepThrows(w)

ExecNext(w, s) ==
    \/ ReadJob(w, s) \/ SetStage(w, s) \/ ExecuteRejects(w, s)
    \/ SubmitSend(w, s) \/ SubmitAnswered(w, s) \/ PollAnswered(w, s)
    \/ DownloadAnswered(w, s)
    \/ \E failure \in Failures : CallThrows(w, s, failure)
    \/ StartHeartbeat(w, s) \/ RenewLease(w, s)
    \/ Record(w, s) \/ RecordThrows(w, s)
    \/ LogEvent(w, s) \/ LogThrows(w, s) \/ Handle(w, s)

WorkerNext(w) ==
    \/ LoopNext(w)
    \/ \E s \in Slot : ExecNext(w, s)
    \/ \E o \in orphans[w] : LateRenewal(w, o)

Next ==
    \/ \E j \in Job : ApiNext(j) \/ EngineNext(j)
    \/ \E w \in Worker : ProcNext(w) \/ WorkerNext(w)
    \/ Tick

Spec == Init /\ [][Next]_vars

-----------------------------------------------------------------------------
(* Properties *)

\* No job is stranded: whatever holds no lease has a date at which acquireNext
\* finds it, what is being processed has a lease at whose end the sweep finds
\* it.  A waiting job holds no lease (README.md:194) and has a remote job to
\* ask for.
NoStrandedJob ==
    \A j \in Job :
        LET row == jobs[j] IN
        /\ row.status = "processing" <=> row.leaseOwner # NoWorker
        /\ row.status = "processing" <=> row.leaseExpiresAt # NoTime
        /\ row.status = "retrying" => row.nextAttemptAt # NoTime
        /\ row.status = "waiting" => /\ row.nextPollAt # NoTime
                                     /\ row.remoteJobId = "known"

\* What a job shows agrees with the engine: no answer that was overtaken, no
\* lost acknowledgement and no error path makes a job completed, or failed with
\* the remote job's failure, unless the remote job is.
OutcomeTruthful ==
    \A j \in Job :
        LET row == jobs[j] IN
        /\ row.remoteJobId = "known" => remote[j] # "none"
        /\ row.status = "completed"
               => row.remoteJobId = "known" /\ remote[j] = "completed"
        /\ row.errorCode = "PUBLISH_REMOTE_JOB_FAILED" => remote[j] = "failed"

\* PUBLISH_JOB_MAX_CONSECUTIVE_FAILURES bounds the failures in a row of a job
\* that goes on, and only the last of them gives the job up as exhausted.
FailureBudget ==
    \A j \in Job :
        LET row == jobs[j] IN
        /\ row.status \notin Terminal
               => row.consecutiveFailureCount < MaxConsecutiveFailures
        /\ row.errorCode = "PUBLISH_JOB_RETRY_EXHAUSTED"
               => /\ row.status = "failed"
                  /\ row.consecutiveFailureCount + 1 >= MaxConsecutiveFailures

\* The stage says where the status says the job is, although setStage does not
\* look at the lease's expiry and the claim leaves the old stage.
StageAgrees ==
    \A j \in Job :
        LET row == jobs[j] IN
        /\ row.status = "waiting" => row.stage = "waiting-for-remote"
        /\ row.status \in {"completed", "cancelled"} => row.stage = row.status
        /\ row.status \in {"failed", "retrying"} => row.stage = "failed"

\* Every change of a status is one the transition policy allows, which the
\* repository never consults; a row that is over never changes, and a remote id
\* that is known is never forgotten.
PolicyStep ==
    \A j \in Job :
        /\ jobs[j].status \in Terminal => jobs'[j] = jobs[j]
        /\ jobs[j].remoteJobId = "known" => jobs'[j].remoteJobId = "known"
        /\ jobs'[j].status # jobs[j].status =>
              \/ jobs[j].status = Absent /\ jobs'[j].status = "queued"
              \/ isPublishJobTransitionAllowed(jobs[j].status, jobs'[j].status)
FollowsPolicy == [][PolicyStep]_jobs

\* A lease is honoured: nobody but an execution of its holder ends the
\* processing of a job before the lease runs out, however old what the sweep
\* has read is.
LeaseStep ==
    \A j \in Job :
        (/\ jobs[j].status = "processing"
         /\ jobs'[j].status # "processing"
         /\ exec'[jobs[j].leaseOwner] = exec[jobs[j].leaseOwner])
            => jobs[j].leaseExpiresAt <= clock
LeaseHonoured == [][LeaseStep]_vars

-----------------------------------------------------------------------------
(* The promise of PublishLifecycle, kept *)

Phase(status) ==
    CASE status \in {"queued", "waiting", "retrying"} -> "idle"
      [] status = "processing" -> "busy"
      [] OTHER -> status

Reason(row) ==
    IF row.status # "failed" THEN "none"
    ELSE CASE row.errorCode = "PUBLISH_REMOTE_JOB_FAILED" -> "remote"
           [] row.errorCode = "PUBLISH_JOB_RETRY_EXHAUSTED" -> "exhausted"
           [] OTHER -> "error"

View(row) == [phase |-> Phase(row.status), contact |-> row.remoteJobId,
              failures |-> row.consecutiveFailureCount, reason |-> Reason(row)]

Lifecycle == INSTANCE PublishLifecycle
                 WITH job <- [j \in Job |-> View(jobs[j])]

\* Through crashes, late answers and statements, lost acknowledgements and
\* sweeps that overlap executions, the table behaves as PublishLifecycle says.
ImplementsLifecycle == Lifecycle!Spec

=============================================================================
