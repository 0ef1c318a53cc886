------------------------ MODULE ContentWorkersProofs ------------------------
(***************************************************************************)
(* Proofs about ContentWorkers, for every set of jobs and workers and      *)
(* every value of the other constants.                                     *)
(***************************************************************************)
EXTENDS ContentWorkers, TLAPS

USE NoWorkerAssumption, LeaseDurationAssumption, RetryDelayAssumption,
    JobAssumption, ConcurrencyAssumption, MaxAttemptsAssumption,
    MaxLagAssumption, MaxTimeAssumption

-----------------------------------------------------------------------------
(* Lemmas about the operators *)

\* A retry delay is a natural number, however large the attempt number.
LEMMA RetryDelayType ==
    ASSUME NEW n \in Nat
    PROVE  calculateRetryDelayMs(n) \in Nat
<1>1. CASE n <= 0
  BY <1>1 DEF calculateRetryDelayMs
<1>2. CASE ~(n <= 0)
  <2> DEFINE x == RetryBaseDelay * 2 ^ (n - 1)
  <2>1. CASE x \in 0 .. RetryMaxDelay
    <3>1. calculateRetryDelayMs(n) = x
      BY <1>2, <2>1 DEF calculateRetryDelayMs
    <3> HIDE DEF x
    <3> QED BY <3>1, <2>1
  <2>2. CASE ~(x \in 0 .. RetryMaxDelay)
    <3>1. calculateRetryDelayMs(n) = RetryMaxDelay
      BY <1>2, <2>2 DEF calculateRetryDelayMs
    <3> QED BY <3>1
  <2> QED BY <2>1, <2>2
<1> QED BY <1>1, <1>2

\* There is a job to stand for the unused fields.
LEMMA AnyJobType == AnyJob \in Job
BY DEF AnyJob

\* The initial values of a loop and of a slot have their types.
LEMMA IdleTypes == IdleLoop \in Loop /\ FreeSlot \in Exec
BY AnyJobType DEF IdleLoop, Loop, StaleEntry, FreeSlot, Exec, ExecPc

\* Every SET clause maps rows to rows.
LEMMA Literals ==
    /\ NoTime \in Time /\ Nat \subseteq Time /\ 0 \in Nat
    /\ {"queued", "processing", "retrying", "completed", "failed",
        "cancelled", Absent} \subseteq ContentJobStatus \union {Absent}
    /\ {"queued", "normalizing-transcript", "completed", "failed"}
          \subseteq ContentJobStage
    /\ {"none", "processor-error", "WORKER_LEASE_EXPIRED",
        "WORKER_MAX_ATTEMPTS_EXCEEDED"} \subseteq ErrorCodes
BY DEF Time, ContentJobStatus, ContentJobStage, ErrorCodes

\* The rows the API writes have the type of a row.
LEMMA ApiRowTypes ==
    /\ NoRow \in Row
    /\ Inserted \in Row
    /\ \A row \in Row : Cancelled(row) \in Row
<1>1. NoRow \in Row
  BY Literals, Zenon DEF NoRow, Row
<1>2. Inserted \in Row
  BY <1>1, Literals, Zenon DEF Inserted, Row
<1>3. ASSUME NEW row \in Row PROVE Cancelled(row) \in Row
  BY Literals, Zenon DEF Cancelled, Row
<1> QED BY <1>1, <1>2, <1>3

\* Every SET clause of the worker side keeps the type of a row.
LEMMA RowTypes ==
    ASSUME NEW row \in Row
    PROVE  /\ \A w \in Worker, now \in Nat : Acquired(row, w, now) \in Row
           /\ \A now \in Nat : Renewed(row, now) \in Row
           /\ \A stage \in ContentJobStage : Staged(row, stage) \in Row
           /\ \A attempt \in Nat : Completed(row, attempt) \in Row
           /\ \A next \in Nat : RetryScheduled(row, next) \in Row
           /\ \A code \in ErrorCodes : Failed(row, code) \in Row
           /\ \A exhausted \in BOOLEAN, next \in Nat :
                 Recovered(row, exhausted, next) \in Row
<1>1. /\ row.attemptCount + 1 \in Nat
      /\ \A now \in Nat : now + LeaseDuration \in Time
  BY DEF Row, Time
<1>2. ASSUME NEW w \in Worker, NEW now \in Nat
      PROVE  Acquired(row, w, now) \in Row
  BY <1>1, Literals, Zenon DEF Acquired, Row
<1>3. ASSUME NEW now \in Nat PROVE Renewed(row, now) \in Row
  BY <1>1, Zenon DEF Renewed, Row
<1>4. ASSUME NEW stage \in ContentJobStage PROVE Staged(row, stage) \in Row
  BY Zenon DEF Staged, Row
<1>5. ASSUME NEW attempt \in Nat PROVE Completed(row, attempt) \in Row
  BY Literals, Zenon DEF Completed, Row
<1>6. ASSUME NEW next \in Nat PROVE RetryScheduled(row, next) \in Row
  BY Literals, Zenon DEF RetryScheduled, Row
<1>7. ASSUME NEW code \in ErrorCodes PROVE Failed(row, code) \in Row
  BY Literals, Zenon DEF Failed, Row
<1>8. ASSUME NEW exhausted \in BOOLEAN, NEW next \in Nat
      PROVE  Recovered(row, exhausted, next) \in Row
  BY Literals, Zenon DEF Recovered, Row
<1> QED BY <1>2, <1>3, <1>4, <1>5, <1>6, <1>7, <1>8

\* Writing a row of the right type keeps the table and the log well-typed.
LEMMA CommitType ==
    ASSUME TypeOK, NEW j \in Job, NEW row \in Row,
           NEW prior \in ContentJobStatus \union {Absent},
           NEW type \in EventTypes,
           Commit(j, row, prior, type)
    PROVE  jobs' \in [Job -> Row] /\ lastEvent' \in [Job -> Event]
BY DEF TypeOK, Commit, Row, Event

\* So does an update that writes no event.
LEMMA UpdateType ==
    ASSUME TypeOK, NEW j \in Job, NEW row \in Row, Update(j, row)
    PROVE  jobs' \in [Job -> Row] /\ lastEvent' \in [Job -> Event]
BY DEF TypeOK, Update

\* The executions that the catch and finally blocks build.
LEMMA ExecTypes ==
    ASSUME NEW e \in Exec, clock \in Nat, NEW retryable \in BOOLEAN
    PROVE  /\ Settling(e) \in Exec
           /\ AfterError(e, retryable) \in Exec
           /\ Answered(e) \in Exec
           /\ LostLease(e) \in Exec
<1>1. /\ {"failing", "exhausting", "scheduling", "settling"} \subseteq ExecPc
      /\ 0 \in 0 .. 2 /\ 0 \in Nat
  BY DEF ExecPc, Ending
<1>2. Settling(e) \in Exec
  BY <1>1, Zenon DEF Settling, Exec
<1>3. Answered(e) \in Exec
  BY <1>1, Zenon DEF Answered, Exec
<1>4. LostLease(e) \in Exec
  BY <1>1, Zenon DEF LostLease, Exec
<1>5. AfterError(e, retryable) \in Exec
  BY <1>1, <1>2, Zenon DEF AfterError, Exec
<1> QED BY <1>2, <1>3, <1>4, <1>5

\* Storing an execution of the right type in its slot keeps exec well-typed.
LEMMA SetExecType ==
    ASSUME TypeOK, NEW w \in Worker, NEW s \in Slot, NEW e \in Exec,
           SetExec(w, s, e)
    PROVE  exec' \in [Worker -> [Slot -> Exec]]
BY DEF TypeOK, SetExec

\* Going on with a sweep keeps the type of the loop.
LEMMA ResumedType ==
    ASSUME NEW l \in Loop
    PROVE  Resumed(l) \in Loop
BY IdleTypes DEF Resumed, Loop, IdleLoop

\* A started execution, and the abort of all executions of a worker.
LEMMA StartedType ==
    ASSUME NEW j \in Job, NEW attempt \in Nat
    PROVE  Started(j, attempt) \in Exec
<1>1. "processing" \in ExecPc
  BY DEF ExecPc
<1> QED BY <1>1, IdleTypes, Zenon DEF Started, Exec

\* Aborting the executions of a worker keeps exec well-typed.
LEMMA AbortAllType ==
    ASSUME TypeOK, NEW w \in Worker, AbortAll(w)
    PROVE  exec' \in [Worker -> [Slot -> Exec]]
<1>1. ASSUME NEW s \in Slot
      PROVE  [exec[w][s] EXCEPT
                !.aborted = exec[w][s].pc \notin {"free", "settling"}] \in Exec
  <2>1. /\ exec[w][s] \in Exec
        /\ (exec[w][s].pc \notin {"free", "settling"}) \in BOOLEAN
    BY DEF TypeOK
  <2> QED BY <2>1, Zenon DEF Exec
<1> QED BY <1>1, Zenon DEF TypeOK, AbortAll

-----------------------------------------------------------------------------
(* Type correctness *)

\* The initial state has the declared types.
LEMMA InitType == Init => TypeOK
<1>1. NoRow \in Row
  BY ApiRowTypes
<1>2. NoEvent \in Event
  BY DEF NoEvent, Event, EventTypes
<1> QED BY <1>1, <1>2, IdleTypes DEF Init, TypeOK, ProcState

\* The API.
LEMMA ApiType ==
    ASSUME TypeOK, NEW j \in Job, ApiNext(j)
    PROVE  TypeOK'
<1>1. jobs[j] \in Row /\ 0 \in Nat
  BY DEF TypeOK
<1>2. Inserted \in Row /\ Cancelled(jobs[j]) \in Row
  BY <1>1, ApiRowTypes
<1>3. CASE Create(j)
  <2>1. "job-created" \in EventTypes
    BY DEF EventTypes
  <2> QED BY <1>2, <1>3, <2>1, CommitType DEF Create, TypeOK
<1>4. CASE CancelRead(j)
  BY <1>4 DEF CancelRead, TypeOK, isTransitionAllowed
<1>5. CASE CancelUpdate(j)
  <2>1. "job-cancelled" \in EventTypes /\ cancels[j] \in ContentJobStatus
    BY <1>5 DEF CancelUpdate, EventTypes, TypeOK
  <2>2. jobs' \in [Job -> Row] /\ lastEvent' \in [Job -> Event]
    BY <1>2, <1>5, <2>1, CommitType DEF CancelUpdate, TypeOK, NoWrite
  <2> QED BY <1>5, <2>2 DEF CancelUpdate, TypeOK
<1> QED BY <1>3, <1>4, <1>5 DEF ApiNext

\* The lifecycle of a worker process.
LEMMA ProcType ==
    ASSUME TypeOK, NEW w \in Worker, ProcNext(w)
    PROVE  TypeOK'
<1>1. CASE Start(w)
  BY <1>1 DEF Start, TypeOK, ProcState
<1>2. CASE Crash(w)
  BY <1>2, IdleTypes DEF Crash, TypeOK, ProcState
<1>3. CASE RequestShutdown(w)
  BY <1>3, AbortAllType DEF RequestShutdown, TypeOK, ProcState
<1>4. CASE ShutdownTimeout(w)
  BY <1>4, AbortAllType DEF ShutdownTimeout, TypeOK, ProcState
<1>5. CASE Exit(w)
  BY <1>5 DEF Exit, TypeOK, ProcState
<1> QED BY <1>1, <1>2, <1>3, <1>4, <1>5 DEF ProcNext

\* The rows a sweep lists.
LEMMA StaleJobsType ==
    ASSUME TypeOK, NEW now \in Nat
    PROVE  StaleJobs(now) \subseteq StaleEntry
BY DEF TypeOK, StaleJobs, StaleEntry, Row

\* So does the SELECT of recoverStaleJob, whichever way it goes.
LEMMA SelectedType ==
    ASSUME NEW l \in Loop, NEW entry \in l.todo
    PROVE  Selected(l, entry) \in Loop
<1> DEFINE rest == [l EXCEPT !.todo = @ \ {entry}]
           exhausted == jobs[entry.job].attemptCount >= MaxAttempts
           found == [rest EXCEPT !.pc = "updating", !.current = entry,
                                 !.exhausted = exhausted]
<1>1. /\ entry \in StaleEntry /\ l.todo \ {entry} \subseteq StaleEntry
      /\ exhausted \in BOOLEAN
  BY DEF Loop
<1>2. rest \in Loop
  BY <1>1, Zenon DEF Loop
<1>3. found \in Loop
  <2> HIDE DEF rest, exhausted
  <2> QED BY <1>1, <1>2, Zenon DEF Loop
<1>4. Resumed(rest) \in Loop
  BY <1>2, ResumedType
<1> QED BY <1>3, <1>4 DEF Selected

\* The sweep's UPDATE keeps the table and the log well-typed.
LEMMA RecoverStmtType ==
    ASSUME TypeOK, NEW w \in Worker, RecoverStmt(w)
    PROVE  jobs' \in [Job -> Row] /\ lastEvent' \in [Job -> Event]
<1> DEFINE l == loop[w]
           j == l.current.job
           next == l.now + calculateRetryDelayMs(l.current.attemptCount + 1)
<1>1. /\ l \in Loop /\ j \in Job /\ jobs[j] \in Row /\ l.now \in Nat
      /\ l.exhausted \in BOOLEAN /\ l.current.attemptCount + 1 \in Nat
  <2>1. l \in Loop
    BY DEF TypeOK
  <2>2. l.current \in StaleEntry /\ l.now \in Nat /\ l.exhausted \in BOOLEAN
    BY <2>1 DEF Loop
  <2>3. j \in Job /\ l.current.attemptCount + 1 \in Nat
    BY <2>2 DEF StaleEntry
  <2> QED BY <2>1, <2>2, <2>3 DEF TypeOK
<1>2. next \in Nat
  BY <1>1, RetryDelayType
<1>3. Recovered(jobs[j], l.exhausted, next) \in Row
  <2> HIDE DEF l, j, next
  <2> QED BY <1>1, <1>2, RowTypes
<1>4. CASE Stale(jobs[j], l.now)
  <2>1. Commit(j, Recovered(jobs[j], l.exhausted, next), "processing",
               "job-lease-expired")
    BY <1>4 DEF RecoverStmt
  <2>2. "job-lease-expired" \in EventTypes
    BY DEF EventTypes
  <2> HIDE DEF l, j, next
  <2> QED BY <1>1, <1>3, <2>1, <2>2, CommitType, Literals
<1>5. CASE ~Stale(jobs[j], l.now)
  BY <1>5 DEF RecoverStmt, NoWrite, TypeOK
<1> QED BY <1>4, <1>5

\* The loop of a worker: acquisition and the recovery sweep.
LEMMA LoopType ==
    ASSUME TypeOK, NEW w \in Worker, LoopNext(w)
    PROVE  TypeOK'
<1>0. /\ loop[w] \in Loop /\ loop[w].now \in Nat /\ clock \in Nat
      /\ loop[w].todo \subseteq StaleEntry
  BY DEF TypeOK, Loop
<1>1. CASE Poll(w)
  <2>1. [loop[w] EXCEPT !.pc = "acquiring", !.now = clock] \in Loop
    BY <1>0, Zenon DEF Loop
  <2> QED BY <1>1, <2>1 DEF Poll, TypeOK
<1>2. CASE AcquireNothing(w)
  BY <1>2, IdleTypes DEF AcquireNothing, TypeOK
<1>3. ASSUME NEW j \in Job
      PROVE  /\ Acquired(jobs[j], w, loop[w].now) \in Row
             /\ jobs[j].status \in ContentJobStatus \union {Absent}
  <2>1. jobs[j] \in Row
    BY DEF TypeOK
  <2> QED BY <1>0, <2>1, RowTypes DEF Row
<1>4. "job-lease-acquired" \in EventTypes
  BY DEF EventTypes
<1>5. ASSUME NEW j \in Job, AcquireThrows(w, j) PROVE TypeOK'
  BY <1>3, <1>4, <1>5, CommitType, IdleTypes DEF AcquireThrows, TypeOK
<1>6. ASSUME NEW j \in Job, NEW s \in Slot, AcquireNext(w, s, j) PROVE TypeOK'
  <2>1. jobs[j].attemptCount + 1 \in Nat
    BY DEF TypeOK, Row
  <2>2. Started(j, jobs[j].attemptCount + 1) \in Exec
    BY <2>1, StartedType
  <2> QED BY <1>3, <1>4, <1>6, <2>2, CommitType, IdleTypes
          DEF AcquireNext, TypeOK
<1>7. CASE ListStale(w)
  <2> DEFINE listed(now) == [loop[w] EXCEPT !.pc = "sweeping", !.now = now,
                                            !.todo = StaleJobs(now)]
  <2>1. PICK now \in Now : loop' = [loop EXCEPT ![w] = listed(now)]
    BY <1>7, Zenon DEF ListStale
  <2>2. now \in Nat
    BY DEF Now
  <2>3. StaleJobs(now) \subseteq StaleEntry
    BY <2>2, StaleJobsType
  <2>4. listed(now) \in Loop
    BY <1>0, <2>2, <2>3, Zenon DEF Loop
  <2> HIDE DEF listed
  <2> QED BY <1>7, <2>1, <2>4 DEF ListStale, TypeOK
<1>8. ASSUME NEW entry \in loop[w].todo, SelectStale(w, entry) PROVE TypeOK'
  BY <1>0, <1>8, SelectedType DEF SelectStale, TypeOK
<1>9. CASE UpdateStale(w)
  BY <1>0, <1>9, RecoverStmtType, ResumedType DEF UpdateStale, TypeOK
<1>10. CASE SweepThrows(w)
  <2>1. jobs' \in [Job -> Row] /\ lastEvent' \in [Job -> Event]
    BY <1>10, RecoverStmtType DEF SweepThrows, NoWrite, TypeOK
  <2> QED BY <1>10, <2>1, IdleTypes DEF SweepThrows, TypeOK
<1> QED BY <1>1, <1>2, <1>5, <1>6, <1>7, <1>8, <1>9, <1>10 DEF LoopNext

\* The statements of an execution keep the table and the log well-typed.
LEMMA StmtTypes ==
    ASSUME TypeOK, NEW w \in Worker, NEW e \in Exec,
           \/ NoWrite \/ RenewStmt(w, e) \/ CompleteStmt(w, e)
           \/ RetryStmt(w, e) \/ FailStmt(w, e)
    PROVE  jobs' \in [Job -> Row] /\ lastEvent' \in [Job -> Event]
<1> DEFINE row == jobs[e.job]
           next == e.now + calculateRetryDelayMs(e.attempt + 1)
<1>1. /\ e.job \in Job /\ e.now \in Nat /\ e.beatNow \in Nat
      /\ e.attempt \in Nat /\ e.attempt + 1 \in Nat
  BY DEF Exec
<1>2. row \in Row /\ next \in Nat /\ FailureCode(e) \in ErrorCodes
  <2>1. row \in Row /\ FailureCode(e) \in ErrorCodes
    BY <1>1, Literals DEF TypeOK, FailureCode
  <2>2. calculateRetryDelayMs(e.attempt + 1) \in Nat
    BY <1>1, RetryDelayType
  <2> QED BY <1>1, <2>1, <2>2
<1>3. {"job-completed", "job-retry-scheduled", "job-failed"} \subseteq EventTypes
  BY DEF EventTypes
<1>4. CASE NoWrite
  BY <1>4 DEF NoWrite, TypeOK
<1>5. CASE RenewStmt(w, e)
  <2>1. Renewed(row, e.beatNow) \in Row
    <3> HIDE DEF row
    <3> QED BY <1>1, <1>2, RowTypes
  <2> QED BY <1>1, <1>4, <1>5, <2>1, UpdateType DEF RenewStmt
<1>6. CASE CompleteStmt(w, e)
  <2>1. Completed(row, e.attempt) \in Row
    <3> HIDE DEF row
    <3> QED BY <1>1, <1>2, RowTypes
  <2> QED BY <1>1, <1>3, <1>4, <1>6, <2>1, CommitType, Literals DEF CompleteStmt
<1>7. CASE RetryStmt(w, e)
  <2>1. RetryScheduled(row, next) \in Row
    <3> HIDE DEF row, next
    <3> QED BY <1>2, RowTypes
  <2> QED BY <1>1, <1>3, <1>4, <1>7, <2>1, CommitType, Literals DEF RetryStmt
<1>8. CASE FailStmt(w, e)
  <2>1. Failed(row, FailureCode(e)) \in Row
    <3> HIDE DEF row
    <3> QED BY <1>2, RowTypes
  <2> QED BY <1>1, <1>3, <1>4, <1>8, <2>1, CommitType, Literals DEF FailStmt
<1> QED BY <1>4, <1>5, <1>6, <1>7, <1>8

\* The steps of an execution.
LEMMA ExecType ==
    ASSUME TypeOK, NEW w \in Worker, NEW s \in Slot, ExecNext(w, s)
    PROVE  TypeOK'
<1> DEFINE e == exec[w][s]
<1>1. /\ e \in Exec /\ clock \in Nat /\ e.job \in Job /\ e.steps \in 0 .. 2
      /\ jobs[e.job] \in Row
  <2>1. e \in Exec /\ clock \in Nat
    BY DEF TypeOK
  <2> QED BY <2>1 DEF Exec, TypeOK
<1>2. /\ {"processing", "completing"} \subseteq ExecPc /\ 0 \in 0 .. 2
      /\ StageOf(e.steps) \in ContentJobStage
  BY DEF ExecPc, Ending, StageOf, ContentJobStage
<1>3. Staged(jobs[e.job], StageOf(e.steps)) \in Row
  BY <1>1, <1>2, RowTypes
<1>4. CASE MarkStage(w, s)
  <2>1. CASE /\ Update(e.job, Staged(jobs[e.job], StageOf(e.steps)))
             /\ e.steps < 2
             /\ SetExec(w, s, [e EXCEPT !.steps = @ + 1])
    <3>1. e.steps + 1 \in 0 .. 2
      BY <1>1, <2>1
    <3>2. [e EXCEPT !.steps = @ + 1] \in Exec
      BY <1>1, <3>1, Zenon DEF Exec
    <3> QED BY <1>1, <1>3, <1>4, <2>1, <3>2, UpdateType, SetExecType
            DEF MarkStage, TypeOK
  <2>2. CASE NoWrite /\ SetExec(w, s, Settling(e))
    BY <1>1, <1>4, <2>2, StmtTypes, ExecTypes, SetExecType
       DEF MarkStage, TypeOK
  <2> QED BY <1>4, <2>1, <2>2 DEF MarkStage
<1>5. CASE MarkStageThrows(w, s)
  BY <1>1, <1>3, <1>5, UpdateType, ExecTypes, SetExecType
     DEF MarkStageThrows, TypeOK
<1>6. CASE StartHeartbeat(w, s)
  <2>1. [e EXCEPT !.beating = TRUE, !.beatNow = clock] \in Exec
    BY <1>1, Zenon DEF Exec
  <2> QED BY <1>6, <2>1, SetExecType DEF StartHeartbeat, TypeOK
<1>7. Answered(e) \in Exec /\ LostLease(Answered(e)) \in Exec
  BY <1>1, ExecTypes
<1>8. CASE RenewLease(w, s)
  BY <1>1, <1>7, <1>8, StmtTypes, SetExecType DEF RenewLease, TypeOK
<1>9. CASE HeartbeatThrows(w, s)
  BY <1>1, <1>7, <1>9, StmtTypes, ExecTypes, SetExecType
     DEF HeartbeatThrows, TypeOK
<1>10. CASE ProcessorSucceeds(w, s)
  <2>1. [e EXCEPT !.pc = "completing", !.steps = 0, !.now = clock] \in Exec
    BY <1>1, <1>2, Zenon DEF Exec
  <2> QED BY <1>10, <2>1, SetExecType DEF ProcessorSucceeds, TypeOK
<1>11. ASSUME NEW retryable \in BOOLEAN, ProcessorThrows(w, s, retryable)
       PROVE  TypeOK'
  BY <1>1, <1>11, ExecTypes, SetExecType DEF ProcessorThrows, TypeOK
<1>12. CASE MarkCompleted(w, s)
  BY <1>1, <1>12, StmtTypes, ExecTypes, SetExecType DEF MarkCompleted, TypeOK
<1>13. CASE MarkCompletedThrows(w, s)
  BY <1>1, <1>13, StmtTypes, ExecTypes, SetExecType
     DEF MarkCompletedThrows, TypeOK
<1>14. CASE ScheduleRetry(w, s)
  BY <1>1, <1>14, StmtTypes, ExecTypes, SetExecType DEF ScheduleRetry, TypeOK
<1>15. CASE MarkFailed(w, s)
  BY <1>1, <1>15, StmtTypes, ExecTypes, SetExecType DEF MarkFailed, TypeOK
<1>16. CASE Settle(w, s)
  BY <1>16, IdleTypes, SetExecType DEF Settle, TypeOK
<1> QED BY <1>4, <1>5, <1>6, <1>8, <1>9, <1>10, <1>11, <1>12, <1>13, <1>14,
           <1>15, <1>16 DEF ExecNext

\* Every step keeps the declared types.
LEMMA NextType ==
    ASSUME TypeOK, [Next]_vars
    PROVE  TypeOK'
<1>1. CASE Step
  BY <1>1, ApiType, ProcType, LoopType, ExecType DEF Step
<1>2. CASE Tick
  BY <1>2 DEF Tick, TypeOK
<1>3. CASE UNCHANGED vars
  BY <1>3 DEF vars, TypeOK
<1> QED BY <1>1, <1>2, <1>3 DEF Next

\* In every behaviour of the workers and the API, the table, the log and the
\* processes keep values of their types, whatever the bounds.
THEOREM TypeCorrect == Spec => []TypeOK
BY InitType, NextType, PTL DEF Spec

-----------------------------------------------------------------------------
(* The writes.  Most properties speak of the table and the log only, so    *)
(* the actions are first reduced to what they write: a step writes         *)
(* nothing, or one row by one of the statements below, with the guard the  *)
(* statement has and the place its process is at.                          *)

\* A commit whose event names the status that the row leaves.
Written(j, row, type) == Commit(j, row, jobs[j].status, type)

ApiWrite(j) ==
    \/ jobs[j].status = Absent /\ Written(j, Inserted, "job-created")
    \/ /\ cancels[j] # "none"
       /\ jobs[j].status = cancels[j]
       /\ Written(j, Cancelled(jobs[j]), "job-cancelled")

LoopWrite(w, j) ==
    LET l == loop[w] IN
    \/ /\ l.pc = "acquiring"
       /\ Due(jobs[j], l.now)
       /\ Written(j, Acquired(jobs[j], w, l.now), "job-lease-acquired")
    \/ /\ l.pc = "updating"
       /\ l.current.job = j
       /\ Stale(jobs[j], l.now)
       /\ \E next \in Nat :
             Written(j, Recovered(jobs[j], l.exhausted, next), "job-lease-expired")

\* now is the time sampled for the statement.
ExecWrite(w, e, now) ==
    LET row == jobs[e.job] IN
    /\ Owned(row, w, now)
    /\ \/ \E stage \in ContentJobStage : Update(e.job, Staged(row, stage))
       \/ e.beating /\ now = e.beatNow /\ Update(e.job, Renewed(row, now))
       \/ /\ e.pc = "completing"
          /\ Written(e.job, Completed(row, e.attempt), "job-completed")
       \/ /\ e.pc = "scheduling"
          /\ \E next \in Nat :
                Written(e.job, RetryScheduled(row, next), "job-retry-scheduled")
       \/ /\ e.pc \in {"failing", "exhausting"}
          /\ Written(e.job, Failed(row, FailureCode(e)), "job-failed")

Writes ==
    \/ NoWrite
    \/ \E j \in Job : ApiWrite(j)
    \/ \E w \in Worker, j \in Job : LoopWrite(w, j)
    \/ \E w \in Worker, s \in Slot, now \in Nat : ExecWrite(w, exec[w][s], now)

\* The status a SET clause stores.
LEMMA NewStatus ==
    ASSUME NEW row \in Row
    PROVE  /\ Inserted.status = "queued"
           /\ Cancelled(row).status = "cancelled"
           /\ \A w, now : Acquired(row, w, now).status = "processing"
           /\ \A x \in BOOLEAN : \A next : Recovered(row, x, next).status
                                = IF x THEN "failed" ELSE "retrying"
           /\ \A now : Renewed(row, now).status = row.status
           /\ \A stage : Staged(row, stage).status = row.status
           /\ \A a : Completed(row, a).status = "completed"
           /\ \A next : RetryScheduled(row, next).status = "retrying"
           /\ \A code : Failed(row, code).status = "failed"
BY Zenon DEF Row, NoRow, Inserted, Cancelled, Acquired, Recovered, Renewed, Staged,
          Completed, RetryScheduled, Failed

\* What a request of the API writes.
LEMMA ApiWrites ==
    ASSUME TypeOK, NEW j \in Job, ApiNext(j)
    PROVE  NoWrite \/ ApiWrite(j)
<1>1. jobs[j] \in Row
  BY DEF TypeOK
<1>2. CASE Create(j)
  BY <1>2 DEF Create, ApiWrite, Written
<1>3. CASE CancelRead(j)
  BY <1>3 DEF CancelRead, NoWrite
<1>4. CASE CancelUpdate(j)
  BY <1>4 DEF CancelUpdate, ApiWrite, Written
<1> QED BY <1>2, <1>3, <1>4 DEF ApiNext

\* What a step of a worker's loop writes.
LEMMA LoopWrites ==
    ASSUME TypeOK, NEW w \in Worker, LoopNext(w)
    PROVE  NoWrite \/ \E j \in Job : LoopWrite(w, j)
<1>1. ASSUME RecoverStmt(w), loop[w].pc = "updating"
      PROVE  NoWrite \/ \E j \in Job : LoopWrite(w, j)
  <2> DEFINE l == loop[w]
             next == l.now + calculateRetryDelayMs(l.current.attemptCount + 1)
  <2>1. l \in Loop
    BY DEF TypeOK
  <2>2. l.current \in StaleEntry /\ l.now \in Nat
    BY <2>1 DEF Loop
  <2>3. l.current.job \in Job /\ l.current.attemptCount + 1 \in Nat
    BY <2>2 DEF StaleEntry
  <2>4. calculateRetryDelayMs(l.current.attemptCount + 1) \in Nat
    BY <2>3, RetryDelayType
  <2>5. next \in Nat
    BY <2>2, <2>4
  <2> QED BY <1>1, <2>3, <2>5, Zenon DEF RecoverStmt, Stale, LoopWrite, Written
<1>2. CASE Poll(w) \/ AcquireNothing(w)
  BY <1>2 DEF Poll, AcquireNothing, NoWrite
<1>3. CASE \E j \in Job : \/ AcquireThrows(w, j)
                          \/ \E s \in Slot : AcquireNext(w, s, j)
  BY <1>3, Zenon DEF AcquireThrows, AcquireNext, Candidate, LoopWrite, Written
<1>4. CASE ListStale(w) \/ \E entry \in loop[w].todo : SelectStale(w, entry)
  BY <1>4 DEF ListStale, SelectStale, NoWrite
<1>5. CASE UpdateStale(w) \/ SweepThrows(w)
  BY <1>1, <1>5 DEF UpdateStale, SweepThrows
<1> QED BY <1>2, <1>3, <1>4, <1>5 DEF LoopNext

\* What a step of an execution writes, and under which guard.
LEMMA ExecWrites ==
    ASSUME TypeOK, NEW w \in Worker, NEW s \in Slot, ExecNext(w, s)
    PROVE  NoWrite \/ \E now \in Nat : ExecWrite(w, exec[w][s], now)
<1> DEFINE e == exec[w][s]
<1>1. e \in Exec
  BY DEF TypeOK
<1>2. /\ e.now \in Nat /\ e.beatNow \in Nat /\ Now \subseteq Nat
      /\ e.attempt + 1 \in Nat
      /\ StageOf(e.steps) \in ContentJobStage
  BY <1>1 DEF Exec, Now, StageOf, ContentJobStage
<1>3. e.now + calculateRetryDelayMs(e.attempt + 1) \in Nat
  BY <1>2, RetryDelayType
<1>4. CASE MarkStage(w, s) \/ MarkStageThrows(w, s)
  BY <1>2, <1>4, Zenon DEF MarkStage, MarkStageThrows, ExecWrite
<1>5. CASE RenewLease(w, s) \/ HeartbeatThrows(w, s)
  BY <1>2, <1>5, Zenon DEF RenewLease, HeartbeatThrows, RenewStmt, ExecWrite
<1>6. CASE MarkCompleted(w, s) \/ MarkCompletedThrows(w, s)
  BY <1>2, <1>6, Zenon
     DEF MarkCompleted, MarkCompletedThrows, CompleteStmt, Owned, ExecWrite, Written
<1>7. CASE ScheduleRetry(w, s)
  BY <1>2, <1>3, <1>7, Zenon DEF ScheduleRetry, RetryStmt, Owned, ExecWrite, Written
<1>8. CASE MarkFailed(w, s)
  BY <1>2, <1>8, Zenon DEF MarkFailed, FailStmt, Owned, ExecWrite, Written
<1>9. CASE \/ StartHeartbeat(w, s) \/ ProcessorSucceeds(w, s) \/ Settle(w, s)
           \/ \E retryable \in BOOLEAN : ProcessorThrows(w, s, retryable)
  BY <1>9 DEF StartHeartbeat, ProcessorSucceeds, Settle, ProcessorThrows, NoWrite
<1> QED BY <1>4, <1>5, <1>6, <1>7, <1>8, <1>9 DEF ExecNext

\* Every step is one of these writes.
LEMMA StepWrites ==
    ASSUME TypeOK, [Next]_vars
    PROVE  Writes
<1>1. ASSUME NEW w \in Worker, ProcNext(w) PROVE NoWrite
  BY <1>1 DEF ProcNext, Start, Crash, RequestShutdown, ShutdownTimeout, Exit,
              NoWrite
<1>2. CASE Step
  BY <1>1, <1>2, ApiWrites, LoopWrites, ExecWrites DEF Step, Writes
<1>3. CASE Tick \/ UNCHANGED vars
  BY <1>3 DEF Tick, vars, NoWrite, Writes
<1> QED BY <1>2, <1>3 DEF Next

-----------------------------------------------------------------------------
(* No job is stranded, and the log and the policy are kept *)

\* CancelSeen is inductive by itself: a cancel reads a status it may cancel.
LEMMA CancelSeenStep ==
    ASSUME TypeOK, CancelSeen, [Next]_vars
    PROVE  CancelSeen'
<1>1. ASSUME NEW j \in Job, ApiNext(j) PROVE CancelSeen'
  <2>1. CASE Create(j)
    BY <2>1 DEF Create, CancelSeen
  <2>2. CASE CancelRead(j)
    <3>1. jobs[j].status \in {"queued", "retrying"}
      BY <2>2 DEF CancelRead, isTransitionAllowed, allowedTransitions,
                  ContentJobStatus
    <3> QED BY <2>2, <3>1 DEF CancelRead, CancelSeen, TypeOK
  <2>3. CASE CancelUpdate(j)
    BY <2>3 DEF CancelUpdate, CancelSeen, TypeOK
  <2> QED BY <1>1, <2>1, <2>2, <2>3 DEF ApiNext
<1>2. ASSUME NEW w \in Worker, ProcNext(w) PROVE UNCHANGED cancels
  BY <1>2 DEF ProcNext, Start, Crash, RequestShutdown, ShutdownTimeout, Exit
<1>3. ASSUME NEW w \in Worker, LoopNext(w) PROVE UNCHANGED cancels
  BY <1>3 DEF LoopNext, Poll, AcquireNothing, AcquireThrows, AcquireNext,
              ListStale, SelectStale, UpdateStale, SweepThrows
<1>4. ASSUME NEW w \in Worker, NEW s \in Slot, ExecNext(w, s)
      PROVE  UNCHANGED cancels
  BY <1>4 DEF ExecNext, MarkStage, MarkStageThrows, StartHeartbeat, RenewLease,
              HeartbeatThrows, ProcessorSucceeds, ProcessorThrows,
              MarkCompleted, MarkCompletedThrows, ScheduleRetry, MarkFailed,
              Settle
<1>5. CASE UNCHANGED cancels
  BY <1>5 DEF CancelSeen
<1> QED BY <1>1, <1>2, <1>3, <1>4, <1>5 DEF Next, Step, Tick, vars

\* What NoStrandedJob says of one row.
Reachable(row) ==
    /\ row.status = "processing" <=> row.leaseOwner # NoWorker
    /\ row.status = "processing" <=> row.leaseExpiresAt # NoTime
    /\ row.status = "retrying" => row.nextAttemptAt # NoTime

\* Every SET clause leaves a reachable row, where its guard holds.  The API's
\* cancel leaves the lease columns as they are, and keeps the row reachable
\* only because the row it read was not being processed.
LEMMA ReachableRows ==
    ASSUME NEW row \in Row, Reachable(row)
    PROVE  /\ Reachable(Inserted)
           /\ row.status \in {"queued", "retrying"} => Reachable(Cancelled(row))
           /\ \A w \in Worker, now \in Nat : Reachable(Acquired(row, w, now))
           /\ \A x \in BOOLEAN, next \in Nat : Reachable(Recovered(row, x, next))
           /\ \A stage \in ContentJobStage : Reachable(Staged(row, stage))
           /\ row.status = "processing" =>
                 \A now \in Nat : Reachable(Renewed(row, now))
           /\ \A a \in Nat : Reachable(Completed(row, a))
           /\ \A next \in Nat : Reachable(RetryScheduled(row, next))
           /\ \A code \in ErrorCodes : Reachable(Failed(row, code))
<1>1. \A n \in Nat : n # NoTime /\ n + LeaseDuration # NoTime
  BY DEF NoTime
<1>2. \A w \in Worker : w # NoWorker
  OBVIOUS
<1>3. Reachable(Inserted)
  BY Zenon DEF Reachable, Inserted, NoRow
<1>4. row.status \in {"queued", "retrying"} => Reachable(Cancelled(row))
  BY Zenon DEF Reachable, Cancelled, Row
<1>5. ASSUME NEW w \in Worker, NEW now \in Nat
      PROVE  Reachable(Acquired(row, w, now))
  BY <1>1, <1>2, Zenon DEF Reachable, Acquired, Row
<1>6. ASSUME NEW x \in BOOLEAN, NEW next \in Nat
      PROVE  Reachable(Recovered(row, x, next))
  BY <1>1, Zenon DEF Reachable, Recovered, Row
<1>7. ASSUME NEW stage \in ContentJobStage PROVE Reachable(Staged(row, stage))
  BY Zenon DEF Reachable, Staged, Row
<1>8. ASSUME NEW now \in Nat, row.status = "processing"
      PROVE  Reachable(Renewed(row, now))
  BY <1>1, <1>8, Zenon DEF Reachable, Renewed, Row
<1>9. ASSUME NEW a \in Nat PROVE Reachable(Completed(row, a))
  BY Zenon DEF Reachable, Completed, Row
<1>10. ASSUME NEW next \in Nat PROVE Reachable(RetryScheduled(row, next))
  BY <1>1, Zenon DEF Reachable, RetryScheduled, Row
<1>11. ASSUME NEW code \in ErrorCodes PROVE Reachable(Failed(row, code))
  BY Zenon DEF Reachable, Failed, Row
<1> QED BY <1>3, <1>4, <1>5, <1>6, <1>7, <1>8, <1>9, <1>10, <1>11

\* No write strands a row, given that cancel only hits rows without a lease.
LEMMA NoStrandedJobStep ==
    ASSUME TypeOK, CancelSeen, NoStrandedJob, [Next]_vars
    PROVE  NoStrandedJob'
<1>1. Writes
  BY StepWrites
<1>2. \A j \in Job : jobs[j] \in Row /\ Reachable(jobs[j])
  BY DEF TypeOK, NoStrandedJob, Reachable
<1>3. SUFFICES \A j \in Job : Reachable(jobs'[j])
  BY DEF NoStrandedJob, Reachable
<1>4. ASSUME NEW j \in Job, NEW row, Reachable(row),
             jobs' = [jobs EXCEPT ![j] = row]
      PROVE  \A i \in Job : Reachable(jobs'[i])
  <2>1. \A i \in Job : jobs'[i] = IF i = j THEN row ELSE jobs[i]
    BY <1>4 DEF TypeOK
  <2> QED BY <1>2, <1>4, <2>1
<1>5. CASE NoWrite
  BY <1>2, <1>5 DEF NoWrite
<1>6. ASSUME NEW j \in Job, ApiWrite(j)
      PROVE  \A i \in Job : Reachable(jobs'[i])
  <2>1. Reachable(Inserted)
    BY <1>2, ReachableRows
  <2>2. CASE jobs' = [jobs EXCEPT ![j] = Inserted]
    BY <1>4, <2>1, <2>2
  <2>3. CASE /\ cancels[j] # "none"
             /\ jobs[j].status = cancels[j]
             /\ jobs' = [jobs EXCEPT ![j] = Cancelled(jobs[j])]
    <3>1. jobs[j].status \in {"queued", "retrying"}
      BY <2>3 DEF CancelSeen
    <3>2. Reachable(Cancelled(jobs[j]))
      BY <1>2, <3>1, ReachableRows
    <3> QED BY <1>4, <2>3, <3>2
  <2> QED BY <1>6, <2>2, <2>3 DEF ApiWrite, Written, Commit
<1>7. ASSUME NEW w \in Worker, NEW j \in Job, LoopWrite(w, j)
      PROVE  \A i \in Job : Reachable(jobs'[i])
  <2>1. loop[w].now \in Nat /\ loop[w].exhausted \in BOOLEAN
    BY DEF TypeOK, Loop
  <2>2. Reachable(Acquired(jobs[j], w, loop[w].now))
    BY <1>2, <2>1, ReachableRows
  <2>3. ASSUME NEW next \in Nat
        PROVE  Reachable(Recovered(jobs[j], loop[w].exhausted, next))
    BY <1>2, <2>1, ReachableRows
  <2> QED BY <1>4, <1>7, <2>2, <2>3 DEF LoopWrite, Written, Commit
<1>8. ASSUME NEW w \in Worker, NEW e \in Exec, NEW now \in Nat,
             ExecWrite(w, e, now)
      PROVE  \A i \in Job : Reachable(jobs'[i])
  <2> DEFINE row == jobs[e.job]
  <2>1. e.job \in Job /\ e.attempt \in Nat /\ FailureCode(e) \in ErrorCodes
    BY DEF Exec, FailureCode, ErrorCodes
  <2>2. row \in Row /\ Reachable(row) /\ row.status = "processing"
    BY <1>2, <1>8, <2>1 DEF ExecWrite, Owned
  <2>3. PICK new : Reachable(new) /\ jobs' = [jobs EXCEPT ![e.job] = new]
    <3>1. /\ \A stage \in ContentJobStage : Reachable(Staged(row, stage))
          /\ Reachable(Renewed(row, now))
          /\ Reachable(Completed(row, e.attempt))
          /\ \A next \in Nat : Reachable(RetryScheduled(row, next))
          /\ Reachable(Failed(row, FailureCode(e)))
      <4> HIDE DEF row
      <4> QED BY <2>1, <2>2, ReachableRows
    <3> QED BY <1>8, <3>1, Zenon DEF ExecWrite, Written, Commit, Update
  <2> QED BY <1>4, <2>1, <2>3
<1>9. \A w \in Worker, s \in Slot : exec[w][s] \in Exec
  BY DEF TypeOK
<1> QED BY <1>1, <1>5, <1>6, <1>7, <1>8, <1>9 DEF Writes

\* No job is stranded, with any number of workers, jobs, slots and attempts,
\* and however long statements are under way.
THEOREM NothingStranded == Spec => []NoStrandedJob
<1>1. Init => CancelSeen /\ NoStrandedJob
  BY DEF Init, CancelSeen, NoStrandedJob, NoRow, Absent
<1>2. TypeOK /\ CancelSeen /\ NoStrandedJob /\ [Next]_vars
         => CancelSeen' /\ NoStrandedJob'
  BY CancelSeenStep, NoStrandedJobStep
<1> QED BY <1>1, <1>2, TypeCorrect, PTL DEF Spec

\* Statuses change only as the domain's transition policy allows, and a row
\* that is over never changes.
LEMMA PolicyAction ==
    ASSUME TypeOK, CancelSeen, [Next]_vars
    PROVE  PolicyStep
<1>1. Writes
  BY StepWrites
<1>2. \A j \in Job : jobs[j] \in Row
  BY DEF TypeOK
<1> DEFINE Allowed(from, to) ==
               \/ from = Absent /\ to = "queued"
               \/ isTransitionAllowed(from, to)
<1>3. /\ Allowed(Absent, "queued")
      /\ Allowed("queued", "cancelled") /\ Allowed("retrying", "cancelled")
      /\ Allowed("queued", "processing") /\ Allowed("retrying", "processing")
      /\ \A to \in {"completed", "retrying", "failed"} : Allowed("processing", to)
  BY DEF isTransitionAllowed, allowedTransitions, ContentJobStatus
<1>4. ASSUME NEW j \in Job, NEW row, jobs' = [jobs EXCEPT ![j] = row],
             jobs[j].status \notin Terminal,
             row.status = jobs[j].status \/ Allowed(jobs[j].status, row.status)
      PROVE  PolicyStep
  <2> HIDE DEF Allowed
  <2>1. \A i \in Job : jobs'[i] = IF i = j THEN row ELSE jobs[i]
    BY <1>4 DEF TypeOK
  <2> USE DEF Allowed
  <2> QED BY <1>4, <2>1, Zenon DEF PolicyStep
<1> HIDE DEF Allowed
<1>5. CASE NoWrite
  BY <1>5, Zenon DEF NoWrite, PolicyStep
<1>6. ASSUME NEW j \in Job, ApiWrite(j) PROVE PolicyStep
  <2>1. CASE jobs[j].status = Absent /\ jobs' = [jobs EXCEPT ![j] = Inserted]
    BY <1>2, <1>3, <1>4, <2>1, NewStatus DEF Terminal, Absent
  <2>2. CASE /\ cancels[j] # "none"
             /\ jobs[j].status = cancels[j]
             /\ jobs' = [jobs EXCEPT ![j] = Cancelled(jobs[j])]
    <3>1. jobs[j].status \in {"queued", "retrying"}
      BY <2>2 DEF CancelSeen
    <3>2. Cancelled(jobs[j]).status = "cancelled"
      BY <1>2, NewStatus
    <3> QED BY <1>3, <1>4, <2>2, <3>1, <3>2 DEF Terminal
  <2> QED BY <1>6, <2>1, <2>2 DEF ApiWrite, Written, Commit
<1>7. ASSUME NEW w \in Worker, NEW j \in Job, LoopWrite(w, j) PROVE PolicyStep
  <2>1. loop[w].exhausted \in BOOLEAN
    BY DEF TypeOK, Loop
  <2>2. CASE /\ Due(jobs[j], loop[w].now)
             /\ jobs' = [jobs EXCEPT ![j] = Acquired(jobs[j], w, loop[w].now)]
    <3>1. jobs[j].status \in {"queued", "retrying"}
      BY <2>2 DEF Due
    <3>2. Acquired(jobs[j], w, loop[w].now).status = "processing"
      BY <1>2, NewStatus
    <3> QED BY <1>3, <1>4, <2>2, <3>1, <3>2 DEF Terminal
  <2>3. CASE /\ Stale(jobs[j], loop[w].now)
             /\ \E next \in Nat : jobs' = [jobs EXCEPT ![j] =
                    Recovered(jobs[j], loop[w].exhausted, next)]
    <3>1. jobs[j].status = "processing"
      BY <2>3 DEF Stale
    <3>2. ASSUME NEW next \in Nat
          PROVE  Recovered(jobs[j], loop[w].exhausted, next).status
                     \in {"retrying", "failed"}
      BY <1>2, <2>1, NewStatus
    <3> QED BY <1>3, <1>4, <2>3, <3>1, <3>2 DEF Terminal
  <2> QED BY <1>7, <2>2, <2>3 DEF LoopWrite, Written, Commit
<1>8. ASSUME NEW w \in Worker, NEW e \in Exec, NEW now \in Nat,
             ExecWrite(w, e, now)
      PROVE  PolicyStep
  <2> DEFINE row == jobs[e.job]
  <2>1. e.job \in Job
    BY DEF Exec
  <2>2. row \in Row /\ row.status = "processing" /\ row.status \notin Terminal
    BY <1>2, <1>8, <2>1 DEF ExecWrite, Owned, Terminal
  <2>3. PICK new : /\ jobs' = [jobs EXCEPT ![e.job] = new]
                   /\ \/ new.status = row.status
                      \/ new.status \in {"completed", "retrying", "failed"}
    <3>1. /\ \A stage \in ContentJobStage : Staged(row, stage).status = row.status
          /\ Renewed(row, now).status = row.status
          /\ Completed(row, e.attempt).status = "completed"
          /\ \A next \in Nat : RetryScheduled(row, next).status = "retrying"
          /\ Failed(row, FailureCode(e)).status = "failed"
      <4> HIDE DEF row
      <4> QED BY <2>2, NewStatus
    <3> QED BY <1>8, <3>1, Zenon DEF ExecWrite, Written, Commit, Update
  <2> QED BY <1>3, <1>4, <2>1, <2>2, <2>3
<1>9. \A w \in Worker, s \in Slot : exec[w][s] \in Exec
  BY DEF TypeOK
<1> QED BY <1>1, <1>5, <1>6, <1>7, <1>8, <1>9 DEF Writes

\* Every status change of the table is one of the domain's transition policy.
THEOREM PolicyFollowed == Spec => FollowsPolicy
<1>1. Init => CancelSeen
  BY DEF Init, CancelSeen
<1>2. TypeOK /\ CancelSeen /\ [Next]_vars => CancelSeen' /\ [PolicyStep]_jobs
  BY CancelSeenStep, PolicyAction
<1> QED BY <1>1, <1>2, TypeCorrect, PTL DEF Spec, FollowsPolicy

\* Every change of a status comes with an event that names both statuses.
THEOREM EventsTruthful == Spec => EventsTellTheTransition
<1>1. ASSUME TypeOK, [Next]_vars PROVE EventStep
  <2>1. Writes
    BY <1>1, StepWrites
  <2>2. ASSUME NEW j \in Job, NEW row, NEW type, Written(j, row, type)
        PROVE  EventStep
    BY <1>1, <2>2 DEF Written, Commit, EventStep, TypeOK
  <2>3. ASSUME NEW j \in Job, NEW row, Update(j, row),
               row.status = jobs[j].status
        PROVE  EventStep
    <3>1. \A i \in Job : jobs'[i].status = jobs[i].status
      BY <1>1, <2>3 DEF Update, TypeOK
    <3> QED BY <3>1 DEF EventStep
  <2>4. CASE NoWrite
    BY <2>4 DEF NoWrite, EventStep
  <2>5. ASSUME NEW j \in Job, ApiWrite(j) PROVE EventStep
    BY <2>2, <2>5 DEF ApiWrite
  <2>6. ASSUME NEW w \in Worker, NEW j \in Job, LoopWrite(w, j) PROVE EventStep
    BY <2>2, <2>6 DEF LoopWrite
  <2>7. ASSUME NEW w \in Worker, NEW e \in Exec, NEW now \in Nat,
               ExecWrite(w, e, now)
        PROVE  EventStep
    <3>1. e.job \in Job /\ jobs[e.job] \in Row
      BY <1>1 DEF Exec, TypeOK
    <3>2. /\ \A stage : Staged(jobs[e.job], stage).status = jobs[e.job].status
          /\ Renewed(jobs[e.job], now).status = jobs[e.job].status
      BY <3>1, NewStatus
    <3> QED BY <2>2, <2>3, <2>7, <3>1, <3>2 DEF ExecWrite
  <2>8. \A w \in Worker, s \in Slot : exec[w][s] \in Exec
    BY <1>1 DEF TypeOK
  <2> QED BY <2>1, <2>4, <2>5, <2>6, <2>7, <2>8 DEF Writes
<1>2. TypeOK /\ [Next]_vars => [EventStep]_<<jobs, lastEvent>>
  BY <1>1
<1> QED BY <1>2, TypeCorrect, PTL DEF Spec, EventsTellTheTransition

-----------------------------------------------------------------------------
(* Sampled times *)

\* What Sampled says of a loop and of an execution, at time t.
SampledLoop(l, t) ==
    /\ l.now <= t
    /\ l.pc = "acquiring" => t - l.now <= MaxLag
SampledBeat(e, t) ==
    e.beating => e.beatNow <= t /\ t - e.beatNow <= MaxLag

\* What the steps of a loop make of it.
LEMMA LoopMoves ==
    ASSUME TypeOK, NEW w \in Worker, LoopNext(w)
    PROVE  \E l : /\ loop' = [loop EXCEPT ![w] = l]
                 /\ \/ l.pc = "acquiring" /\ l.now = clock
                    \/ /\ l.pc # "acquiring"
                       /\ l.now \in Now \union {0, loop[w].now}
<1>0. loop[w] \in Loop
  BY DEF TypeOK
<1>1. IdleLoop.pc = "idle" /\ IdleLoop.now = 0
  BY DEF IdleLoop
<1>2. ASSUME NEW l \in Loop
      PROVE  Resumed(l).pc # "acquiring" /\ Resumed(l).now \in {0, l.now}
  BY DEF Resumed, IdleLoop
<1>3. CASE Poll(w)
  <2> DEFINE polled == [loop[w] EXCEPT !.pc = "acquiring", !.now = clock]
  <2>1. polled.pc = "acquiring" /\ polled.now = clock
    BY <1>0, Zenon DEF Loop
  <2>2. loop' = [loop EXCEPT ![w] = polled]
    BY <1>3 DEF Poll
  <2> HIDE DEF polled
  <2> QED BY <2>1, <2>2
<1>4. CASE \/ AcquireNothing(w) \/ SweepThrows(w)
           \/ \E j \in Job : \/ AcquireThrows(w, j)
                             \/ \E s \in Slot : AcquireNext(w, s, j)
  <2>1. loop' = [loop EXCEPT ![w] = IdleLoop]
    BY <1>4 DEF AcquireNothing, SweepThrows, AcquireThrows, AcquireNext
  <2> QED BY <1>1, <2>1
<1>5. CASE ListStale(w)
  <2> DEFINE listed(now) == [loop[w] EXCEPT !.pc = "sweeping", !.now = now,
                                            !.todo = StaleJobs(now)]
  <2>1. PICK now \in Now : loop' = [loop EXCEPT ![w] = listed(now)]
    BY <1>5, Zenon DEF ListStale
  <2>2. listed(now).pc = "sweeping" /\ listed(now).now = now
    BY <1>0, Zenon DEF Loop
  <2> HIDE DEF listed
  <2> QED BY <2>1, <2>2
<1>6. ASSUME NEW entry \in loop[w].todo, SelectStale(w, entry)
      PROVE  \E l : /\ loop' = [loop EXCEPT ![w] = l]
                   /\ l.pc # "acquiring" /\ l.now \in {0, loop[w].now}
  <2> DEFINE rest == [loop[w] EXCEPT !.todo = @ \ {entry}]
             row == jobs[entry.job]
             found == [rest EXCEPT !.pc = "updating", !.current = entry,
                             !.exhausted = row.attemptCount >= MaxAttempts]
  <2>1. loop[w].todo \ {entry} \subseteq StaleEntry
    BY <1>0 DEF Loop
  <2>2. rest \in Loop /\ rest.now = loop[w].now
    BY <1>0, <2>1, Zenon DEF Loop
  <2>3. Selected(loop[w], entry) \in {found, Resumed(rest)}
    BY DEF Selected
  <2>4. found.pc = "updating" /\ found.now = rest.now
    <3> HIDE DEF rest, row
    <3> QED BY <2>2, Zenon DEF Loop
  <2>5. Resumed(rest).pc # "acquiring" /\ Resumed(rest).now \in {0, rest.now}
    BY <1>2, <2>2
  <2> HIDE DEF found, rest
  <2> QED BY <1>6, <2>2, <2>3, <2>4, <2>5 DEF SelectStale
<1>7. CASE UpdateStale(w)
  BY <1>0, <1>2, <1>7 DEF UpdateStale
<1> QED BY <1>3, <1>4, <1>5, <1>6, <1>7 DEF LoopNext

\* What the steps of an execution make of it: it keeps its job and its attempt
\* until it is free; a heartbeat starts now or is the one that was under way;
\* a retry is decided on with attempts left, and giving up without.
ExecMove(e, f) ==
    /\ f.pc # "free" => /\ e.pc # "free"
                        /\ f.job = e.job
                        /\ f.attempt = e.attempt
    /\ f.beating => \/ f.beatNow = clock
                    \/ e.beating /\ f.beatNow = e.beatNow
    /\ f.pc = "scheduling" => e.pc = "scheduling" \/ e.attempt < MaxAttempts
    /\ f.pc = "exhausting" => e.pc = "exhausting" \/ e.attempt >= MaxAttempts

\* The records an action may store in a slot are moves of the one it finds there.
LEMMA ExecFields ==
    ASSUME NEW e \in Exec, NEW retryable \in BOOLEAN
    PROVE  /\ ExecMove(e, Answered(e))
           /\ ExecMove(e, LostLease(e))
           /\ e.pc # "free" => /\ ExecMove(e, Settling(e))
                               /\ ExecMove(e, AfterError(e, retryable))
<1>1. e.pc # "free" => ExecMove(e, Settling(e))
  BY Zenon DEF ExecMove, Settling, Exec
<1>2. ExecMove(e, Answered(e))
  BY Zenon DEF ExecMove, Answered, Exec
<1>3. ExecMove(e, LostLease(e))
  BY Zenon DEF ExecMove, LostLease, Exec
<1>4. ASSUME e.pc # "free" PROVE ExecMove(e, AfterError(e, retryable))
  <2>1. CASE e.pc = "settling" \/ e.leaseLost \/ e.aborted
    BY <1>1, <1>4, <2>1 DEF AfterError
  <2>2. CASE ~(e.pc = "settling" \/ e.leaseLost \/ e.aborted)
    <3> DEFINE ending == IF ~retryable THEN "failing"
                         ELSE IF e.attempt >= MaxAttempts THEN "exhausting"
                         ELSE "scheduling"
               f == [e EXCEPT !.steps = 0, !.now = clock, !.pc = ending]
    <3>1. AfterError(e, retryable) = f
      BY <2>2, Zenon DEF AfterError
    <3>2. /\ f.pc = ending /\ f.job = e.job /\ f.attempt = e.attempt
          /\ f.beating = e.beating /\ f.beatNow = e.beatNow
      <4> HIDE DEF ending
      <4> QED BY Zenon DEF Exec
    <3>3. /\ ending = "scheduling" => e.attempt < MaxAttempts
          /\ ending = "exhausting" => e.attempt >= MaxAttempts
      BY DEF Exec
    <3> HIDE DEF f, ending
    <3> QED BY <1>4, <3>1, <3>2, <3>3 DEF ExecMove
  <2> QED BY <2>1, <2>2
<1> QED BY <1>1, <1>2, <1>3, <1>4

\* Two moves in a row are a move.
LEMMA ExecMoveTransitive ==
    ASSUME NEW e, NEW f, NEW g, ExecMove(e, f), ExecMove(f, g)
    PROVE  ExecMove(e, g)
BY Zenon DEF ExecMove

\* Every action of an execution is a move of its own slot.
LEMMA ExecMoves ==
    ASSUME TypeOK, NEW w \in Worker, NEW s \in Slot, ExecNext(w, s)
    PROVE  \E f \in Exec : SetExec(w, s, f) /\ ExecMove(exec[w][s], f)
<1> DEFINE e == exec[w][s]
<1>0. e \in Exec /\ clock \in Nat
  BY DEF TypeOK
<1>1. CASE MarkStage(w, s)
  <2>1. CASE e.steps < 2 /\ SetExec(w, s, [e EXCEPT !.steps = @ + 1])
    <3>1. e.steps + 1 \in 0 .. 2
      BY <1>0, <2>1 DEF Exec
    <3>2. [e EXCEPT !.steps = @ + 1] \in Exec
      BY <1>0, <3>1, Zenon DEF Exec
    <3>3. ExecMove(e, [e EXCEPT !.steps = @ + 1])
      BY <1>0, <1>1, Zenon DEF MarkStage, ExecMove, Exec
    <3> QED BY <2>1, <3>2, <3>3
  <2>2. CASE SetExec(w, s, Settling(e))
    BY <1>0, <1>1, <2>2, ExecTypes, ExecFields DEF MarkStage
  <2> QED BY <1>1, <2>1, <2>2 DEF MarkStage
<1>2. CASE MarkStageThrows(w, s)
  BY <1>0, <1>2, ExecTypes, ExecFields DEF MarkStageThrows
<1>3. CASE StartHeartbeat(w, s)
  <2>1. [e EXCEPT !.beating = TRUE, !.beatNow = clock] \in Exec
    BY <1>0, Zenon DEF Exec
  <2>2. ExecMove(e, [e EXCEPT !.beating = TRUE, !.beatNow = clock])
    BY <1>0, <1>3, Zenon DEF StartHeartbeat, ExecMove, Exec
  <2> QED BY <1>3, <2>1, <2>2 DEF StartHeartbeat
<1>4. Answered(e) \in Exec /\ ExecMove(e, Answered(e))
  BY <1>0, ExecTypes, ExecFields
<1>5. CASE RenewLease(w, s)
  <2>1. /\ LostLease(Answered(e)) \in Exec
        /\ ExecMove(e, LostLease(Answered(e)))
    BY <1>0, <1>4, ExecTypes, ExecFields, ExecMoveTransitive
  <2> QED BY <1>4, <1>5, <2>1 DEF RenewLease
<1>6. CASE HeartbeatThrows(w, s)
  <2>1. Answered(e).pc # "free"
    BY <1>0, <1>6, Zenon DEF HeartbeatThrows, Answered, Exec
  <2>2. /\ AfterError(Answered(e), TRUE) \in Exec
        /\ ExecMove(e, AfterError(Answered(e), TRUE))
    BY <1>0, <1>4, <2>1, ExecTypes, ExecFields, ExecMoveTransitive
  <2> QED BY <1>6, <2>2 DEF HeartbeatThrows
<1>7. CASE ProcessorSucceeds(w, s)
  <2> DEFINE f == [e EXCEPT !.pc = "completing", !.steps = 0, !.now = clock]
  <2>1. "completing" \in ExecPc /\ 0 \in 0 .. 2
    BY DEF ExecPc, Ending
  <2>2. f \in Exec
    BY <1>0, <2>1, Zenon DEF Exec
  <2>3. ExecMove(e, f)
    BY <1>0, <1>7, Zenon DEF ProcessorSucceeds, ExecMove, Exec
  <2> QED BY <1>7, <2>2, <2>3 DEF ProcessorSucceeds
<1>8. ASSUME NEW retryable \in BOOLEAN, ProcessorThrows(w, s, retryable)
      PROVE  \E f \in Exec : SetExec(w, s, f) /\ ExecMove(e, f)
  BY <1>0, <1>8, ExecTypes, ExecFields DEF ProcessorThrows
<1>9. CASE MarkCompleted(w, s) \/ ScheduleRetry(w, s) \/ MarkFailed(w, s)
  BY <1>0, <1>9, ExecTypes, ExecFields DEF MarkCompleted, ScheduleRetry, MarkFailed
<1>10. CASE MarkCompletedThrows(w, s)
  BY <1>0, <1>10, ExecTypes, ExecFields DEF MarkCompletedThrows
<1>11. CASE Settle(w, s)
  <2>1. ExecMove(e, FreeSlot)
    BY DEF ExecMove, FreeSlot
  <2> QED BY <1>11, <2>1, IdleTypes DEF Settle
<1> QED BY <1>1, <1>2, <1>3, <1>5, <1>6, <1>7, <1>8, <1>9, <1>10, <1>11
        DEF ExecNext

\* In a step, every slot moves, or acquireNext fills it.
LEMMA ExecSteps ==
    ASSUME TypeOK, [Next]_vars, NEW v \in Worker, NEW t \in Slot
    PROVE  \/ ExecMove(exec[v][t], exec'[v][t])
           \/ \E j \in Job : AcquireNext(v, t, j)
<1>0. exec \in [Worker -> [Slot -> Exec]] /\ exec[v][t] \in Exec
  BY DEF TypeOK
<1>1. ExecMove(exec[v][t], exec[v][t])
  BY Zenon DEF ExecMove
<1>2. CASE UNCHANGED exec
  BY <1>1, <1>2
<1>3. ASSUME NEW w \in Worker, NEW f, exec' = [exec EXCEPT ![w] = f]
      PROVE  exec'[v][t] = IF v = w THEN f[t] ELSE exec[v][t]
  BY <1>0, <1>3
<1>4. ASSUME NEW w \in Worker, NEW s \in Slot, NEW f,
             exec' = [exec EXCEPT ![w][s] = f]
      PROVE  exec'[v][t] = IF v = w /\ t = s THEN f ELSE exec[v][t]
  BY <1>0, <1>4
<1>5. ASSUME NEW w \in Worker, ProcNext(w)
      PROVE  ExecMove(exec[v][t], exec'[v][t])
  <2>1. CASE Crash(w)
    <3>1. ExecMove(exec[v][t], FreeSlot)
      BY DEF ExecMove, FreeSlot
    <3>2. exec' = [exec EXCEPT ![w] = [s \in Slot |-> FreeSlot]]
      BY <2>1 DEF Crash
    <3> DEFINE g == [s \in Slot |-> FreeSlot]
    <3>3. g[t] = FreeSlot
      OBVIOUS
    <3>4. exec' = [exec EXCEPT ![w] = g]
      BY <3>2
    <3> HIDE DEF g
    <3>5. exec'[v][t] = IF v = w THEN g[t] ELSE exec[v][t]
      BY <1>3, <3>4
    <3> QED BY <1>1, <3>1, <3>3, <3>5
  <2>2. CASE AbortAll(w)
    <3> DEFINE f == [exec[v][t] EXCEPT
                       !.aborted = exec[v][t].pc \notin {"free", "settling"}]
    <3>1. ExecMove(exec[v][t], f)
      BY <1>0, Zenon DEF ExecMove, Exec
    <3>2. CASE v = w
      <4> DEFINE g == [s \in Slot |-> [exec[w][s] EXCEPT
                        !.aborted = exec[w][s].pc \notin {"free", "settling"}]]
      <4>1. exec' = [exec EXCEPT ![w] = g]
        BY <2>2, Zenon DEF AbortAll
      <4>2. g[t] = f
        BY <3>2, Zenon
      <4> HIDE DEF f, g
      <4> QED BY <1>3, <3>1, <3>2, <4>1, <4>2
    <3>3. CASE v # w
      BY <1>0, <1>1, <2>2, <3>3 DEF AbortAll
    <3> QED BY <3>2, <3>3
  <2>3. CASE RequestShutdown(w) \/ ShutdownTimeout(w)
    <3>1. AbortAll(w)
      BY <2>3 DEF RequestShutdown, ShutdownTimeout
    <3> QED BY <2>2, <3>1
  <2>4. CASE Start(w) \/ Exit(w)
    BY <1>1, <2>4 DEF Start, Exit
  <2> QED BY <1>5, <2>1, <2>3, <2>4 DEF ProcNext
<1>6. ASSUME NEW w \in Worker, LoopNext(w)
      PROVE  \/ ExecMove(exec[v][t], exec'[v][t])
             \/ \E j \in Job : AcquireNext(v, t, j)
  <2>1. ASSUME NEW s \in Slot, NEW j \in Job, AcquireNext(w, s, j)
        PROVE  \/ ExecMove(exec[v][t], exec'[v][t])
               \/ AcquireNext(v, t, j)
    <3>1. CASE v = w /\ t = s
      BY <2>1, <3>1
    <3>2. CASE ~(v = w /\ t = s)
      <4>1. exec'[v][t] = exec[v][t]
        BY <1>4, <2>1, <3>2 DEF AcquireNext
      <4> QED BY <1>1, <4>1
    <3> QED BY <3>1, <3>2
  <2>2. CASE UNCHANGED exec
    BY <1>2, <2>2
  <2> QED BY <1>6, <2>1, <2>2
          DEF LoopNext, Poll, AcquireNothing, AcquireThrows, ListStale,
              SelectStale, UpdateStale, SweepThrows
<1>7. ASSUME NEW w \in Worker, NEW s \in Slot, ExecNext(w, s)
      PROVE  ExecMove(exec[v][t], exec'[v][t])
  <2>1. PICK f \in Exec : SetExec(w, s, f) /\ ExecMove(exec[w][s], f)
    BY <1>7, ExecMoves
  <2> QED BY <1>1, <1>4, <2>1 DEF SetExec
<1>8. ASSUME NEW j \in Job, ApiNext(j) PROVE UNCHANGED exec
  BY <1>8 DEF ApiNext, Create, CancelRead, CancelUpdate
<1> QED BY <1>2, <1>5, <1>6, <1>7, <1>8 DEF Next, Step, Tick, vars

\* Sampled is inductive: a sample is the clock's value, and the clock waits for
\* the statements under way.
LEMMA SampledStep ==
    ASSUME TypeOK, Sampled, [Next]_vars
    PROVE  Sampled'
<1>1. TypeOK'
  BY NextType
<1>2. Tick \/ clock' = clock
  <2>1. ASSUME NEW j \in Job, ApiNext(j) PROVE clock' = clock
    BY <2>1 DEF ApiNext, Create, CancelRead, CancelUpdate
  <2>2. ASSUME NEW w \in Worker, ProcNext(w) PROVE clock' = clock
    BY <2>2 DEF ProcNext, Start, Crash, RequestShutdown, ShutdownTimeout, Exit
  <2>3. ASSUME NEW w \in Worker, LoopNext(w) PROVE clock' = clock
    BY <2>3 DEF LoopNext, Poll, AcquireNothing, AcquireThrows, AcquireNext,
                ListStale, SelectStale, UpdateStale, SweepThrows
  <2>4. ASSUME NEW w \in Worker, NEW s \in Slot, ExecNext(w, s)
        PROVE  clock' = clock
    BY <2>4 DEF ExecNext, MarkStage, MarkStageThrows, StartHeartbeat, RenewLease,
                HeartbeatThrows, ProcessorSucceeds, ProcessorThrows,
                MarkCompleted, MarkCompletedThrows, ScheduleRetry, MarkFailed,
                Settle
  <2>5. CASE UNCHANGED vars
    BY <2>5 DEF vars
  <2> QED BY <2>1, <2>2, <2>3, <2>4, <2>5 DEF Next, Step
<1>3. ASSUME clock' = clock, NEW v \in Worker PROVE SampledLoop(loop'[v], clock)
  <2>0. SampledLoop(loop[v], clock) /\ loop[v] \in Loop /\ clock \in Nat
    BY DEF Sampled, SampledLoop, TypeOK
  <2>1. CASE loop'[v] = loop[v]
    BY <2>0, <2>1
  <2>2. ASSUME NEW w \in Worker, LoopNext(w)
        PROVE  SampledLoop(loop'[v], clock)
    <3>1. PICK l : /\ loop' = [loop EXCEPT ![w] = l]
                   /\ \/ l.pc = "acquiring" /\ l.now = clock
                      \/ /\ l.pc # "acquiring"
                         /\ l.now \in Now \union {0, loop[w].now}
      BY <2>2, LoopMoves
    <3>2. loop[w].now \in Nat /\ loop[w].now <= clock
      BY DEF Sampled, TypeOK, Loop
    <3>3. SampledLoop(l, clock)
      BY <2>0, <3>1, <3>2 DEF SampledLoop, Now
    <3> QED BY <2>1, <3>1, <3>3 DEF TypeOK
  <2>3. ASSUME NEW w \in Worker, ProcNext(w)
        PROVE  SampledLoop(loop'[v], clock)
    <3>1. SampledLoop(IdleLoop, clock)
      BY <2>0 DEF SampledLoop, IdleLoop
    <3>2. CASE Crash(w)
      BY <2>1, <3>1, <3>2 DEF Crash, TypeOK
    <3> QED BY <2>1, <2>3, <3>2
            DEF ProcNext, Start, RequestShutdown, ShutdownTimeout, Exit
  <2>4. ASSUME NEW j \in Job, ApiNext(j) PROVE loop'[v] = loop[v]
    BY <2>4 DEF ApiNext, Create, CancelRead, CancelUpdate
  <2>5. ASSUME NEW w \in Worker, NEW s \in Slot, ExecNext(w, s)
        PROVE  loop'[v] = loop[v]
    BY <2>5 DEF ExecNext, MarkStage, MarkStageThrows, StartHeartbeat, RenewLease,
                HeartbeatThrows, ProcessorSucceeds, ProcessorThrows,
                MarkCompleted, MarkCompletedThrows, ScheduleRetry, MarkFailed,
                Settle
  <2> QED BY <2>1, <2>2, <2>3, <2>4, <2>5 DEF Next, Step, Tick, vars
<1>4. ASSUME clock' = clock, NEW v \in Worker, NEW t \in Slot
      PROVE  SampledBeat(exec'[v][t], clock)
  <2>1. SampledBeat(exec[v][t], clock)
    BY DEF Sampled, SampledBeat
  <2>2. CASE ExecMove(exec[v][t], exec'[v][t])
    BY <2>1, <2>2 DEF ExecMove, SampledBeat, TypeOK
  <2>3. ASSUME NEW j \in Job, AcquireNext(v, t, j)
        PROVE  SampledBeat(exec'[v][t], clock)
    <3>1. exec'[v][t] = Started(j, jobs[j].attemptCount + 1)
      BY <2>3 DEF AcquireNext, TypeOK
    <3>2. ~Started(j, jobs[j].attemptCount + 1).beating
      BY Zenon DEF Started, FreeSlot
    <3> QED BY <3>1, <3>2 DEF SampledBeat
  <2> QED BY <2>2, <2>3, ExecSteps
<1>5. CASE clock' = clock
  BY <1>3, <1>4, <1>5 DEF Sampled, SampledLoop, SampledBeat
<1>6. CASE Tick
  <2>1. ASSUME NEW v \in Worker
        PROVE  loop[v].now \in Nat /\ clock \in Nat
    BY DEF TypeOK, Loop
  <2>2. ASSUME NEW v \in Worker, NEW t \in Slot
        PROVE  exec[v][t].beatNow \in Nat
    BY DEF TypeOK, Exec
  <2> QED BY <1>6, <2>1, <2>2 DEF Tick, StatementsOnTime, Sampled
<1> QED BY <1>2, <1>5, <1>6

\* The sweep takes a row from its worker only when the lease has run out.
THEOREM LeasesHonoured == Spec => LeaseHonoured
<1>1. ASSUME TypeOK, Sampled, [Next]_vars PROVE RecoveryStep
  <2>1. Writes
    BY <1>1, StepWrites
  <2>2. ASSUME NEW j \in Job, NEW row, NEW type, Written(j, row, type),
               type = "job-lease-expired" => jobs[j].leaseExpiresAt <= clock
        PROVE  RecoveryStep
    <3>1. \A i \in Job : lastEvent'[i] = IF i = j
             THEN [type |-> type, priorStatus |-> jobs[j].status,
                   newStatus |-> row.status]
             ELSE lastEvent[i]
      BY <1>1, <2>2 DEF Written, Commit, TypeOK
    <3> QED BY <2>2, <3>1 DEF RecoveryStep
  <2>3. CASE UNCHANGED lastEvent
    BY <2>3 DEF RecoveryStep
  <2>4. ASSUME NEW j \in Job, ApiWrite(j) PROVE RecoveryStep
    BY <2>2, <2>4 DEF ApiWrite
  <2>5. ASSUME NEW w \in Worker, NEW j \in Job, LoopWrite(w, j)
        PROVE  RecoveryStep
    <3>1. CASE Written(j, Acquired(jobs[j], w, loop[w].now), "job-lease-acquired")
      BY <2>2, <3>1
    <3>2. ASSUME NEW next \in Nat, Stale(jobs[j], loop[w].now),
                 Written(j, Recovered(jobs[j], loop[w].exhausted, next),
                        "job-lease-expired")
          PROVE  RecoveryStep
      <4>1. /\ loop[w].now \in Nat /\ loop[w].now <= clock /\ clock \in Nat
            /\ jobs[j].leaseExpiresAt \in Int
        BY <1>1 DEF TypeOK, Sampled, Loop, Row, Time, NoTime
      <4>2. jobs[j].leaseExpiresAt <= clock
        BY <3>2, <4>1 DEF Stale
      <4> QED BY <2>2, <3>2, <4>2
    <3> QED BY <2>5, <3>1, <3>2 DEF LoopWrite
  <2>6. ASSUME NEW w \in Worker, NEW e \in Exec, NEW now \in Nat,
               ExecWrite(w, e, now)
        PROVE  RecoveryStep
    <3>1. e.job \in Job
      BY DEF Exec
    <3>2. CASE \E row : Update(e.job, row)
      BY <2>3, <3>2 DEF Update
    <3>3. CASE \E row, type : /\ Written(e.job, row, type)
                              /\ type # "job-lease-expired"
      BY <2>2, <3>1, <3>3
    <3> QED BY <2>6, <3>2, <3>3 DEF ExecWrite
  <2>7. \A w \in Worker, s \in Slot : exec[w][s] \in Exec
    BY <1>1 DEF TypeOK
  <2> QED BY <2>1, <2>3, <2>4, <2>5, <2>6, <2>7 DEF Writes, NoWrite
<1>2. Init => Sampled
  <2>1. /\ IdleLoop.now = 0 /\ IdleLoop.pc = "idle" /\ ~FreeSlot.beating
    BY DEF IdleLoop, FreeSlot
  <2>2. ASSUME Init, NEW w \in Worker
        PROVE  clock = 0 /\ loop[w] = IdleLoop /\ \A s \in Slot : exec[w][s] = FreeSlot
    BY <2>2 DEF Init
  <2>3. ASSUME Init, NEW w \in Worker
        PROVE  /\ loop[w].now <= clock /\ loop[w].pc # "acquiring"
               /\ \A s \in Slot : ~exec[w][s].beating
    BY <2>1, <2>2, <2>3
  <2> QED BY <2>3, Zenon DEF Sampled
<1>3. TypeOK /\ Sampled /\ [Next]_vars
         => Sampled' /\ [RecoveryStep]_<<jobs, lastEvent>>
  BY <1>1, SampledStep
<1> QED BY <1>2, <1>3, TypeCorrect, PTL DEF Spec, LeaseHonoured

-----------------------------------------------------------------------------
(* Attempts: which attempt's result a job shows, how many attempts it      *)
(* gets, and, from the two, that ContentWorkers implements JobLifecycle.   *)
(* Two hypotheses come in that the theorems above do without, and both are *)
(* needed (TLC finds behaviours that break the conclusions without them):  *)
(*                                                                         *)
(*  - NotReoffered: no worker is offered a job it is still executing.  The *)
(*    statements are guarded by the id of the worker, not by the attempt,  *)
(*    so the guard does not tell two attempts of one worker apart.  With   *)
(*    Concurrency = 1, the default of WORKER_CONCURRENCY, it holds;        *)
(*  - MaxLag < LeaseDuration: no statement is under way for as long as a   *)
(*    lease lasts, so a lease that has just been written is in the future  *)
(*    and no sweep that is under way finds it stale.                       *)

(* What a step makes of one row *)

\* The ways an execution e of worker w changes the row r into n.
ExecChange(w, e, r, n) ==
    \/ \E stage \in ContentJobStage : n = Staged(r, stage)
    \/ e.beating /\ n = Renewed(r, e.beatNow)
    \/ e.pc = "completing" /\ n = Completed(r, e.attempt)
    \/ e.pc = "scheduling" /\ \E next \in Nat : n = RetryScheduled(r, next)
    \/ e.pc \in {"failing", "exhausting"} /\ n = Failed(r, FailureCode(e))

RowStep(j) ==
    LET r == jobs[j]
        n == jobs'[j]
    IN  \/ n = r
        \/ r.status = Absent /\ n = Inserted
        \/ r.status \in {"queued", "retrying"} /\ n = Cancelled(r)
        \/ \E w \in Worker : /\ loop[w].pc = "acquiring"
                             /\ Due(r, loop[w].now)
                             /\ r.status \in {"queued", "retrying"}
                             /\ n = Acquired(r, w, loop[w].now)
        \/ \E w \in Worker : /\ loop[w].pc = "updating"
                             /\ loop[w].current.job = j
                             /\ Stale(r, loop[w].now)
                             /\ \E next \in Nat :
                                   n = Recovered(r, loop[w].exhausted, next)
        \/ \E w \in Worker, s \in Slot :
              /\ exec[w][s].job = j
              /\ r.status = "processing"
              /\ r.leaseOwner = w
              /\ ExecChange(w, exec[w][s], r, n)

\* Every step changes a row in one of these ways, or not at all.
LEMMA RowSteps ==
    ASSUME TypeOK, CancelSeen, [Next]_vars, NEW j \in Job
    PROVE  RowStep(j)
<1>1. Writes
  BY StepWrites
<1>2. ASSUME NEW i \in Job, NEW row, jobs' = [jobs EXCEPT ![i] = row]
      PROVE  jobs'[j] = IF i = j THEN row ELSE jobs[j]
  BY <1>2 DEF TypeOK
<1>3. CASE jobs'[j] = jobs[j]
  BY <1>3 DEF RowStep
<1>4. ASSUME NEW i \in Job, ApiWrite(i) PROVE RowStep(j)
  <2>1. CASE jobs[i].status = Absent /\ jobs' = [jobs EXCEPT ![i] = Inserted]
    BY <1>2, <1>3, <2>1 DEF RowStep
  <2>2. CASE /\ cancels[i] # "none"
             /\ jobs[i].status = cancels[i]
             /\ jobs' = [jobs EXCEPT ![i] = Cancelled(jobs[i])]
    <3>1. jobs[i].status \in {"queued", "retrying"}
      BY <2>2 DEF CancelSeen
    <3> QED BY <1>2, <1>3, <2>2, <3>1 DEF RowStep
  <2> QED BY <1>4, <2>1, <2>2 DEF ApiWrite, Written, Commit
<1>5. ASSUME NEW w \in Worker, NEW i \in Job, LoopWrite(w, i) PROVE RowStep(j)
  <2>1. CASE /\ loop[w].pc = "acquiring" /\ Due(jobs[i], loop[w].now)
             /\ jobs' = [jobs EXCEPT ![i] = Acquired(jobs[i], w, loop[w].now)]
    <3>1. jobs[i].status \in {"queued", "retrying"}
      BY <2>1 DEF Due
    <3> QED BY <1>2, <1>3, <2>1, <3>1 DEF RowStep
  <2>2. ASSUME loop[w].pc = "updating", loop[w].current.job = i,
               Stale(jobs[i], loop[w].now), NEW next \in Nat,
               jobs' = [jobs EXCEPT ![i] =
                          Recovered(jobs[i], loop[w].exhausted, next)]
        PROVE  RowStep(j)
    BY <1>2, <1>3, <2>2 DEF RowStep
  <2> QED BY <1>5, <2>1, <2>2 DEF LoopWrite, Written, Commit
<1>6. ASSUME NEW w \in Worker, NEW s \in Slot, NEW now \in Nat,
             ExecWrite(w, exec[w][s], now)
      PROVE  RowStep(j)
  <2> DEFINE e == exec[w][s]
  <2>1. e.job \in Job
    BY DEF TypeOK, Exec
  <2>2. PICK new : /\ jobs' = [jobs EXCEPT ![e.job] = new]
                   /\ ExecChange(w, e, jobs[e.job], new)
    BY <1>6, Zenon DEF ExecWrite, ExecChange, Written, Commit, Update
  <2>3. jobs[e.job].status = "processing" /\ jobs[e.job].leaseOwner = w
    BY <1>6 DEF ExecWrite, Owned
  <2> HIDE DEF e
  <2>4. CASE e.job = j
    <3>1. jobs'[j] = new
      BY <1>2, <2>1, <2>2, <2>4
    <3> USE DEF e
    <3> QED BY <2>2, <2>3, <2>4, <3>1, Zenon DEF RowStep
  <2>5. CASE e.job # j
    BY <1>2, <1>3, <2>1, <2>2, <2>5
  <2> QED BY <2>4, <2>5
<1> QED BY <1>1, <1>3, <1>4, <1>5, <1>6 DEF Writes, NoWrite

\* The columns the invariants speak of, after each SET clause.
LEMMA NewColumns ==
    ASSUME NEW r \in Row
    PROVE  /\ Inserted.attemptCount = 0 /\ Inserted.result = 0
           /\ Inserted.errorCode = "none"
           /\ Cancelled(r).attemptCount = r.attemptCount
           /\ Cancelled(r).result = 0
           /\ Cancelled(r).errorCode = r.errorCode
           /\ \A w, now : LET n == Acquired(r, w, now) IN
                 /\ n.attemptCount = r.attemptCount + 1 /\ n.leaseOwner = w
                 /\ n.leaseExpiresAt = now + LeaseDuration
                 /\ n.result = r.result /\ n.errorCode = r.errorCode
           /\ \A x, next : LET n == Recovered(r, x, next) IN
                 /\ n.attemptCount = r.attemptCount /\ n.result = r.result
                 /\ n.errorCode = IF x THEN "WORKER_MAX_ATTEMPTS_EXCEEDED"
                                       ELSE "WORKER_LEASE_EXPIRED"
           /\ \A stage : LET n == Staged(r, stage) IN
                 /\ n.attemptCount = r.attemptCount
                 /\ n.leaseOwner = r.leaseOwner
                 /\ n.leaseExpiresAt = r.leaseExpiresAt
                 /\ n.result = r.result /\ n.errorCode = r.errorCode
           /\ \A now : LET n == Renewed(r, now) IN
                 /\ n.attemptCount = r.attemptCount
                 /\ n.leaseOwner = r.leaseOwner
                 /\ n.leaseExpiresAt = now + LeaseDuration
                 /\ n.result = r.result /\ n.errorCode = r.errorCode
           /\ \A a : LET n == Completed(r, a) IN
                 /\ n.attemptCount = r.attemptCount /\ n.result = a
                 /\ n.errorCode = "none"
           /\ \A next : LET n == RetryScheduled(r, next) IN
                 /\ n.attemptCount = r.attemptCount /\ n.result = 0
                 /\ n.errorCode = "processor-error"
           /\ \A code : LET n == Failed(r, code) IN
                 /\ n.attemptCount = r.attemptCount /\ n.result = 0
                 /\ n.errorCode = code
BY Zenon DEF Row, NoRow, Inserted, Cancelled, Acquired, Recovered, Staged,
             Renewed, Completed, RetryScheduled, Failed

\* A row that is being processed after a step was acquired by it, or was being
\* processed before, in the same attempt, for the same worker, and with the
\* same lease unless a heartbeat has renewed it.
LEMMA StillProcessing ==
    ASSUME TypeOK, CancelSeen, [Next]_vars, NEW j \in Job,
           jobs'[j].status = "processing"
    PROVE  \/ \E w \in Worker : /\ loop[w].pc = "acquiring"
                               /\ Due(jobs[j], loop[w].now)
                               /\ jobs'[j].leaseOwner = w
                               /\ jobs'[j].leaseExpiresAt
                                      = loop[w].now + LeaseDuration
           \/ /\ jobs[j].status = "processing"
              /\ jobs'[j].leaseOwner = jobs[j].leaseOwner
              /\ jobs'[j].attemptCount = jobs[j].attemptCount
              /\ \/ jobs'[j].leaseExpiresAt = jobs[j].leaseExpiresAt
                 \/ \E w \in Worker, s \in Slot :
                       /\ exec[w][s].beating
                       /\ jobs'[j].leaseExpiresAt
                              = exec[w][s].beatNow + LeaseDuration
<1> DEFINE r == jobs[j]
           n == jobs'[j]
<1>1. r \in Row /\ RowStep(j)
  BY RowSteps DEF TypeOK
<1>2. CASE n = r
  BY <1>2
<1>3. CASE n = Inserted \/ n = Cancelled(r)
  BY <1>1, <1>3, NewStatus
<1>4. ASSUME NEW w \in Worker, loop[w].pc = "acquiring",
             n = Acquired(r, w, loop[w].now)
      PROVE  /\ n.leaseOwner = w
             /\ n.leaseExpiresAt = loop[w].now + LeaseDuration
  BY <1>1, <1>4, NewColumns
<1>5. ASSUME NEW w \in Worker, NEW next, n = Recovered(r, loop[w].exhausted, next)
      PROVE  FALSE
  <2>1. loop[w].exhausted \in BOOLEAN
    BY DEF TypeOK, Loop
  <2>2. Recovered(r, loop[w].exhausted, next).status \in {"failed", "retrying"}
    BY <1>1, <2>1, NewStatus
  <2> QED BY <1>5, <2>2
<1>6. ASSUME NEW w \in Worker, NEW s \in Slot, r.status = "processing",
             ExecChange(w, exec[w][s], r, n)
      PROVE  /\ n.leaseOwner = r.leaseOwner
             /\ n.attemptCount = r.attemptCount
             /\ \/ n.leaseExpiresAt = r.leaseExpiresAt
                \/ /\ exec[w][s].beating
                   /\ n.leaseExpiresAt = exec[w][s].beatNow + LeaseDuration
  <2>1. CASE \E stage \in ContentJobStage : n = Staged(r, stage)
    BY <1>1, <2>1, NewColumns
  <2>2. CASE exec[w][s].beating /\ n = Renewed(r, exec[w][s].beatNow)
    BY <1>1, <2>2, NewColumns
  <2>3. CASE \/ \E a : n = Completed(r, a)
             \/ \E next : n = RetryScheduled(r, next)
             \/ \E code : n = Failed(r, code)
    BY <1>1, <2>3, NewStatus
  <2> QED BY <1>6, <2>1, <2>2, <2>3 DEF ExecChange
<1> QED BY <1>1, <1>2, <1>3, <1>4, <1>5, <1>6 DEF RowStep

-----------------------------------------------------------------------------
(* What a step makes of one loop *)

\* A step leaves a worker's loop alone, starts a call, ends one, or decides in a sweep.
LEMMA LoopSteps ==
    ASSUME TypeOK, [Next]_vars, NEW v \in Worker
    PROVE  \/ loop'[v] = loop[v]
           \/ Poll(v)
           \/ loop'[v].pc \in {"idle", "sweeping"}
           \/ /\ loop'[v].pc = "updating"
              /\ UNCHANGED jobs
              /\ loop'[v].exhausted
                    <=> jobs[loop'[v].current.job].attemptCount >= MaxAttempts
<1>0. loop \in [Worker -> Loop] /\ loop[v] \in Loop
  BY DEF TypeOK
<1>1. IdleLoop.pc = "idle" /\ \A l : Resumed(l).pc \in {"idle", "sweeping"}
  BY DEF IdleLoop, Resumed
<1>2. ASSUME NEW w \in Worker, NEW l, loop' = [loop EXCEPT ![w] = l]
      PROVE  loop'[v] = IF w = v THEN l ELSE loop[v]
  BY <1>0, <1>2
<1>3. ASSUME NEW w \in Worker, NEW entry \in loop[w].todo, SelectStale(w, entry)
      PROVE  \/ loop'[v] = loop[v]
             \/ loop'[v].pc \in {"idle", "sweeping"}
             \/ /\ loop'[v].pc = "updating"
                /\ UNCHANGED jobs
                /\ loop'[v].exhausted
                      <=> jobs[loop'[v].current.job].attemptCount >= MaxAttempts
  <2> DEFINE rest == [loop[w] EXCEPT !.todo = @ \ {entry}]
             exhausted == jobs[entry.job].attemptCount >= MaxAttempts
             found == [rest EXCEPT !.pc = "updating", !.current = entry,
                                   !.exhausted = exhausted]
  <2>1. loop[w] \in Loop /\ loop[w].todo \ {entry} \subseteq StaleEntry
    BY <1>0 DEF Loop
  <2>2. rest \in Loop
    BY <2>1, Zenon DEF Loop
  <2>3. /\ found.pc = "updating" /\ found.current = entry
        /\ found.exhausted = exhausted
    <3> HIDE DEF rest, exhausted
    <3> QED BY <2>2, Zenon DEF Loop
  <2>4. Selected(loop[w], entry) \in {found, Resumed(rest)}
    BY DEF Selected
  <2>5. UNCHANGED jobs /\ loop' = [loop EXCEPT ![w] = Selected(loop[w], entry)]
    BY <1>3 DEF SelectStale
  <2>6. loop'[v] = IF w = v THEN Selected(loop[w], entry) ELSE loop[v]
    BY <1>2, <2>5
  <2> HIDE DEF rest, found
  <2> QED BY <1>1, <2>3, <2>4, <2>5, <2>6
<1>4. ASSUME NEW w \in Worker, LoopNext(w),
             ~\E entry \in loop[w].todo : SelectStale(w, entry)
      PROVE  \/ loop'[v] = loop[v] \/ Poll(v)
             \/ loop'[v].pc \in {"idle", "sweeping"}
  <2>1. CASE Poll(w)
    BY <1>0, <2>1 DEF Poll
  <2>2. CASE loop' = [loop EXCEPT ![w] = IdleLoop]
    BY <1>1, <1>2, <2>2
  <2>3. CASE UpdateStale(w)
    BY <1>1, <1>2, <2>3 DEF UpdateStale
  <2>4. CASE ListStale(w)
    <3> DEFINE listed(now) == [loop[w] EXCEPT !.pc = "sweeping", !.now = now,
                                              !.todo = StaleJobs(now)]
    <3>1. PICK now \in Now : loop' = [loop EXCEPT ![w] = listed(now)]
      BY <2>4, Zenon DEF ListStale
    <3>2. loop[w] \in Loop
      BY <1>0
    <3>3. listed(now).pc = "sweeping"
      BY <3>2, Zenon DEF Loop
    <3> HIDE DEF listed
    <3> QED BY <1>2, <3>1, <3>3
  <2> QED BY <1>4, <2>1, <2>2, <2>3, <2>4
          DEF LoopNext, AcquireNothing, AcquireThrows, AcquireNext, SweepThrows
<1>5. ASSUME NEW w \in Worker, ProcNext(w)
      PROVE  loop'[v] = loop[v] \/ loop'[v].pc = "idle"
  <2>1. CASE Crash(w)
    BY <1>1, <1>2, <2>1 DEF Crash
  <2>2. CASE UNCHANGED loop
    BY <2>2
  <2> QED BY <1>5, <2>1, <2>2
          DEF ProcNext, Start, RequestShutdown, ShutdownTimeout, Exit
<1>6. ASSUME NEW j \in Job, ApiNext(j) PROVE UNCHANGED loop
  BY <1>6 DEF ApiNext, Create, CancelRead, CancelUpdate
<1>7. ASSUME NEW w \in Worker, NEW s \in Slot, ExecNext(w, s)
      PROVE  UNCHANGED loop
  BY <1>7 DEF ExecNext, MarkStage, MarkStageThrows, StartHeartbeat, RenewLease,
              HeartbeatThrows, ProcessorSucceeds, ProcessorThrows,
              MarkCompleted, MarkCompletedThrows, ScheduleRetry, MarkFailed,
              Settle
<1>8. CASE UNCHANGED loop
  BY <1>8
<1>9. CASE Step
  BY <1>3, <1>4, <1>5, <1>6, <1>7, <1>8, <1>9 DEF Step
<1>10. CASE Tick \/ UNCHANGED vars
  BY <1>8, <1>10 DEF Tick, vars
<1> QED BY <1>9, <1>10 DEF Next

\* A worker that is asking for a job has a slot for it.
HasSlot ==
    \A w \in Worker :
        loop[w].pc = "acquiring" => \E s \in Slot : exec[w][s].pc = "free"

\* While a worker waits for acquireNext, none of its slots fills up.
LEMMA HasSlotStep ==
    ASSUME TypeOK, HasSlot, [Next]_vars
    PROVE  HasSlot'
<1>1. SUFFICES ASSUME NEW w \in Worker, loop'[w].pc = "acquiring"
               PROVE  \E s \in Slot : exec'[w][s].pc = "free"
  BY DEF HasSlot
<1>2. CASE Poll(w)
  BY <1>2 DEF Poll
<1>3. CASE loop'[w] = loop[w]
  <2>1. PICK s \in Slot : exec[w][s].pc = "free"
    BY <1>1, <1>3 DEF HasSlot
  <2>2. CASE ExecMove(exec[w][s], exec'[w][s])
    BY <2>1, <2>2 DEF ExecMove
  <2>3. ASSUME NEW j \in Job, AcquireNext(w, s, j) PROVE FALSE
    <3>1. loop'[w] = IdleLoop
      BY <2>3 DEF AcquireNext, TypeOK
    <3> QED BY <1>1, <3>1 DEF IdleLoop
  <2> QED BY <2>2, <2>3, ExecSteps
<1> QED BY <1>1, <1>2, <1>3, LoopSteps

-----------------------------------------------------------------------------
(* The fence *)

\* No worker is offered a job that one of its own executions is still at: the
\* acquireNext it awaits does not find such a job due.
NotReoffered ==
    \A w \in Worker, s \in Slot :
        (loop[w].pc = "acquiring" /\ exec[w][s].pc # "free")
            => ~Due(jobs[exec[w][s].job], loop[w].now)

\* With one slot that is so: a worker asks for a job only when its slot is free.
LEMMA OneSlotNotReoffered ==
    ASSUME Concurrency = 1
    PROVE  Spec => []NotReoffered
<1>1. Init => HasSlot
  BY DEF Init, HasSlot, IdleLoop
<1>2. TypeOK /\ HasSlot /\ [Next]_vars => HasSlot'
  BY HasSlotStep
<1>3. HasSlot => NotReoffered
  BY DEF HasSlot, NotReoffered, Slot
<1> QED BY <1>1, <1>2, <1>3, TypeCorrect, PTL DEF Spec

\* The fence holds after every step.
LEMMA FencedStep ==
    ASSUME TypeOK, CancelSeen, NotReoffered, Fenced, [Next]_vars
    PROVE  Fenced'
<1>1. SUFFICES ASSUME NEW w \in Worker, NEW s \in Slot,
                      exec'[w][s].pc # "free",
                      jobs'[exec'[w][s].job].status = "processing",
                      jobs'[exec'[w][s].job].leaseOwner = w
               PROVE  jobs'[exec'[w][s].job].attemptCount = exec'[w][s].attempt
  BY DEF Fenced
<1> DEFINE e == exec[w][s]
           f == exec'[w][s]
<1>2. ASSUME NEW j \in Job, AcquireNext(w, s, j)
      PROVE  jobs'[f.job].attemptCount = f.attempt
  <2>1. f = Started(j, jobs[j].attemptCount + 1)
    BY <1>2 DEF AcquireNext, TypeOK
  <2>2. f.job = j /\ f.attempt = jobs[j].attemptCount + 1
    BY <2>1, Zenon DEF Started, FreeSlot
  <2>3. jobs'[j] = Acquired(jobs[j], w, loop[w].now)
    BY <1>2 DEF AcquireNext, Written, Commit, TypeOK
  <2>4. jobs'[j].attemptCount = jobs[j].attemptCount + 1
    BY <2>3, NewColumns DEF TypeOK
  <2> QED BY <2>2, <2>4
<1>3. CASE ExecMove(e, f)
  <2>1. e.pc # "free" /\ f.job = e.job /\ f.attempt = e.attempt
    BY <1>1, <1>3 DEF ExecMove
  <2>2. e.job \in Job
    BY DEF TypeOK, Exec
  <2>3. loop[w].pc = "acquiring" => ~Due(jobs[e.job], loop[w].now)
    BY <2>1 DEF NotReoffered
  <2>4. /\ jobs[e.job].status = "processing"
        /\ jobs[e.job].leaseOwner = w
        /\ jobs'[e.job].attemptCount = jobs[e.job].attemptCount
    <3>1. jobs'[e.job].status = "processing" /\ jobs'[e.job].leaseOwner = w
      BY <1>1, <2>1
    <3> HIDE DEF e
    <3>2. \/ \E v \in Worker : /\ loop[v].pc = "acquiring"
                             /\ Due(jobs[e.job], loop[v].now)
                             /\ jobs'[e.job].leaseOwner = v
          \/ /\ jobs[e.job].status = "processing"
             /\ jobs'[e.job].leaseOwner = jobs[e.job].leaseOwner
             /\ jobs'[e.job].attemptCount = jobs[e.job].attemptCount
      BY <2>2, <3>1, StillProcessing, Zenon
    <3> QED BY <2>3, <3>1, <3>2, Zenon
  <2> QED BY <2>1, <2>4 DEF Fenced
<1> QED BY <1>2, <1>3, ExecSteps

\* A stored result belongs to the current attempt after every step.
LEMMA ResultStep ==
    ASSUME TypeOK, CancelSeen, Fenced, ResultOfLastAttempt, [Next]_vars
    PROVE  ResultOfLastAttempt'
<1>1. SUFFICES ASSUME NEW j \in Job
               PROVE  /\ jobs'[j].status = "completed"
                             => jobs'[j].result = jobs'[j].attemptCount
                      /\ jobs'[j].status # "completed" => jobs'[j].result = 0
  BY DEF ResultOfLastAttempt
<1> DEFINE r == jobs[j]
           n == jobs'[j]
           Right(row) == /\ row.status = "completed" => row.result = row.attemptCount
                         /\ row.status # "completed" => row.result = 0
<1>2. r \in Row /\ RowStep(j) /\ Right(r)
  BY RowSteps DEF TypeOK, ResultOfLastAttempt
<1>3. ASSUME n = r PROVE Right(n)
  BY <1>2, <1>3
<1>4. ASSUME n = Inserted \/ n = Cancelled(r) PROVE Right(n)
  BY <1>2, <1>4, NewStatus, NewColumns
<1>5. ASSUME r.status \in {"queued", "retrying"}, NEW w, NEW now,
             n = Acquired(r, w, now)
      PROVE  Right(n)
  BY <1>2, <1>5, NewStatus, NewColumns
<1>6. ASSUME NEW w \in Worker, Stale(r, loop[w].now), NEW next,
             n = Recovered(r, loop[w].exhausted, next)
      PROVE  Right(n)
  <2>1. loop[w].exhausted \in BOOLEAN
    BY DEF TypeOK, Loop
  <2>2. n.status \in {"failed", "retrying"}
    BY <1>2, <1>6, <2>1, NewStatus
  <2>3. n.result = r.result /\ r.status = "processing"
    BY <1>2, <1>6, NewColumns DEF Stale
  <2> QED BY <1>2, <2>2, <2>3
<1>7. ASSUME NEW w \in Worker, NEW s \in Slot, exec[w][s].job = j,
             r.status = "processing", r.leaseOwner = w,
             ExecChange(w, exec[w][s], r, n)
      PROVE  Right(n)
  <2>1. CASE \E stage \in ContentJobStage : n = Staged(r, stage)
    BY <1>2, <1>7, <2>1, NewStatus, NewColumns
  <2>2. CASE n = Renewed(r, exec[w][s].beatNow)
    BY <1>2, <1>7, <2>2, NewStatus, NewColumns
  <2>3. CASE exec[w][s].pc = "completing" /\ n = Completed(r, exec[w][s].attempt)
    <3>1. r.attemptCount = exec[w][s].attempt
      BY <1>7, <2>3 DEF Fenced
    <3> QED BY <1>2, <2>3, <3>1, NewStatus, NewColumns
  <2>4. CASE \/ \E next : n = RetryScheduled(r, next)
             \/ \E code : n = Failed(r, code)
    BY <1>2, <2>4, NewStatus, NewColumns
  <2> QED BY <1>7, <2>1, <2>2, <2>3, <2>4 DEF ExecChange
<1> HIDE DEF Right
<1>8. Right(n)
  BY <1>2, <1>3, <1>4, <1>5, <1>6, <1>7 DEF RowStep
<1> QED BY <1>8 DEF Right

\* A completed job shows the result of its last attempt, however late the
\* statements of earlier attempts take effect, as long as no worker is offered
\* a job it is still executing: no bound on the time they are under way is
\* needed.
THEOREM LastAttemptWinsUnlessReoffered ==
    Spec /\ []NotReoffered => []ResultOfLastAttempt
<1>1. Init => CancelSeen /\ Fenced /\ ResultOfLastAttempt
  <2>1. ASSUME Init
        PROVE  /\ \A j \in Job : jobs[j] = NoRow /\ cancels[j] = "none"
               /\ \A w \in Worker, s \in Slot : exec[w][s] = FreeSlot
    BY <2>1 DEF Init
  <2>2. /\ NoRow.status = Absent /\ NoRow.result = 0
        /\ FreeSlot.pc = "free"
    BY DEF NoRow, FreeSlot
  <2> QED BY <2>1, <2>2 DEF CancelSeen, Fenced, ResultOfLastAttempt, Absent
<1>2. TypeOK /\ CancelSeen /\ NotReoffered /\ Fenced /\ ResultOfLastAttempt
        /\ [Next]_vars
      => CancelSeen' /\ Fenced' /\ ResultOfLastAttempt'
  BY CancelSeenStep, FencedStep, ResultStep
<1> QED BY <1>1, <1>2, TypeCorrect, PTL DEF Spec

\* With one execution per worker process, a completed job shows the result of
\* its last attempt.
THEOREM LastAttemptWins ==
    ASSUME Concurrency = 1
    PROVE  Spec => []ResultOfLastAttempt
BY OneSlotNotReoffered, LastAttemptWinsUnlessReoffered, PTL

-----------------------------------------------------------------------------
(* The attempt budget *)

\* The decision to retry or to give up stays right while its statement is under way.
LEMMA EndingDecisionStep ==
    ASSUME TypeOK, EndingDecision, [Next]_vars
    PROVE  EndingDecision'
<1>1. SUFFICES ASSUME NEW w \in Worker, NEW s \in Slot
               PROVE  /\ exec'[w][s].pc = "scheduling"
                             => exec'[w][s].attempt < MaxAttempts
                      /\ exec'[w][s].pc = "exhausting"
                             => exec'[w][s].attempt >= MaxAttempts
  BY DEF EndingDecision
<1>2. CASE ExecMove(exec[w][s], exec'[w][s])
  BY <1>2 DEF ExecMove, EndingDecision
<1>3. ASSUME NEW j \in Job, AcquireNext(w, s, j)
      PROVE  exec'[w][s].pc = "processing"
  <2>1. exec'[w][s] = Started(j, jobs[j].attemptCount + 1)
    BY <1>3 DEF AcquireNext, TypeOK
  <2> QED BY <2>1, Zenon DEF Started, FreeSlot
<1> QED BY <1>2, <1>3, ExecSteps

\* The heart of the argument: a lease written after the sweep's SELECT ends
\* after the sweep's sample of the clock, so the UPDATE's guard lets through
\* only the attempt that the SELECT saw.
LEMMA SweepDecisionStep ==
    ASSUME TypeOK, CancelSeen, Sampled, SweepDecision, [Next]_vars,
           MaxLag < LeaseDuration
    PROVE  SweepDecision'
<1>1. SUFFICES ASSUME NEW w \in Worker, loop'[w].pc = "updating",
                      Stale(jobs'[loop'[w].current.job], loop'[w].now)
               PROVE  loop'[w].exhausted
                         <=> jobs'[loop'[w].current.job].attemptCount >= MaxAttempts
  BY DEF SweepDecision
<1>2. CASE loop'[w] = loop[w]
  <2> DEFINE l == loop[w]
             j == l.current.job
             r == jobs[j]
             n == jobs'[j]
  <2>1. j \in Job /\ l.now \in Nat /\ l.now <= clock /\ clock \in Nat
    <3>1. l \in Loop
      BY DEF TypeOK
    <3>2. l.current \in StaleEntry /\ l.now \in Nat
      BY <3>1 DEF Loop
    <3> QED BY <3>2 DEF StaleEntry, Sampled, TypeOK
  <2>2. n.status = "processing" /\ n.leaseExpiresAt <= l.now
    BY <1>1, <1>2 DEF Stale
  <2>3. ASSUME NEW v \in Worker, loop[v].pc = "acquiring",
               n.leaseExpiresAt = loop[v].now + LeaseDuration
        PROVE  FALSE
    <3>1. loop[v].now \in Nat /\ clock - loop[v].now <= MaxLag
      BY <2>3 DEF Sampled, TypeOK, Loop
    <3> QED BY <2>1, <2>2, <2>3, <3>1
  <2>4. ASSUME NEW v \in Worker, NEW s \in Slot, exec[v][s].beating,
               n.leaseExpiresAt = exec[v][s].beatNow + LeaseDuration
        PROVE  FALSE
    <3>1. exec[v][s].beatNow \in Nat /\ clock - exec[v][s].beatNow <= MaxLag
      BY <2>4 DEF Sampled, TypeOK, Exec
    <3> QED BY <2>1, <2>2, <2>4, <3>1
  <2>5. /\ r.status = "processing"
        /\ n.attemptCount = r.attemptCount
        /\ n.leaseExpiresAt = r.leaseExpiresAt
    <3> HIDE DEF j, l
    <3> QED BY <2>1, <2>2, <2>3, <2>4, StillProcessing, Zenon
  <2>6. Stale(r, l.now)
    BY <1>1, <1>2, <2>5 DEF Stale
  <2>7. l.exhausted <=> r.attemptCount >= MaxAttempts
    BY <1>1, <1>2, <2>6 DEF SweepDecision
  <2> QED BY <1>2, <2>5, <2>7
<1>3. CASE /\ UNCHANGED jobs
           /\ loop'[w].exhausted
                 <=> jobs[loop'[w].current.job].attemptCount >= MaxAttempts
  BY <1>3
<1>4. ~Poll(w)
  <2>1. ASSUME Poll(w) PROVE loop'[w].pc = "acquiring"
    <3>1. loop'[w] = [loop[w] EXCEPT !.pc = "acquiring", !.now = clock]
      BY <2>1 DEF Poll, TypeOK
    <3>2. loop[w] \in Loop
      BY DEF TypeOK
    <3> QED BY <3>1, <3>2, Zenon DEF Loop
  <2> QED BY <1>1, <2>1
<1> QED BY <1>1, <1>2, <1>3, <1>4, LoopSteps

\* What RowBudget says of one row.
WithinBudget(row) ==
    /\ row.attemptCount <= MaxAttempts
    /\ row.status \in {Absent, "queued", "retrying"}
           => row.attemptCount < MaxAttempts
    /\ row.errorCode = "WORKER_MAX_ATTEMPTS_EXCEEDED"
           => row.status = "failed" /\ row.attemptCount = MaxAttempts

\* A row that waits for an attempt has attempts left after every step.
LEMMA RowBudgetStep ==
    ASSUME TypeOK, CancelSeen, Fenced, EndingDecision, SweepDecision, RowBudget,
           [Next]_vars
    PROVE  RowBudget'
<1>1. SUFFICES ASSUME NEW j \in Job PROVE WithinBudget(jobs'[j])
  BY DEF RowBudget, WithinBudget
<1> DEFINE r == jobs[j]
           n == jobs'[j]
<1>2. r \in Row /\ r.attemptCount \in Nat /\ RowStep(j) /\ WithinBudget(r)
  BY RowSteps DEF TypeOK, Row, RowBudget, WithinBudget
<1>3. CASE n = r
  BY <1>2, <1>3
<1>4. CASE n = Inserted
  BY <1>2, <1>4, NewStatus, NewColumns DEF WithinBudget
<1>5. CASE r.status \in {"queued", "retrying"} /\ n = Cancelled(r)
  BY <1>2, <1>5, NewStatus, NewColumns DEF WithinBudget, Absent
<1>6. ASSUME r.status \in {"queued", "retrying"}, NEW w, NEW now,
             n = Acquired(r, w, now)
      PROVE  WithinBudget(n)
  <2>1. /\ n.status = "processing" /\ n.attemptCount = r.attemptCount + 1
        /\ n.errorCode = r.errorCode
    BY <1>2, <1>6, NewStatus, NewColumns
  <2> QED BY <1>2, <1>6, <2>1 DEF WithinBudget, Absent
<1>7. ASSUME NEW w \in Worker, loop[w].pc = "updating", loop[w].current.job = j,
             Stale(r, loop[w].now), NEW next,
             n = Recovered(r, loop[w].exhausted, next)
      PROVE  WithinBudget(n)
  <2>1. loop[w].exhausted \in BOOLEAN
    BY DEF TypeOK, Loop
  <2>2. loop[w].exhausted <=> r.attemptCount >= MaxAttempts
    BY <1>7 DEF SweepDecision
  <2>3. /\ n.status = IF loop[w].exhausted THEN "failed" ELSE "retrying"
        /\ n.attemptCount = r.attemptCount
        /\ n.errorCode = IF loop[w].exhausted THEN "WORKER_MAX_ATTEMPTS_EXCEEDED"
                                             ELSE "WORKER_LEASE_EXPIRED"
    BY <1>2, <1>7, <2>1, NewStatus, NewColumns
  <2> QED BY <1>2, <2>1, <2>2, <2>3 DEF WithinBudget, Absent
<1>8. ASSUME NEW w \in Worker, NEW s \in Slot, exec[w][s].job = j,
             r.status = "processing", r.leaseOwner = w,
             ExecChange(w, exec[w][s], r, n)
      PROVE  WithinBudget(n)
  <2> DEFINE e == exec[w][s]
  <2>1. e.pc # "free" => r.attemptCount = e.attempt
    BY <1>8 DEF Fenced
  <2>2. CASE \E stage \in ContentJobStage : n = Staged(r, stage)
    BY <1>2, <2>2, NewStatus, NewColumns DEF WithinBudget
  <2>3. CASE n = Renewed(r, e.beatNow)
    BY <1>2, <2>3, NewStatus, NewColumns DEF WithinBudget
  <2>4. CASE n = Completed(r, e.attempt)
    BY <1>2, <2>4, NewStatus, NewColumns DEF WithinBudget, Absent
  <2>5. CASE e.pc = "scheduling" /\ \E next \in Nat : n = RetryScheduled(r, next)
    <3>1. r.attemptCount < MaxAttempts
      BY <2>1, <2>5 DEF EndingDecision
    <3>2. n.attemptCount = r.attemptCount /\ n.errorCode = "processor-error"
      BY <1>2, <2>5, NewColumns
    <3> QED BY <1>2, <3>1, <3>2 DEF WithinBudget
  <2>6. CASE e.pc \in {"failing", "exhausting"} /\ n = Failed(r, FailureCode(e))
    <3>1. e.pc = "exhausting" => r.attemptCount >= MaxAttempts
      BY <2>1, <2>6 DEF EndingDecision
    <3>2. /\ n.status = "failed" /\ n.attemptCount = r.attemptCount
          /\ n.errorCode = FailureCode(e)
      BY <1>2, <2>6, NewStatus, NewColumns
    <3> QED BY <1>2, <3>1, <3>2 DEF WithinBudget, FailureCode, Absent
  <2> QED BY <1>8, <2>2, <2>3, <2>4, <2>5, <2>6 DEF ExecChange
<1> QED BY <1>2, <1>3, <1>4, <1>5, <1>6, <1>7, <1>8 DEF RowStep

\* The inductive invariant of the attempts.
AttemptsInv == CancelSeen /\ Fenced /\ BudgetInv

\* The conjunction is inductive.
LEMMA AttemptsInvInductive ==
    ASSUME MaxLag < LeaseDuration
    PROVE  Spec /\ []NotReoffered => [](TypeOK /\ AttemptsInv)
<1>1. Init => AttemptsInv
  <2>1. ASSUME Init
        PROVE  /\ \A j \in Job : jobs[j] = NoRow /\ cancels[j] = "none"
               /\ \A w \in Worker : loop[w] = IdleLoop
               /\ \A w \in Worker, s \in Slot : exec[w][s] = FreeSlot
               /\ clock = 0
    BY <2>1 DEF Init
  <2>2. /\ NoRow.status = Absent /\ NoRow.attemptCount = 0
        /\ NoRow.errorCode = "none"
        /\ IdleLoop.pc = "idle" /\ IdleLoop.now = 0
        /\ FreeSlot.pc = "free" /\ ~FreeSlot.beating
    BY DEF NoRow, IdleLoop, FreeSlot
  <2>3. ASSUME Init
        PROVE  /\ \A j \in Job : jobs[j].status = Absent /\ jobs[j].attemptCount = 0
                                /\ jobs[j].errorCode = "none"
               /\ \A w \in Worker : loop[w].pc = "idle" /\ loop[w].now <= clock
               /\ \A w \in Worker, s \in Slot :
                     exec[w][s].pc = "free" /\ ~exec[w][s].beating
    BY <2>1, <2>2, <2>3
  <2>4. Init => CancelSeen /\ RowBudget
    BY <2>1, <2>3 DEF CancelSeen, RowBudget
  <2>5. Init => Fenced /\ EndingDecision /\ SweepDecision /\ Sampled
    BY <2>3, Zenon DEF Fenced, EndingDecision, SweepDecision, Sampled
  <2> QED BY <2>4, <2>5 DEF AttemptsInv, BudgetInv
<1>2. TypeOK /\ AttemptsInv /\ NotReoffered /\ [Next]_vars => AttemptsInv'
  BY CancelSeenStep, FencedStep, SampledStep, EndingDecisionStep,
     SweepDecisionStep, RowBudgetStep DEF AttemptsInv, BudgetInv
<1> QED BY <1>1, <1>2, TypeCorrect, PTL DEF Spec

\* No job gets more attempts than WORKER_MAX_ATTEMPTS, and none is given up as
\* exhausted before its last, although the executor and the sweep decide on
\* their own, from what they have read before: unless a worker is offered a
\* job that it is still executing, or a statement is under way for as long as
\* a lease lasts.
THEOREM BudgetKeptUnlessReoffered ==
    ASSUME MaxLag < LeaseDuration
    PROVE  Spec /\ []NotReoffered => []AttemptBudget
<1>1. TypeOK /\ AttemptsInv => AttemptBudget
  BY DEF AttemptsInv, BudgetInv, RowBudget, AttemptBudget
<1> QED BY <1>1, AttemptsInvInductive, PTL

\* With one execution per worker process the attempts stay within
\* WORKER_MAX_ATTEMPTS.
THEOREM BudgetKept ==
    ASSUME Concurrency = 1, MaxLag < LeaseDuration
    PROVE  Spec => []AttemptBudget
BY OneSlotNotReoffered, BudgetKeptUnlessReoffered, PTL

-----------------------------------------------------------------------------
(* The implementation of JobLifecycle *)

\* The abstract steps, on the view v of a row and the view u of what it becomes.
ViewStep(v, u) ==
    \/ v.status = "absent" /\ u = [v EXCEPT !.status = "queued"]
    \/ /\ v.status \in {"queued", "retrying"}
       /\ v.attempts < MaxAttempts
       /\ u = [v EXCEPT !.status = "processing", !.attempts = v.attempts + 1]
    \/ /\ v.status = "processing"
       /\ u = [v EXCEPT !.status = "completed", !.result = v.attempts]
    \/ /\ v.status = "processing"
       /\ v.attempts < MaxAttempts
       /\ u = [v EXCEPT !.status = "retrying"]
    \/ /\ v.status = "processing"
       /\ \E failure \in {"error", "exhausted"} :
             /\ failure = "exhausted" => v.attempts = MaxAttempts
             /\ u = [v EXCEPT !.status = "failed", !.failure = failure]
    \/ /\ v.status \in {"queued", "retrying"}
       /\ u = [v EXCEPT !.status = "cancelled"]

\* A view written out.
V(s, a, r, f) == [status |-> s, attempts |-> a, result |-> r, failure |-> f]

\* A row that has not been inserted is blank.
Blank == \A j \in Job : jobs[j].status = Absent => jobs[j] = NoRow

\* A step leaves such a row blank, or inserts it.
LEMMA BlankStep ==
    ASSUME TypeOK, CancelSeen, Blank, [Next]_vars
    PROVE  Blank'
<1>1. SUFFICES ASSUME NEW j \in Job, jobs'[j].status = Absent
               PROVE  jobs'[j] = NoRow
  BY DEF Blank
<1> DEFINE r == jobs[j]
           n == jobs'[j]
<1>2. r \in Row /\ RowStep(j)
  BY RowSteps DEF TypeOK
<1>3. CASE n = r
  BY <1>1, <1>3 DEF Blank
<1>4. ASSUME \/ n = Inserted \/ n = Cancelled(r)
             \/ \E w, now : n = Acquired(r, w, now)
             \/ \E x \in BOOLEAN : \E next : n = Recovered(r, x, next)
             \/ r.status = "processing" /\ \E stage : n = Staged(r, stage)
             \/ r.status = "processing" /\ \E now : n = Renewed(r, now)
             \/ \E attempt : n = Completed(r, attempt)
             \/ \E next : n = RetryScheduled(r, next)
             \/ \E code : n = Failed(r, code)
      PROVE  FALSE
  BY <1>1, <1>2, <1>4, NewStatus DEF Absent
<1>5. \A w \in Worker : loop[w].exhausted \in BOOLEAN
  BY DEF TypeOK, Loop
<1> QED BY <1>2, <1>3, <1>4, <1>5, Zenon DEF RowStep, ExecChange

\* Every change of a row is a step of its view, or none.
LEMMA RowRefines ==
    ASSUME TypeOK, AttemptsInv, ResultOfLastAttempt, Blank, [Next]_vars,
           NEW j \in Job
    PROVE  View(jobs'[j]) = View(jobs[j]) \/ ViewStep(View(jobs[j]), View(jobs'[j]))
<1> DEFINE r == jobs[j]
           n == jobs'[j]
           v == View(r)
           u == View(n)
           over == "WORKER_MAX_ATTEMPTS_EXCEEDED"
           Ongoing == r.status \notin {"completed", "failed"}
<1>0. \A row : View(row) =
         V(row.status, row.attemptCount, row.result, Failure(row))
  BY DEF View, V
<1>1. /\ r \in Row /\ r.attemptCount \in Nat
      /\ Ongoing => r.result = 0
      /\ r.status = Absent => r = NoRow
      /\ r.status \in {"queued", "retrying"} => r.attemptCount < MaxAttempts
      /\ r.attemptCount <= MaxAttempts
      /\ RowStep(j)
  BY RowSteps DEF AttemptsInv, BudgetInv, RowBudget, ResultOfLastAttempt, TypeOK,
                  Row, Blank
<1>2. v.status = r.status /\ v.attempts = r.attemptCount
  BY DEF View
<1>3. Ongoing => v = V(r.status, r.attemptCount, 0, "none")
  BY <1>0, <1>1 DEF Failure
<1> HIDE DEF v, u
<1>4. CASE r.status = Absent /\ n = Inserted
  <2>1. u = V("queued", 0, 0, "none")
    BY <1>0, <1>1, <1>4, NewStatus, NewColumns DEF u, Failure
  <2>2. v = V(Absent, 0, 0, "none")
    BY <1>1, <1>3, <1>4 DEF NoRow, Absent
  <2>3. u = [v EXCEPT !.status = "queued"]
    BY <2>1, <2>2 DEF V
  <2>4. ViewStep(v, u)
    BY <1>2, <1>4, <2>3 DEF ViewStep, Absent
  <2> QED BY <2>4 DEF v, u
<1>5. CASE r.status \in {"queued", "retrying"} /\ n = Cancelled(r)
  <2>1. u = V("cancelled", r.attemptCount, 0, "none")
    BY <1>0, <1>1, <1>5, NewStatus, NewColumns DEF u, Failure
  <2>2. u = [v EXCEPT !.status = "cancelled"]
    <3>1. v = V(r.status, r.attemptCount, 0, "none")
      BY <1>3, <1>5
    <3> QED BY <2>1, <3>1 DEF V
  <2>3. ViewStep(v, u)
    BY <1>2, <1>5, <2>2 DEF ViewStep
  <2> QED BY <2>3 DEF v, u
<1>6. ASSUME r.status \in {"queued", "retrying"}, NEW w, NEW now,
             n = Acquired(r, w, now)
      PROVE  ViewStep(v, u)
  <2>1. u = V("processing", r.attemptCount + 1, 0, "none")
    BY <1>0, <1>1, <1>6, NewStatus, NewColumns DEF u, Failure
  <2>2. u = [v EXCEPT !.status = "processing", !.attempts = r.attemptCount + 1]
    <3>1. v = V(r.status, r.attemptCount, 0, "none")
      BY <1>3, <1>6
    <3>2. [v EXCEPT !.status = "processing"] = V("processing", r.attemptCount, 0, "none")
      BY <3>1 DEF V
    <3>3. [V("processing", r.attemptCount, 0, "none") EXCEPT !.attempts = r.attemptCount + 1] = u
      BY <2>1 DEF V
    <3> QED BY <3>2, <3>3
  <2>3. u = [v EXCEPT !.status = "processing", !.attempts = v.attempts + 1]
    BY <1>2, <2>2
  <2> QED BY <1>1, <1>2, <1>6, <2>3 DEF ViewStep
<1>7. ASSUME r.status = "processing", r.attemptCount < MaxAttempts,
             n.status = "retrying", n.attemptCount = r.attemptCount, n.result = 0
      PROVE  ViewStep(v, u)
  <2>1. u = V("retrying", r.attemptCount, 0, "none")
    BY <1>0, <1>7 DEF u, Failure
  <2>2. u = [v EXCEPT !.status = "retrying"]
    <3>1. v = V(r.status, r.attemptCount, 0, "none")
      BY <1>3, <1>7
    <3> QED BY <2>1, <3>1 DEF V
  <2> QED BY <1>2, <1>7, <2>2 DEF ViewStep
<1>8. ASSUME r.status = "processing", n.status = "failed", n.result = 0,
             n.attemptCount = r.attemptCount,
             n.errorCode = over => r.attemptCount = MaxAttempts
      PROVE  ViewStep(v, u)
  <2>1. u = V("failed", r.attemptCount, 0, Failure(n))
    BY <1>0, <1>8 DEF u
  <2>2. u = [v EXCEPT !.status = "failed", !.failure = Failure(n)]
    <3>1. v = V(r.status, r.attemptCount, 0, "none")
      BY <1>3, <1>8
    <3>2. [v EXCEPT !.status = "failed"] = V("failed", r.attemptCount, 0, "none")
      BY <3>1 DEF V
    <3>3. [V("failed", r.attemptCount, 0, "none") EXCEPT !.failure = Failure(n)] = u
      BY <2>1 DEF V
    <3> QED BY <3>2, <3>3
  <2>3. /\ Failure(n) \in {"error", "exhausted"}
        /\ Failure(n) = "exhausted" => r.attemptCount = MaxAttempts
    BY <1>8 DEF Failure
  <2> QED BY <1>2, <1>8, <2>2, <2>3 DEF ViewStep
<1>9. ASSUME NEW w \in Worker, loop[w].pc = "updating", loop[w].current.job = j,
             Stale(r, loop[w].now), NEW next,
             n = Recovered(r, loop[w].exhausted, next)
      PROVE  ViewStep(v, u)
  <2>1. /\ loop[w].exhausted \in BOOLEAN /\ r.status = "processing"
        /\ loop[w].exhausted <=> r.attemptCount >= MaxAttempts
    BY <1>9 DEF TypeOK, Loop, Stale, AttemptsInv, BudgetInv, SweepDecision
  <2>2. /\ n.status = IF loop[w].exhausted THEN "failed" ELSE "retrying"
        /\ n.attemptCount = r.attemptCount /\ n.result = r.result
    BY <1>1, <1>9, <2>1, NewStatus, NewColumns
  <2>3. n.errorCode = over => loop[w].exhausted
    BY <1>1, <1>9, <2>1, NewColumns
  <2>4. CASE loop[w].exhausted
    BY <1>1, <1>8, <2>1, <2>2, <2>4
  <2>5. CASE ~loop[w].exhausted
    BY <1>1, <1>7, <2>1, <2>2, <2>5
  <2> QED BY <2>4, <2>5
<1>10. ASSUME NEW w \in Worker, NEW s \in Slot, exec[w][s].job = j,
              r.status = "processing", r.leaseOwner = w,
              ExecChange(w, exec[w][s], r, n)
       PROVE  u = v \/ ViewStep(v, u)
  <2> DEFINE e == exec[w][s]
  <2>1. e.pc # "free" => r.attemptCount = e.attempt
    BY <1>10 DEF AttemptsInv, Fenced
  <2>2. CASE \/ \E stage \in ContentJobStage : n = Staged(r, stage)
             \/ n = Renewed(r, e.beatNow)
    <3>1. /\ n.status = r.status /\ n.attemptCount = r.attemptCount
          /\ n.result = r.result /\ n.errorCode = r.errorCode
      BY <1>1, <2>2, NewStatus, NewColumns
    <3> QED BY <1>0, <3>1 DEF u, v, Failure
  <2>3. CASE e.pc = "completing" /\ n = Completed(r, e.attempt)
    <3>1. u = V("completed", r.attemptCount, r.attemptCount, "none")
      BY <1>0, <1>1, <2>1, <2>3, NewStatus, NewColumns DEF u, Failure
    <3>2. u = [v EXCEPT !.status = "completed", !.result = r.attemptCount]
      <4>1. v = V(r.status, r.attemptCount, 0, "none")
        BY <1>3, <1>10
      <4>2. [v EXCEPT !.status = "completed"] = V("completed", r.attemptCount, 0, "none")
        BY <4>1 DEF V
      <4>3. [V("completed", r.attemptCount, 0, "none") EXCEPT !.result = r.attemptCount] = u
        BY <3>1 DEF V
      <4> QED BY <4>2, <4>3
    <3> QED BY <1>2, <1>10, <3>2 DEF ViewStep
  <2>4. CASE e.pc = "scheduling" /\ \E next \in Nat : n = RetryScheduled(r, next)
    <3>1. r.attemptCount < MaxAttempts
      BY <2>1, <2>4 DEF AttemptsInv, BudgetInv, EndingDecision
    <3>2. /\ n.status = "retrying" /\ n.attemptCount = r.attemptCount
          /\ n.result = 0
      BY <1>1, <2>4, NewStatus, NewColumns
    <3> QED BY <1>7, <1>10, <3>1, <3>2
  <2>5. CASE e.pc \in {"failing", "exhausting"} /\ n = Failed(r, FailureCode(e))
    <3>1. e.pc = "exhausting" => r.attemptCount = MaxAttempts
      BY <1>1, <2>1, <2>5 DEF AttemptsInv, BudgetInv, EndingDecision
    <3>2. /\ n.status = "failed" /\ n.attemptCount = r.attemptCount
          /\ n.result = 0 /\ n.errorCode = FailureCode(e)
      BY <1>1, <2>5, NewStatus, NewColumns
    <3>3. n.errorCode = over => r.attemptCount = MaxAttempts
      BY <3>1, <3>2 DEF FailureCode
    <3> QED BY <1>8, <1>10, <3>2, <3>3
  <2> QED BY <1>10, <2>2, <2>3, <2>4, <2>5 DEF ExecChange
<1>11. CASE n = r
  BY <1>11
<1>12. u = v \/ ViewStep(v, u)
  <2>1. ASSUME n = r PROVE u = v
    BY <2>1 DEF u, v
  <2> QED BY <1>1, <1>4, <1>5, <1>6, <1>9, <1>10, <2>1 DEF RowStep, u, v
<1> QED BY <1>12 DEF u, v

\* The variable of JobLifecycle.
Views == [j \in Job |-> View(jobs[j])]

\* A step changes one row at most.
LEMMA OneRow ==
    ASSUME TypeOK, [Next]_vars
    PROVE  \/ UNCHANGED jobs
           \/ \E j \in Job : \E n : jobs' = [jobs EXCEPT ![j] = n]
<1>1. Writes
  BY StepWrites
<1>2. \A w \in Worker, s \in Slot : exec[w][s].job \in Job
  BY DEF TypeOK, Exec
<1> DEFINE OneChange == \E j \in Job : \E n : jobs' = [jobs EXCEPT ![j] = n]
<1>3. ASSUME NEW j \in Job, ApiWrite(j) PROVE OneChange
  BY <1>3, Zenon DEF ApiWrite, Written, Commit
<1>4. ASSUME NEW w \in Worker, NEW j \in Job, LoopWrite(w, j) PROVE OneChange
  BY <1>4, Zenon DEF LoopWrite, Written, Commit
<1>5. ASSUME NEW w \in Worker, NEW s \in Slot, NEW now \in Nat,
             ExecWrite(w, exec[w][s], now)
      PROVE  OneChange
  BY <1>2, <1>5, Zenon DEF ExecWrite, Written, Commit, Update
<1> QED BY <1>1, <1>3, <1>4, <1>5 DEF Writes, NoWrite

\* Every step of the workers is a step of JobLifecycle or leaves its view unchanged.
LEMMA StepRefines ==
    ASSUME TypeOK, AttemptsInv, ResultOfLastAttempt, Blank, [Next]_vars
    PROVE  Lifecycle!Next \/ Views' = Views
<1>1. CASE UNCHANGED jobs
  BY <1>1 DEF Views
<1>2. ASSUME NEW j \in Job, NEW n, jobs' = [jobs EXCEPT ![j] = n]
      PROVE  Lifecycle!Next \/ Views' = Views
  <2> DEFINE v == View(jobs[j])
             u == View(jobs'[j])
  <2>1. Views' = [Views EXCEPT ![j] = u] /\ Views[j] = v
    <3>1. \A i \in Job : i # j => jobs'[i] = jobs[i]
      BY <1>2 DEF TypeOK
    <3> HIDE DEF View
    <3> QED BY <3>1 DEF Views
  <2>2. CASE u = v
    BY <2>1, <2>2 DEF Views
  <2>3. ASSUME ViewStep(v, u) PROVE Lifecycle!Next
    <3> HIDE DEF v, u
    <3>1. \/ Lifecycle!Submit(j) \/ Lifecycle!Attempt(j) \/ Lifecycle!Complete(j)
          \/ Lifecycle!Retry(j) \/ Lifecycle!Fail(j) \/ Lifecycle!Cancel(j)
      <4>1. Lifecycle!Waiting = {"queued", "retrying"}
        BY DEF Lifecycle!Waiting
      <4>2. ASSUME v.status = "absent", u = [v EXCEPT !.status = "queued"]
            PROVE  Lifecycle!Submit(j)
        BY <2>1, <4>2, Zenon DEF Lifecycle!Submit, Views
      <4>3. ASSUME v.status \in {"queued", "retrying"}, v.attempts < MaxAttempts,
                   u = [v EXCEPT !.status = "processing",
                                 !.attempts = v.attempts + 1]
            PROVE  Lifecycle!Attempt(j)
        BY <2>1, <4>1, <4>3, Zenon DEF Lifecycle!Attempt, Views
      <4>4. ASSUME v.status = "processing",
                   u = [v EXCEPT !.status = "completed", !.result = v.attempts]
            PROVE  Lifecycle!Complete(j)
        BY <2>1, <4>4, Zenon DEF Lifecycle!Complete, Views
      <4>5. ASSUME v.status = "processing", v.attempts < MaxAttempts,
                   u = [v EXCEPT !.status = "retrying"]
            PROVE  Lifecycle!Retry(j)
        BY <2>1, <4>5, Zenon DEF Lifecycle!Retry, Views
      <4>6. ASSUME v.status = "processing", NEW f \in {"error", "exhausted"},
                   f = "exhausted" => v.attempts = MaxAttempts,
                   u = [v EXCEPT !.status = "failed", !.failure = f]
            PROVE  Lifecycle!Fail(j)
        BY <2>1, <4>6, Zenon DEF Lifecycle!Fail, Views
      <4>7. ASSUME v.status \in {"queued", "retrying"},
                   u = [v EXCEPT !.status = "cancelled"]
            PROVE  Lifecycle!Cancel(j)
        BY <2>1, <4>1, <4>7, Zenon DEF Lifecycle!Cancel, Views
      <4> QED BY <2>3, <4>2, <4>3, <4>4, <4>5, <4>6, <4>7, Zenon DEF ViewStep
    <3> QED BY <3>1 DEF Lifecycle!Next
  <2> QED BY <2>2, <2>3, RowRefines
<1> QED BY <1>1, <1>2, OneRow

\* The queue keeps the promise of JobLifecycle, for every set of jobs and
\* workers and any number of executions per worker, as long as no worker is
\* offered a job it is still executing and statements are under way for less
\* than a lease.
THEOREM LifecycleImplementedUnlessReoffered ==
    ASSUME MaxLag < LeaseDuration
    PROVE  Spec /\ []NotReoffered => ImplementsLifecycle
<1>1. Init => Blank
  BY DEF Init, Blank
<1>2. TypeOK /\ AttemptsInv /\ Blank /\ [Next]_vars => Blank'
  BY BlankStep DEF AttemptsInv
<1>3. Init => Lifecycle!Init
  <2>1. View(NoRow) = Lifecycle!Unborn
    BY DEF View, Failure, NoRow, Lifecycle!Unborn, Absent
  <2> QED BY <2>1 DEF Init, Lifecycle!Init
<1>4. TypeOK /\ AttemptsInv /\ ResultOfLastAttempt /\ Blank /\ [Next]_vars
         => [Lifecycle!Next]_Views
  BY StepRefines
<1> QED BY <1>1, <1>2, <1>3, <1>4, AttemptsInvInductive,
           LastAttemptWinsUnlessReoffered, PTL
        DEF Spec, ImplementsLifecycle, Lifecycle!Spec, Views

\* With one execution per worker process the queue keeps the promise of
\* JobLifecycle.
THEOREM LifecycleImplemented ==
    ASSUME Concurrency = 1, MaxLag < LeaseDuration
    PROVE  Spec => ImplementsLifecycle
BY OneSlotNotReoffered, LifecycleImplementedUnlessReoffered, PTL

=============================================================================
