--------------------------- MODULE ContentJobStore ---------------------------
(***************************************************************************)
(* The content_jobs table as the worker side (DatabaseJobSource) and the   *)
(* API side (DrizzleContentJobRepository) read and write it: the row, the  *)
(* WHERE clauses as predicates on a row, and the SET clauses as functions  *)
(* from a row to its new value.  There are no variables here; which        *)
(* process runs which statement, and when, is in ContentWorkers.           *)
(*                                                                         *)
(* Columns that no guard reads are left out: heartbeat_at is always        *)
(* lease_expires_at minus the lease duration, started_at, completed_at and *)
(* updated_at are only shown.  Times are ticks of an integer clock.        *)
(***************************************************************************)
EXTENDS RetryPolicy

CONSTANTS
    Worker,          \* worker process incarnations; an id is never reused
    NoWorker,        \* lease_owner is null
    LeaseDuration    \* WORKER_LEASE_DURATION_MS

ASSUME NoWorkerAssumption == NoWorker \notin Worker
ASSUME LeaseDurationAssumption == LeaseDuration \in Nat \ {0}

NoTime == -1      \* a timestamp column that is null
Time == Nat \union {NoTime}

-----------------------------------------------------------------------------
(* Statuses, stages and the transition policy of the domain. *)

Absent == "absent"      \* the row has not been inserted yet
ContentJobStatus ==
    {"queued", "processing", "retrying", "completed", "failed", "cancelled"}
Terminal == {"completed", "failed", "cancelled"}

ContentJobStage ==
    {"queued", "normalizing-transcript", "calculating-statistics",
     "completed", "failed"}

allowedTransitions ==
    [queued     |-> {"processing", "cancelled"},
     processing |-> {"completed", "retrying", "failed"},
     retrying   |-> {"processing", "cancelled"},
     completed  |-> {},
     failed     |-> {},
     cancelled  |-> {}]

isTransitionAllowed(from, to) ==
    from \in ContentJobStatus /\ to \in allowedTransitions[from]

-----------------------------------------------------------------------------
(* The row.  result holds the number of the attempt whose processor        *)
(* produced the stored payload (0: null), errorCode what the last error    *)
(* was: a lease that ran out, exhausted attempts, or the processor's own.  *)

ErrorCodes == {"none", "processor-error", "WORKER_LEASE_EXPIRED",
               "WORKER_MAX_ATTEMPTS_EXCEEDED"}

Row == [status         : ContentJobStatus \union {Absent},
        currentStage   : ContentJobStage,
        attemptCount   : Nat,
        leaseOwner     : Worker \union {NoWorker},
        leaseExpiresAt : Time,
        nextAttemptAt  : Time,
        result         : Nat,
        errorCode      : ErrorCodes]

NoRow == [status |-> Absent, currentStage |-> "queued", attemptCount |-> 0,
          leaseOwner |-> NoWorker, leaseExpiresAt |-> NoTime,
          nextAttemptAt |-> NoTime, result |-> 0, errorCode |-> "none"]

-----------------------------------------------------------------------------
(* WHERE clauses.  A comparison with a null column selects nothing.        *)

LeaseFree(row, now) ==
    row.leaseExpiresAt = NoTime \/ row.leaseExpiresAt <= now

\* acquireNext's candidate: queued, or retrying and due, and not leased.
Due(row, now) ==
    /\ \/ row.status = "queued"
       \/ /\ row.status = "retrying"
          /\ row.nextAttemptAt # NoTime
          /\ row.nextAttemptAt <= now
    /\ LeaseFree(row, now)

\* VARIANT of Owned: the lease owner is not compared.
OwnedByAnyone(row, w, now) ==
    row.status = "processing" /\ row.leaseExpiresAt > now

\* The guard of renewLease, markStage, markCompleted, scheduleRetry and
\* markFailed: processing, leased to this worker, lease not expired at now.
Owned(row, w, now) ==
    /\ row.status = "processing"
    /\ row.leaseOwner = w
    /\ row.leaseExpiresAt > now

\* The guard of listStaleProcessingJobs and of both statements of
\* recoverStaleJob.
Stale(row, now) ==
    /\ row.status = "processing"
    /\ row.leaseExpiresAt # NoTime
    /\ row.leaseExpiresAt <= now

-----------------------------------------------------------------------------
(* SET clauses. *)

Inserted == [NoRow EXCEPT !.status = "queued"]

\* next_attempt_at and error_code of the previous attempt are left in place.
Acquired(row, w, now) ==
    [row EXCEPT !.status = "processing",
                !.currentStage = "normalizing-transcript",
                !.attemptCount = @ + 1,
                !.leaseOwner = w,
                !.leaseExpiresAt = now + LeaseDuration]

Renewed(row, now) == [row EXCEPT !.leaseExpiresAt = now + LeaseDuration]

Staged(row, stage) == [row EXCEPT !.currentStage = stage]

Completed(row, attempt) ==
    [row EXCEPT !.status = "completed",
                !.currentStage = "completed",
                !.result = attempt,
                !.errorCode = "none",
                !.leaseOwner = NoWorker,
                !.leaseExpiresAt = NoTime,
                !.nextAttemptAt = NoTime]

\* VARIANT of RetryScheduled: next_attempt_at is not set, as in the
\* repository's own scheduleRetry.
RetryWithoutDate(row, nextAttemptAt) ==
    [row EXCEPT !.status = "retrying", !.currentStage = "failed",
                !.errorCode = "processor-error", !.result = 0,
                !.leaseOwner = NoWorker, !.leaseExpiresAt = NoTime]

RetryScheduled(row, nextAttemptAt) ==
    [row EXCEPT !.status = "retrying",
                !.currentStage = "failed",
                !.errorCode = "processor-error",
                !.result = 0,
                !.leaseOwner = NoWorker,
                !.leaseExpiresAt = NoTime,
                !.nextAttemptAt = nextAttemptAt]

Failed(row, errorCode) ==
    [row EXCEPT !.status = "failed",
                !.currentStage = "failed",
                !.errorCode = errorCode,
                !.result = 0,
                !.leaseOwner = NoWorker,
                !.leaseExpiresAt = NoTime,
                !.nextAttemptAt = NoTime]

\* recoverStaleJob; unlike the others it leaves result alone.
Recovered(row, exhausted, nextAttemptAt) ==
    [row EXCEPT !.status = IF exhausted THEN "failed" ELSE "retrying",
                !.currentStage = "failed",
                !.errorCode = IF exhausted THEN "WORKER_MAX_ATTEMPTS_EXCEEDED"
                                           ELSE "WORKER_LEASE_EXPIRED",
                !.leaseOwner = NoWorker,
                !.leaseExpiresAt = NoTime,
                !.nextAttemptAt = IF exhausted THEN NoTime ELSE nextAttemptAt]

\* VARIANT of Cancelled: the stage is set to a name that is no stage.
CancelledStage(row) ==
    [row EXCEPT !.status = "cancelled", !.currentStage = "cancelled",
                !.result = 0]

\* The API's cancel touches neither the lease nor next_attempt_at.
Cancelled(row) ==
    [row EXCEPT !.status = "cancelled", !.currentStage = "failed",
                !.result = 0]

=============================================================================
