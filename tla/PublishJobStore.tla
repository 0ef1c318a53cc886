--------------------------- MODULE PublishJobStore ---------------------------
(***************************************************************************)
(* The publish_jobs table: the row, the WHERE clauses of                   *)
(* DatabasePublishJobSource and DrizzlePublishJobRepository as predicates  *)
(* on a row, their SET clauses as functions from a row to its new value.   *)
(* Who runs which statement, and when, is in PublishWorkers.               *)
(*                                                                         *)
(* Left out are the columns no guard and no decision reads: counters and   *)
(* times that are only shown (attempt_count, poll_count, heartbeat_at,     *)
(* submitted_at, last_polled_at, completed_at, cancelled_at), the request  *)
(* itself, and the remote state and correlation id copied from answers.    *)
(***************************************************************************)
EXTENDS RetryPolicy

CONSTANTS
    Worker,          \* publish worker processes; an id is never reused
    NoWorker,        \* lease_owner is null
    LeaseDuration,   \* PUBLISH_JOB_LEASE_DURATION_MS
    PollInterval     \* PUBLISH_JOB_POLL_INTERVAL_MS

ASSUME NoWorkerAssumption == NoWorker \notin Worker
ASSUME LeaseDurationAssumption == LeaseDuration \in Nat \ {0}
ASSUME PollIntervalAssumption == PollInterval \in Nat \ {0}

NoTime == -1      \* a timestamp column that is null
Time == Nat \union {NoTime}

-----------------------------------------------------------------------------

Absent == "absent"      \* the row has not been inserted yet
PublishJobStatus == {"queued", "processing", "waiting", "retrying",
                     "completed", "failed", "cancelled"}
Terminal == {"completed", "failed", "cancelled"}

PublishJobStage ==
    {"queued", "validating-source", "submitting", "waiting-for-remote",
     "checking-remote-status",
     "retrieving-download", "completed", "failed", "cancelled"}

transitionPolicy ==
    [queued     |-> {"processing", "cancelled"},
     processing |-> {"waiting", "retrying", "completed", "failed", "cancelled"},
     waiting    |-> {"processing", "cancelled"},
     retrying   |-> {"processing", "cancelled", "failed"},
     completed  |-> {},
     failed     |-> {},
     cancelled  |-> {}]

isPublishJobTransitionAllowed(from, to) ==
    from \in PublishJobStatus /\ to \in transitionPolicy[from]

\* remote_error_code; call-error stands for the codes of the calls' errors.
ErrorCodes == {"none", "call-error", "PUBLISH_REMOTE_JOB_FAILED",
               "PUBLISH_REMOTE_JOB_CANCELLED", "PUBLISH_JOB_RETRY_EXHAUSTED",
               "PUBLISH_JOB_LEASE_MISMATCH"}

\* remote_job_id is null, or the id the engine answered with: a key has one
\* remote job, so which id it is need not be told.
RemoteJobId == {"none", "known"}

Row == [status                  : PublishJobStatus \union {Absent},
        stage                   : PublishJobStage,
        remoteJobId             : RemoteJobId,
        consecutiveFailureCount : Nat,
        leaseOwner              : Worker \union {NoWorker},
        leaseExpiresAt          : Time,
        nextAttemptAt           : Time,
        nextPollAt              : Time,
        errorCode               : ErrorCodes]

NoRow == [status |-> Absent, stage |-> "queued", remoteJobId |-> "none",
          consecutiveFailureCount |-> 0, leaseOwner |-> NoWorker,
          leaseExpiresAt |-> NoTime, nextAttemptAt |-> NoTime,
          nextPollAt |-> NoTime, errorCode |-> "none"]

-----------------------------------------------------------------------------
(* WHERE clauses.  A comparison with a null column selects nothing.        *)

Reached(time, now) == time # NoTime /\ time <= now

\* acquireNext's candidate.
Due(row, now) ==
    /\ \/ row.status = "queued"
       \/ row.status = "retrying" /\ Reached(row.nextAttemptAt, now)
       \/ row.status = "waiting" /\ Reached(row.nextPollAt, now)
    /\ row.leaseExpiresAt = NoTime \/ row.leaseExpiresAt <= now

\* setStage's guard, and what execute asks of the row it reads: the lease's
\* expiry is not looked at.
Held(row, w) == row.status = "processing" /\ row.leaseOwner = w

\* The guard of renewLease, recordSubmission, recordRemoteWaiting, recordRetry,
\* complete, fail and markRemoteCancelled.
Owned(row, w, now) == Held(row, w) /\ row.leaseExpiresAt > now

\* VARIANT of Stale: the lease's expiry is not compared.
StaleAlways(row, now) == row.status = "processing"

\* recoverStaleLeases' guard, in its SELECT and again in each UPDATE.
Stale(row, now) == row.status = "processing" /\ Reached(row.leaseExpiresAt, now)

\* cancel's: the status the transaction read is still there when it updates.
Cancellable(row) == row.status \in {"queued", "waiting", "retrying"}

-----------------------------------------------------------------------------
(* SET clauses *)

Unleased(row) == [row EXCEPT !.leaseOwner = NoWorker, !.leaseExpiresAt = NoTime]

Undated(row) == [row EXCEPT !.nextAttemptAt = NoTime, !.nextPollAt = NoTime]

Inserted(now) ==
    [NoRow EXCEPT !.status = "queued", !.nextAttemptAt = now,
                  !.nextPollAt = now]

\* Stage, dates and error of the previous attempt are left in place.
Claimed(row, w, now) ==
    [row EXCEPT !.status = "processing", !.leaseOwner = w,
                !.leaseExpiresAt = now + LeaseDuration]

Renewed(row, now) == [row EXCEPT !.leaseExpiresAt = now + LeaseDuration]

Staged(row, stage) == [row EXCEPT !.stage = stage]

\* recordRemoteWaiting: back to waiting, to be polled in a while.
RemoteWaiting(row, now) ==
    [Unleased(row) EXCEPT !.status = "waiting",
                          !.stage = "waiting-for-remote",
                          !.nextPollAt = now + PollInterval,
                          !.nextAttemptAt = NoTime,
                          !.consecutiveFailureCount = 0]

\* VARIANT of Submitted: the remote id is not stored.
SubmittedWithoutId(row, now) == RemoteWaiting(row, now)

\* recordSubmission
Submitted(row, now) == [RemoteWaiting(row, now) EXCEPT !.remoteJobId = "known"]

\* VARIANT of RetryRecorded: the date is put where a waiting row has it.
RetryRecordedAsPoll(row, code, nextAttemptAt) ==
    [Unleased(row) EXCEPT !.status = "retrying", !.stage = "failed",
                          !.errorCode = code, !.nextAttemptAt = NoTime,
                          !.nextPollAt = nextAttemptAt,
                          !.consecutiveFailureCount = @ + 1]

\* recordRetry: a job that has a remote id is retried with it.
RetryRecorded(row, code, nextAttemptAt) ==
    [Unleased(row) EXCEPT !.status = "retrying",
                          !.stage = "failed",
                          !.errorCode = code,
                          !.nextAttemptAt = nextAttemptAt,
                          !.nextPollAt = NoTime,
                          !.consecutiveFailureCount = @ + 1]

\* complete; the error code of an earlier failure stays.
Completed(row) ==
    [Undated(Unleased(row)) EXCEPT !.status = "completed",
                                   !.stage = "completed",
                                   !.consecutiveFailureCount = 0]

\* fail
Failed(row, code) ==
    [Undated(Unleased(row)) EXCEPT !.status = "failed", !.stage = "failed",
                                   !.errorCode = code]

\* markRemoteCancelled, and the API's cancel.
Cancelled(row) ==
    [Undated(Unleased(row)) EXCEPT !.status = "cancelled",
                                   !.stage = "cancelled"]

\* recoverStaleLeases: seen is the row its SELECT returned.  A job that has a
\* remote id goes back to waiting.
Recovered(row, seen, exhausted, next) ==
    LET count == seen.consecutiveFailureCount + 1
        freed == [Unleased(row) EXCEPT !.consecutiveFailureCount = count]
    IN  IF exhausted
        THEN Failed(freed, "PUBLISH_JOB_RETRY_EXHAUSTED")
        ELSE IF seen.remoteJobId = "known"
        THEN [freed EXCEPT !.status = "waiting",
                           !.stage = "waiting-for-remote",
                           !.errorCode = "PUBLISH_JOB_LEASE_MISMATCH",
                           !.nextAttemptAt = NoTime,
                           !.nextPollAt = next]
        ELSE [freed EXCEPT !.status = "retrying",
                           !.stage = "failed",
                           !.errorCode = "PUBLISH_JOB_LEASE_MISMATCH",
                           !.nextAttemptAt = next,
                           !.nextPollAt = NoTime]

-----------------------------------------------------------------------------
(* classifyPublishOrchestrationFailure, over the classes of errors the     *)
(* calls of the executor throw.                                            *)

CallError == {"authentication", "protocol", "idempotency-conflict",
              "artifact", "cancelled", "transport", "timeout",
              "retry-exhausted", "remote-retryable", "remote-permanent",
              "platform", "unexpected"}

isRetryable(error) ==
    error \in {"transport", "timeout", "retry-exhausted", "remote-retryable",
               "unexpected"}

classified(error) ==
    [retryable |-> isRetryable(error),
     code |-> IF error = "cancelled" THEN "PUBLISH_REMOTE_JOB_CANCELLED"
                                     ELSE "call-error"]

Failures == {classified(error) : error \in CallError}

\* A database error is a PlatformError, and so nothing to retry.
DatabaseError == classified("platform")

\* What the client throws when the signal it was given aborts.
CancelledCall == classified("cancelled")

=============================================================================
