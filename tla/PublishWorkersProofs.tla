------------------------ MODULE PublishWorkersProofs ------------------------
(***************************************************************************)
(* Proofs about PublishWorkers, for every set of jobs and workers, every   *)
(* concurrency and every value of the other constants.                     *)
(*                                                                         *)
(* Every step changes a row in one of eight ways (RowBecomes), and what an *)
(* execution has learnt of its job stays true (Informed): a remote id that *)
(* is known is never forgotten, a remote job that is over stays as it is.  *)
(* The properties of the rows follow from these two.                       *)
(***************************************************************************)
EXTENDS PublishWorkers, TLAPS

USE NoWorkerAssumption, LeaseDurationAssumption, PollIntervalAssumption,
    RetryDelayAssumption, JobAssumption, ConcurrencyAssumption,
    MaxConsecutiveFailuresAssumption, MaxLagAssumption, MaxTimeAssumption

-----------------------------------------------------------------------------
(* Types *)

\* A retry delay is a natural number, however large the attempt number.
LEMMA RetryDelayType ==
    ASSUME NEW n \in Nat
    PROVE  calculateRetryDelayMs(n) \in Nat
<1> DEFINE x == RetryBaseDelay * 2 ^ (n - 1)
<1>1. CASE n <= 0
  BY <1>1 DEF calculateRetryDelayMs
<1>2. CASE n > 0 /\ x \in 0 .. RetryMaxDelay
  <2>1. calculateRetryDelayMs(n) = x
    BY <1>2 DEF calculateRetryDelayMs
  <2> HIDE DEF x
  <2> QED
    BY <1>2, <2>1
<1>3. CASE n > 0 /\ x \notin 0 .. RetryMaxDelay
  <2>1. calculateRetryDelayMs(n) = RetryMaxDelay
    BY <1>3 DEF calculateRetryDelayMs
  <2> QED
    BY <2>1
<1> HIDE DEF x
<1> QED
  BY <1>1, <1>2, <1>3

\* The literals of the rows and the executions have their types.
LEMMA Literals ==
    /\ NoTime \in Time /\ Nat \subseteq Time /\ 0 \in Nat
    /\ {"queued", "processing", "waiting", "retrying", "completed", "failed",
        "cancelled", Absent} \subseteq PublishJobStatus \union {Absent}
    /\ {"queued", "waiting-for-remote", "completed", "failed", "cancelled",
        "retrieving-download", "checking-remote-status", "submitting"}
          \subseteq PublishJobStage
    /\ {"none", "call-error", "PUBLISH_REMOTE_JOB_FAILED",
        "PUBLISH_REMOTE_JOB_CANCELLED", "PUBLISH_JOB_RETRY_EXHAUSTED",
        "PUBLISH_JOB_LEASE_MISMATCH"} \subseteq ErrorCodes
    /\ {"none", "known"} \subseteq RemoteJobId
    /\ NoWorker \in Worker \union {NoWorker}
BY DEF Time, NoTime, PublishJobStatus, PublishJobStage, ErrorCodes,
       RemoteJobId

\* The places an execution can be at are all in ExecPc.
LEMMA PcLiterals ==
    /\ {"free", "reading", "staging", "fetching", "logging"} \subseteq ExecPc
    /\ Calls \subseteq ExecPc
    /\ Recording \subseteq ExecPc
    /\ Handling \subseteq ExecPc
    /\ {"submitting", "polling", "downloading"} \subseteq ExecPc
    /\ {"recording", "waiting", "remote-failed", "remote-cancelled",
        "completing"} \subseteq ExecPc
    /\ {"failing", "exhausting", "retrying"} \subseteq ExecPc
    /\ 0 \in Nat /\ TRUE \in BOOLEAN /\ FALSE \in BOOLEAN
BY DEF ExecPc, Calls, Recording, Handling

\* Every SET clause maps rows to rows.
LEMMA RowTypes ==
    ASSUME NEW row \in Row
    PROVE  /\ NoRow \in Row
           /\ \A now \in Nat : Inserted(now) \in Row
           /\ Cancelled(row) \in Row
           /\ \A w \in Worker, now \in Nat : Claimed(row, w, now) \in Row
           /\ \A now \in Nat : Renewed(row, now) \in Row
           /\ \A stage \in PublishJobStage : Staged(row, stage) \in Row
           /\ \A now \in Nat : RemoteWaiting(row, now) \in Row
           /\ \A now \in Nat : Submitted(row, now) \in Row
           /\ \A code \in ErrorCodes, next \in Nat :
                 RetryRecorded(row, code, next) \in Row
           /\ Completed(row) \in Row
           /\ \A code \in ErrorCodes : Failed(row, code) \in Row
           /\ \A seen \in Seen, exhausted \in BOOLEAN, next \in Nat :
                 Recovered(row, seen, exhausted, next) \in Row
<1>1. NoRow \in Row
  BY Literals, Zenon DEF NoRow, Row
<1>2. ASSUME NEW now \in Nat PROVE Inserted(now) \in Row
  BY <1>1, Literals, Zenon DEF Inserted, Row
<1>3. Unleased(row) \in Row /\ \A r \in Row : Undated(r) \in Row
  BY Literals, Zenon DEF Unleased, Undated, Row
<1>4. Cancelled(row) \in Row
  BY <1>3, Literals, Zenon DEF Cancelled, Row
<1>5. \A now \in Nat : now + LeaseDuration \in Time /\ now + PollInterval \in Time
  BY DEF Time
<1>6. ASSUME NEW w \in Worker, NEW now \in Nat
      PROVE  Claimed(row, w, now) \in Row
  BY <1>5, Literals, Zenon DEF Claimed, Row
<1>7. ASSUME NEW now \in Nat PROVE Renewed(row, now) \in Row
  BY <1>5, Zenon DEF Renewed, Row
<1>8. ASSUME NEW stage \in PublishJobStage PROVE Staged(row, stage) \in Row
  BY Zenon DEF Staged, Row
<1>9. ASSUME NEW now \in Nat PROVE RemoteWaiting(row, now) \in Row
  BY <1>3, <1>5, Literals, Zenon DEF RemoteWaiting, Row
<1>10. ASSUME NEW now \in Nat PROVE Submitted(row, now) \in Row
  BY <1>9, Literals, Zenon DEF Submitted, Row
<1>11. ASSUME NEW code \in ErrorCodes, NEW next \in Nat
       PROVE  RetryRecorded(row, code, next) \in Row
  <2>1. Unleased(row).consecutiveFailureCount + 1 \in Nat
    BY <1>3 DEF Row
  <2> QED
    BY <1>3, <2>1, Literals, Zenon DEF RetryRecorded, Row
<1>12. Completed(row) \in Row
  BY <1>3, Literals, Zenon DEF Completed, Row
<1>13. ASSUME NEW r \in Row, NEW code \in ErrorCodes PROVE Failed(r, code) \in Row
  <2>1. Unleased(r) \in Row
    BY Literals, Zenon DEF Unleased, Row
  <2> QED
    BY <1>3, <2>1, Literals, Zenon DEF Failed, Row
<1>14. ASSUME NEW seen \in Seen, NEW exhausted \in BOOLEAN, NEW next \in Nat
       PROVE  Recovered(row, seen, exhausted, next) \in Row
  <2> DEFINE count == seen.consecutiveFailureCount + 1
             freed == [Unleased(row) EXCEPT !.consecutiveFailureCount = count]
  <2>1. count \in Nat
    BY DEF Seen
  <2>2. freed \in Row
    BY <1>3, <2>1, Zenon DEF Row
  <2> HIDE DEF freed
  <2>3. CASE exhausted
    <3>1. Recovered(row, seen, exhausted, next)
             = Failed(freed, "PUBLISH_JOB_RETRY_EXHAUSTED")
      BY <2>3 DEF Recovered, freed
    <3> QED
      BY <1>13, <2>2, <3>1, Literals
  <2>4. CASE ~exhausted /\ seen.remoteJobId = "known"
    <3>1. Recovered(row, seen, exhausted, next)
             = [freed EXCEPT !.status = "waiting",
                             !.stage = "waiting-for-remote",
                             !.errorCode = "PUBLISH_JOB_LEASE_MISMATCH",
                             !.nextAttemptAt = NoTime,
                             !.nextPollAt = next]
      BY <2>4, Zenon DEF Recovered, freed
    <3> QED
      BY <2>2, <3>1, Literals, Zenon DEF Row
  <2>5. CASE ~exhausted /\ seen.remoteJobId # "known"
    <3>1. Recovered(row, seen, exhausted, next)
             = [freed EXCEPT !.status = "retrying",
                             !.stage = "failed",
                             !.errorCode = "PUBLISH_JOB_LEASE_MISMATCH",
                             !.nextAttemptAt = next,
                             !.nextPollAt = NoTime]
      BY <2>5, Zenon DEF Recovered, freed
    <3> QED
      BY <2>2, <3>1, Literals, Zenon DEF Row
  <2> QED
    BY <2>3, <2>4, <2>5
<1> QED
  BY <1>1, <1>2, <1>4, <1>6, <1>7, <1>8, <1>9, <1>10, <1>11, <1>12, <1>13,
     <1>14

\* What the SET clauses change and what they leave, clause by clause.
LEMMA InsertedFields ==
    ASSUME NEW now \in Nat
    PROVE  LET r == Inserted(now) IN
           /\ r.status = "queued" /\ r.stage = "queued"
           /\ r.remoteJobId = "none" /\ r.consecutiveFailureCount = 0
           /\ r.leaseOwner = NoWorker /\ r.leaseExpiresAt = NoTime
           /\ r.errorCode = "none"
BY DEF Inserted, NoRow

\* cancel and markRemoteCancelled.
LEMMA CancelledFields ==
    ASSUME NEW row \in Row
    PROVE  LET r == Cancelled(row) IN
           /\ r.status = "cancelled" /\ r.stage = "cancelled"
           /\ r.remoteJobId = row.remoteJobId
           /\ r.consecutiveFailureCount = row.consecutiveFailureCount
           /\ r.leaseOwner = NoWorker /\ r.leaseExpiresAt = NoTime
           /\ r.errorCode = row.errorCode
BY DEF Cancelled, Undated, Unleased, Row

\* acquireNext.
LEMMA ClaimedFields ==
    ASSUME NEW row \in Row, NEW w \in Worker, NEW now \in Nat
    PROVE  LET r == Claimed(row, w, now) IN
           /\ r.status = "processing" /\ r.stage = row.stage
           /\ r.remoteJobId = row.remoteJobId
           /\ r.consecutiveFailureCount = row.consecutiveFailureCount
           /\ r.leaseOwner = w /\ r.leaseExpiresAt = now + LeaseDuration
           /\ r.errorCode = row.errorCode
BY DEF Claimed, Row

\* renewLease.
LEMMA RenewedFields ==
    ASSUME NEW row \in Row, NEW now \in Nat
    PROVE  LET r == Renewed(row, now) IN
           /\ r.status = row.status /\ r.stage = row.stage
           /\ r.remoteJobId = row.remoteJobId
           /\ r.consecutiveFailureCount = row.consecutiveFailureCount
           /\ r.leaseOwner = row.leaseOwner
           /\ r.leaseExpiresAt = now + LeaseDuration
           /\ r.nextAttemptAt = row.nextAttemptAt
           /\ r.nextPollAt = row.nextPollAt
           /\ r.errorCode = row.errorCode
BY DEF Renewed, Row

\* setStage.
LEMMA StagedFields ==
    ASSUME NEW row \in Row, NEW stage \in PublishJobStage
    PROVE  LET r == Staged(row, stage) IN
           /\ r.status = row.status /\ r.stage = stage
           /\ r.remoteJobId = row.remoteJobId
           /\ r.consecutiveFailureCount = row.consecutiveFailureCount
           /\ r.leaseOwner = row.leaseOwner
           /\ r.leaseExpiresAt = row.leaseExpiresAt
           /\ r.nextAttemptAt = row.nextAttemptAt
           /\ r.nextPollAt = row.nextPollAt
           /\ r.errorCode = row.errorCode
BY DEF Staged, Row

\* recordRemoteWaiting.
LEMMA RemoteWaitingFields ==
    ASSUME NEW row \in Row, NEW now \in Nat
    PROVE  LET r == RemoteWaiting(row, now) IN
           /\ r.status = "waiting" /\ r.stage = "waiting-for-remote"
           /\ r.remoteJobId = row.remoteJobId
           /\ r.consecutiveFailureCount = 0
           /\ r.leaseOwner = NoWorker /\ r.leaseExpiresAt = NoTime
           /\ r.nextPollAt = now + PollInterval
           /\ r.errorCode = row.errorCode
BY DEF RemoteWaiting, Unleased, Row

\* recordSubmission.
LEMMA SubmittedFields ==
    ASSUME NEW row \in Row, NEW now \in Nat
    PROVE  LET r == Submitted(row, now) IN
           /\ r.status = "waiting" /\ r.stage = "waiting-for-remote"
           /\ r.remoteJobId = "known"
           /\ r.consecutiveFailureCount = 0
           /\ r.leaseOwner = NoWorker /\ r.leaseExpiresAt = NoTime
           /\ r.nextPollAt = now + PollInterval
           /\ r.errorCode = row.errorCode
BY DEF Submitted, RemoteWaiting, Unleased, Row

\* recordRetry.
LEMMA RetryRecordedFields ==
    ASSUME NEW row \in Row, NEW code \in ErrorCodes, NEW next \in Nat
    PROVE  LET r == RetryRecorded(row, code, next) IN
           /\ r.status = "retrying" /\ r.stage = "failed"
           /\ r.remoteJobId = row.remoteJobId
           /\ r.consecutiveFailureCount = row.consecutiveFailureCount + 1
           /\ r.leaseOwner = NoWorker /\ r.leaseExpiresAt = NoTime
           /\ r.nextAttemptAt = next
           /\ r.errorCode = code
BY DEF RetryRecorded, Unleased, Row

\* complete.
LEMMA CompletedFields ==
    ASSUME NEW row \in Row
    PROVE  LET r == Completed(row) IN
           /\ r.status = "completed" /\ r.stage = "completed"
           /\ r.remoteJobId = row.remoteJobId
           /\ r.consecutiveFailureCount = 0
           /\ r.leaseOwner = NoWorker /\ r.leaseExpiresAt = NoTime
           /\ r.errorCode = row.errorCode
BY DEF Completed, Undated, Unleased, Row

\* fail.
LEMMA FailedFields ==
    ASSUME NEW row \in Row, NEW code \in ErrorCodes
    PROVE  LET r == Failed(row, code) IN
           /\ r.status = "failed" /\ r.stage = "failed"
           /\ r.remoteJobId = row.remoteJobId
           /\ r.consecutiveFailureCount = row.consecutiveFailureCount
           /\ r.leaseOwner = NoWorker /\ r.leaseExpiresAt = NoTime
           /\ r.errorCode = code
BY DEF Failed, Undated, Unleased, Row

\* The sweep's, in its three cases.
LEMMA RecoveredFields ==
    ASSUME NEW row \in Row, NEW seen \in Seen, NEW exhausted \in BOOLEAN,
           NEW next \in Nat
    PROVE  LET r == Recovered(row, seen, exhausted, next) IN
           /\ r.remoteJobId = row.remoteJobId
           /\ r.consecutiveFailureCount = seen.consecutiveFailureCount + 1
           /\ r.leaseOwner = NoWorker /\ r.leaseExpiresAt = NoTime
           /\ \/ /\ exhausted
                 /\ r.status = "failed" /\ r.stage = "failed"
                 /\ r.errorCode = "PUBLISH_JOB_RETRY_EXHAUSTED"
              \/ /\ ~exhausted /\ seen.remoteJobId = "known"
                 /\ r.status = "waiting" /\ r.stage = "waiting-for-remote"
                 /\ r.nextPollAt = next
                 /\ r.errorCode = "PUBLISH_JOB_LEASE_MISMATCH"
              \/ /\ ~exhausted /\ seen.remoteJobId # "known"
                 /\ r.status = "retrying" /\ r.stage = "failed"
                 /\ r.nextAttemptAt = next
                 /\ r.errorCode = "PUBLISH_JOB_LEASE_MISMATCH"
<1>1. CASE exhausted
  BY <1>1 DEF Recovered, Failed, Undated, Unleased, Row
<1>2. CASE ~exhausted /\ seen.remoteJobId = "known"
  BY <1>2 DEF Recovered, Unleased, Row
<1>3. CASE ~exhausted /\ seen.remoteJobId # "known"
  BY <1>3 DEF Recovered, Unleased, Row
<1> QED
  BY <1>1, <1>2, <1>3

-----------------------------------------------------------------------------
(* Executions *)

\* What an execution has learnt of its job agrees with the table and the
\* engine, and so does the decision it has made.
Learnt(e, table, engine) ==
    /\ e.pc \in {"polling", "waiting", "fetching", "downloading",
                 "completing", "remote-failed", "remote-cancelled"}
          => e.remoteJobId = "known"
    /\ e.remoteJobId = "known" => table[e.job].remoteJobId = "known"
    /\ e.pc = "recording" => engine[e.job] # "none"
    /\ e.pc \in {"fetching", "downloading", "completing"}
          => engine[e.job] = "completed"
    /\ e.pc = "remote-failed" => engine[e.job] = "failed"
    /\ e.pc = "remote-cancelled" => engine[e.job] = "cancelled"
    /\ e.pc \in {"failing", "retrying"}
          => e.code \in {"call-error", "PUBLISH_REMOTE_JOB_CANCELLED"}
    /\ e.pc = "retrying" => e.failures + 1 < MaxConsecutiveFailures
    /\ e.pc = "exhausting" =>
          /\ e.code = "PUBLISH_JOB_RETRY_EXHAUSTED"
          /\ e.failures + 1 >= MaxConsecutiveFailures

Informed(e) == Learnt(e, jobs, remote)

Good(e) == e \in Exec /\ Informed(e)

AllInformed == \A w \in Worker, s \in Slot : Informed(exec[w][s])

\* There is a job.
LEMMA AnyJobType == AnyJob \in Job
BY DEF AnyJob

\* A slot that is free, or has just been given a job, knows nothing.
LEMMA FreeGood ==
    /\ Good(FreeSlot)
    /\ \A j \in Job : Good([FreeSlot EXCEPT !.pc = "reading", !.job = j])
    /\ FreeSlot.pc = "free" /\ FreeSlot.remoteJobId = "none"
<1>1. FreeSlot \in Exec
  BY AnyJobType, PcLiterals, Literals, Zenon DEF FreeSlot, Exec
<1>2. FreeSlot.pc = "free" /\ FreeSlot.remoteJobId = "none"
  BY DEF FreeSlot
<1>3. ASSUME NEW j \in Job
      PROVE  Good([FreeSlot EXCEPT !.pc = "reading", !.job = j])
  <2> DEFINE e == [FreeSlot EXCEPT !.pc = "reading", !.job = j]
  <2>1. e \in Exec
    BY <1>1, PcLiterals, Zenon DEF Exec
  <2>2. e.pc = "reading" /\ e.remoteJobId = "none"
    BY <1>1, <1>2 DEF Exec
  <2> HIDE DEF e
  <2>3. Informed(e)
    BY <2>2 DEF Informed, Learnt
  <2> QED
    BY <2>1, <2>3 DEF e, Good
<1> QED
  BY <1>1, <1>2, <1>3 DEF Good, Informed, Learnt

\* The classifier's codes; a database error is one of the failures.
LEMMA FailureCodes ==
    /\ \A failure \in Failures :
          failure.code \in {"call-error", "PUBLISH_REMOTE_JOB_CANCELLED"}
    /\ DatabaseError \in Failures
<1>1. ASSUME NEW failure \in Failures
      PROVE  failure.code \in {"call-error", "PUBLISH_REMOTE_JOB_CANCELLED"}
  <2>1. PICK error \in CallError : failure = classified(error)
    BY Zenon DEF Failures
  <2>2. failure.code = IF error = "cancelled"
                       THEN "PUBLISH_REMOTE_JOB_CANCELLED" ELSE "call-error"
    BY <2>1, Zenon DEF classified
  <2> QED
    BY <2>2
<1>2. "platform" \in CallError
  BY DEF CallError
<1>3. DatabaseError \in Failures
  BY <1>2, Zenon DEF DatabaseError, Failures
<1> QED
  BY <1>1, <1>3

\* handleFailure's decision.
LEMMA HandleGood ==
    ASSUME TypeOK, NEW e \in Exec, Informed(e), NEW failure \in Failures
    PROVE  LET h == HandleFailure(e, failure) IN
           /\ Good(h)
           /\ h.pc \in Handling
           /\ h.job = e.job /\ h.remoteJobId = e.remoteJobId
           /\ h.failures = e.failures /\ h.now = clock
           /\ h.beating = FALSE /\ h.beatNow = 0 /\ h.leaseLost = FALSE
<1> DEFINE h == HandleFailure(e, failure)
           failed == [e EXCEPT !.now = clock, !.leaseLost = FALSE,
                               !.beating = FALSE, !.beatNow = 0]
<1>0. clock \in Nat
  BY DEF TypeOK
<1>1. /\ failed \in Exec
      /\ failed.job = e.job /\ failed.remoteJobId = e.remoteJobId
      /\ failed.failures = e.failures /\ failed.now = clock
      /\ failed.beating = FALSE /\ failed.beatNow = 0
      /\ failed.leaseLost = FALSE
  <2>1. failed \in Exec
    BY <1>0, PcLiterals, Zenon DEF Exec
  <2> QED
    BY <2>1 DEF Exec
<1>2. failure.code \in {"call-error", "PUBLISH_REMOTE_JOB_CANCELLED"}
  BY FailureCodes
<1> HIDE DEF failed
<1>3. PICK pc \in Handling, code \in ErrorCodes :
        /\ h = [failed EXCEPT !.pc = pc, !.code = code]
        /\ pc = "failing" => code \in {"call-error",
                                       "PUBLISH_REMOTE_JOB_CANCELLED"}
        /\ pc = "retrying" =>
              /\ code \in {"call-error", "PUBLISH_REMOTE_JOB_CANCELLED"}
              /\ e.failures + 1 < MaxConsecutiveFailures
        /\ pc = "exhausting" =>
              /\ code = "PUBLISH_JOB_RETRY_EXHAUSTED"
              /\ e.failures + 1 >= MaxConsecutiveFailures
  <2>0. /\ failure.code \in ErrorCodes
        /\ "PUBLISH_JOB_RETRY_EXHAUSTED" \in ErrorCodes
        /\ "failing" \in Handling /\ "retrying" \in Handling
        /\ "exhausting" \in Handling
        /\ e.failures \in Nat
    BY <1>2, Literals DEF Handling, Exec
  <2>1. CASE ~failure.retryable
    <3>1. h = [failed EXCEPT !.pc = "failing", !.code = failure.code]
      BY <2>1, Zenon DEF HandleFailure, failed
    <3> QED
      BY <1>2, <2>0, <3>1
  <2>2. CASE failure.retryable /\ e.failures + 1 >= MaxConsecutiveFailures
    <3>1. h = [failed EXCEPT !.pc = "exhausting",
                             !.code = "PUBLISH_JOB_RETRY_EXHAUSTED"]
      BY <2>2, Zenon DEF HandleFailure, failed
    <3> QED
      BY <2>0, <2>2, <3>1
  <2>3. CASE failure.retryable /\ ~(e.failures + 1 >= MaxConsecutiveFailures)
    <3>1. h = [failed EXCEPT !.pc = "retrying", !.code = failure.code]
      BY <2>3, Zenon DEF HandleFailure, failed
    <3>2. e.failures + 1 < MaxConsecutiveFailures
      BY <2>0, <2>3
    <3> QED
      BY <1>2, <2>0, <3>1, <3>2
  <2> QED
    BY <2>1, <2>2, <2>3
<1> HIDE DEF h
<1>4. /\ h \in Exec
      /\ h.pc = pc /\ h.code = code
      /\ h.job = e.job /\ h.remoteJobId = e.remoteJobId
      /\ h.failures = e.failures /\ h.now = clock
      /\ h.beating = FALSE /\ h.beatNow = 0 /\ h.leaseLost = FALSE
  <2>1. pc \in ExecPc
    BY PcLiterals
  <2>2. h \in Exec
    BY <1>1, <1>3, <2>1, Zenon DEF Exec
  <2> QED
    BY <1>1, <1>3, <2>2 DEF Exec
<1>5. Informed(h)
  <2>1. pc \in {"failing", "exhausting", "retrying"}
    BY DEF Handling
  <2> QED
    BY <1>3, <1>4, <2>1 DEF Informed, Learnt
<1> QED
  BY <1>4, <1>5 DEF h, Good

-----------------------------------------------------------------------------
(* What a step may change *)

\* A renewal under way, of a call or of one that has ended, sampled this time.
RenewalTime(now) ==
    \E w \in Worker :
        \/ \E s \in Slot : exec[w][s].beating /\ exec[w][s].beatNow = now
        \/ \E o \in orphans[w] : o.now = now

Claims(w, row, new) ==
    /\ loop[w].pc = "acquiring" /\ loop'[w] = IdleLoop
    /\ Due(row, loop[w].now)
    /\ new = Claimed(row, w, loop[w].now)

Ends(w, s, j, new) ==
    LET e == exec[w][s] IN
    /\ e.pc \in Recording \union Handling /\ e.job = j
    /\ Owned(jobs[j], w, e.now)
    /\ new = Outcome(jobs[j], e)
    /\ exec'[w][s].pc # e.pc

Sweeps(w, j, new) ==
    LET l == loop[w] IN
    /\ l.pc = "sweeping" /\ j \in l.rows
    /\ Stale(jobs[j], l.now)
    /\ new = Recovered(jobs[j], l.seen[j],
                l.seen[j].consecutiveFailureCount + 1 >= MaxConsecutiveFailures,
                l.now + calculateRetryDelayMs(1))

\* The ways in which a row becomes new.
RowBecomes(j, new) ==
    LET row == jobs[j] IN
    \/ new = row
    \/ row.status = Absent /\ \E now \in Nat : new = Inserted(now)
    \/ Cancellable(row) /\ new = Cancelled(row)
    \/ \E w \in Worker : Claims(w, row, new)
    \/ /\ row.status = "processing"
       /\ \E now \in Nat : RenewalTime(now) /\ new = Renewed(row, now)
    \/ /\ row.status = "processing"
       /\ \E stage \in PublishJobStage : new = Staged(row, stage)
    \/ \E w \in Worker, s \in Slot : Ends(w, s, j, new)
    \/ \E w \in Worker : Sweeps(w, j, new)

JobsStep == jobs' \in [Job -> Row] /\ \A j \in Job : RowBecomes(j, jobs'[j])

EngineStep ==
    /\ sent' \in SUBSET Job
    /\ remote' \in [Job -> RemoteState]
    /\ \A j \in Job :
          \/ remote'[j] = remote[j]
          \/ remote[j] = "none" /\ remote'[j] = "running"
          \/ /\ remote[j] = "running"
             /\ remote'[j] \in {"completed", "failed", "cancelled"}

\* The ways in which a slot becomes f: it is cleared, claims a job, reads it,
\* or goes on with it; and when it renews its lease.
SlotBecomes(w, e, f) ==
    /\ Good(f)
    /\ \/ f = e
       \/ f = FreeSlot
       \/ /\ loop[w].pc = "acquiring" /\ loop'[w] = IdleLoop
          /\ f.pc = "reading"
       \/ /\ e.pc = "reading" /\ f.pc = "staging" /\ f.job = e.job
          /\ f.remoteJobId = jobs[f.job].remoteJobId
          /\ f.failures = jobs[f.job].consecutiveFailureCount
       \/ /\ \/ f.pc = e.pc
             \/ e.pc \notin {"free", "reading"} /\ f.pc \notin {"free", "reading"}
          /\ f.job = e.job /\ f.remoteJobId = e.remoteJobId
          /\ f.failures = e.failures
    /\ f.beating => \/ f.beatNow = clock
                    \/ e.beating /\ f.beatNow = e.beatNow

SlotsStep ==
    /\ exec' \in [Worker -> [Slot -> Exec]]
    /\ \A w \in Worker, s \in Slot : SlotBecomes(w, exec[w][s], exec'[w][s])

\* The ways in which a loop moves.
LoopBecomes(w, new) ==
    \/ new = loop[w]
    \/ new = IdleLoop
    \/ /\ \E s \in Slot : exec[w][s].pc = "free"
       /\ new.pc = "acquiring" /\ new.now = clock
       /\ new.seen = loop[w].seen
       /\ exec' = exec
    \/ /\ new.pc = "sweeping"
       /\ new.now \in Nat /\ new.now <= clock
       /\ \A j \in new.rows :
             /\ new.seen[j].remoteJobId = jobs[j].remoteJobId
             /\ new.seen[j].consecutiveFailureCount
                   = jobs[j].consecutiveFailureCount
       /\ \A j \in Job \ new.rows : new.seen[j] = NothingSeen
       /\ jobs' = jobs

LoopsStep ==
    /\ loop' \in [Worker -> Loop]
    /\ \A w \in Worker : LoopBecomes(w, loop'[w])

OrphansStep ==
    /\ orphans' \in [Worker -> SUBSET Orphan]
    /\ \A w \in Worker : \A o \in orphans'[w] :
          \/ o \in orphans[w]
          \/ \E s \in Slot : exec[w][s].beating /\ exec[w][s].beatNow = o.now

ClockStep ==
    \/ clock' = clock
    \/ /\ clock' = clock + 1
       /\ StatementsOnTime
       /\ UNCHANGED <<jobs, loop, exec, orphans>>

StepShape ==
    /\ ClockStep /\ JobsStep /\ EngineStep /\ SlotsStep /\ LoopsStep
    /\ OrphansStep
    /\ proc' \in [Worker -> ProcState]

\* What is unchanged has changed in one of the ways.
LEMMA Unchanged ==
    ASSUME TypeOK, AllInformed
    PROVE  /\ (clock' = clock) => ClockStep
           /\ (jobs' = jobs) => JobsStep
           /\ (sent' = sent /\ remote' = remote) => EngineStep
           /\ (exec' = exec) => SlotsStep
           /\ (loop' = loop) => LoopsStep
           /\ (orphans' = orphans) => OrphansStep
           /\ (proc' = proc) => proc' \in [Worker -> ProcState]
<1>1. (exec' = exec) => SlotsStep
  <2> SUFFICES ASSUME exec' = exec PROVE SlotsStep
    OBVIOUS
  <2>1. exec' \in [Worker -> [Slot -> Exec]]
    BY DEF TypeOK
  <2>2. ASSUME NEW w \in Worker, NEW s \in Slot
        PROVE  SlotBecomes(w, exec[w][s], exec'[w][s])
    <3>1. Good(exec[w][s])
      BY DEF TypeOK, AllInformed, Good
    <3> QED
      BY <3>1 DEF SlotBecomes
  <2> QED
    BY <2>1, <2>2 DEF SlotsStep
<1>2. (loop' = loop) => LoopsStep
  BY DEF TypeOK, LoopsStep, LoopBecomes
<1>3. (jobs' = jobs) => JobsStep
  BY DEF TypeOK, JobsStep, RowBecomes
<1>4. (sent' = sent /\ remote' = remote) => EngineStep
  BY DEF TypeOK, EngineStep
<1>5. (orphans' = orphans) => OrphansStep
  BY DEF TypeOK, OrphansStep
<1>6. (proc' = proc) => proc' \in [Worker -> ProcState]
  BY DEF TypeOK
<1> QED
  BY <1>1, <1>2, <1>3, <1>4, <1>5, <1>6 DEF ClockStep

\* A statement that writes one row.
LEMMA WriteShape ==
    ASSUME TypeOK, NEW j \in Job, NEW new \in Row, Write(j, new),
           RowBecomes(j, new)
    PROVE  JobsStep
<1>1. jobs' \in [Job -> Row] /\ jobs'[j] = new
  BY DEF TypeOK, Write
<1>2. ASSUME NEW i \in Job PROVE RowBecomes(i, jobs'[i])
  <2>1. CASE i = j
    BY <1>1, <2>1
  <2>2. CASE i # j
    <3>1. jobs'[i] = jobs[i]
      BY <2>2 DEF TypeOK, Write
    <3> QED
      BY <3>1 DEF RowBecomes
  <2> QED
    BY <2>1, <2>2
<1> QED
  BY <1>1, <1>2 DEF JobsStep

\* A step of one slot.
LEMMA SlotShape ==
    ASSUME TypeOK, AllInformed, NEW w \in Worker, NEW s \in Slot, NEW f,
           SetExec(w, s, f), SlotBecomes(w, exec[w][s], f)
    PROVE  SlotsStep /\ exec'[w][s] = f
<1>0. exec \in [Worker -> [Slot -> Exec]] /\ f \in Exec
  BY DEF TypeOK, SlotBecomes, Good
<1>1. exec' \in [Worker -> [Slot -> Exec]] /\ exec'[w][s] = f
  BY <1>0 DEF SetExec
<1>2. ASSUME NEW v \in Worker, NEW t \in Slot
      PROVE  SlotBecomes(v, exec[v][t], exec'[v][t])
  <2>1. CASE v = w /\ t = s
    BY <1>1, <2>1
  <2>2. CASE ~(v = w /\ t = s)
    <3>1. exec'[v][t] = exec[v][t]
      BY <1>0, <2>2 DEF SetExec
    <3>2. Good(exec[v][t])
      BY DEF TypeOK, AllInformed, Good
    <3> QED
      BY <3>1, <3>2 DEF SlotBecomes
  <2> QED
    BY <2>1, <2>2
<1> QED
  BY <1>1, <1>2 DEF SlotsStep

\* A step of one loop.
LEMMA LoopShape ==
    ASSUME TypeOK, NEW w \in Worker, NEW new \in Loop,
           loop' = [loop EXCEPT ![w] = new], LoopBecomes(w, new)
    PROVE  LoopsStep /\ loop'[w] = new
<1>1. loop' \in [Worker -> Loop] /\ loop'[w] = new
  BY DEF TypeOK
<1>2. ASSUME NEW v \in Worker PROVE LoopBecomes(v, loop'[v])
  <2>1. CASE v = w
    BY <1>1, <2>1
  <2>2. CASE v # w
    <3>1. loop'[v] = loop[v]
      BY <2>2 DEF TypeOK
    <3> QED
      BY <3>1 DEF LoopBecomes
  <2> QED
    BY <2>1, <2>2
<1> QED
  BY <1>1, <1>2 DEF LoopsStep

\* The idle loop is one.
LEMMA IdleLoopType == IdleLoop \in Loop /\ IdleLoop.pc = "idle"
<1>1. NothingSeen \in Seen
  BY DEF NothingSeen, Seen, RemoteJobId
<1> QED
  BY <1>1 DEF IdleLoop, Loop

-----------------------------------------------------------------------------
(* Every step has this shape, action by action *)

\* The API's statements.
LEMMA ApiShape ==
    ASSUME TypeOK, AllInformed, NEW j \in Job, ApiNext(j)
    PROVE  StepShape
<1>0. jobs[j] \in Row
  BY DEF TypeOK
<1>1. CASE Create(j)
  <2>1. PICK now \in Now : Write(j, Inserted(now))
    BY <1>1 DEF Create
  <2>2. now \in Nat
    BY DEF Now, TypeOK
  <2>3. RowBecomes(j, Inserted(now))
    BY <1>1, <2>2 DEF Create, RowBecomes
  <2>4. JobsStep
    BY <1>0, <2>1, <2>2, <2>3, RowTypes, WriteShape
  <2> QED
    BY <1>1, <2>4, Unchanged DEF Create, StepShape, Engine
<1>2. CASE Cancel(j)
  <2>1. RowBecomes(j, Cancelled(jobs[j]))
    BY <1>2 DEF Cancel, RowBecomes
  <2>2. JobsStep
    BY <1>0, <1>2, <2>1, RowTypes, WriteShape DEF Cancel
  <2> QED
    BY <1>2, <2>2, Unchanged DEF Cancel, StepShape, Engine
<1> QED
  BY <1>1, <1>2 DEF ApiNext

\* The engine's steps.
LEMMA EngineShape ==
    ASSUME TypeOK, AllInformed, NEW j \in Job, EngineNext(j)
    PROVE  StepShape
<1>1. EngineStep
  <2>1. CASE EngineAccepts(j)
    BY <2>1 DEF EngineAccepts, EngineStep, TypeOK, RemoteState
  <2>2. CASE EngineFinishes(j)
    BY <2>2 DEF EngineFinishes, EngineStep, TypeOK, RemoteState
  <2> QED
    BY <2>1, <2>2 DEF EngineNext
<1> QED
  BY <1>1, Unchanged
     DEF EngineNext, EngineAccepts, EngineFinishes, StepShape

\* Start, crash, shutdown and exit of a process.
LEMMA ProcShape ==
    ASSUME TypeOK, AllInformed, NEW w \in Worker, ProcNext(w)
    PROVE  StepShape
<1>1. proc' \in [Worker -> ProcState]
  BY DEF ProcNext, Start, Crash, RequestShutdown, Exit, TypeOK, ProcState
<1>2. CASE Start(w) \/ RequestShutdown(w) \/ Exit(w)
  BY <1>1, <1>2, Unchanged
     DEF Start, RequestShutdown, Exit, StepShape, Engine
<1>3. CASE Crash(w)
  <2>1. LoopsStep
    BY <1>3, IdleLoopType, LoopShape DEF Crash, LoopBecomes
  <2>2. OrphansStep
    BY <1>3 DEF Crash, OrphansStep, TypeOK
  <2>3. SlotsStep
    <3>1. exec' \in [Worker -> [Slot -> Exec]]
      BY <1>3, FreeGood DEF Crash, TypeOK, Good
    <3>2. ASSUME NEW v \in Worker, NEW s \in Slot
          PROVE  SlotBecomes(v, exec[v][s], exec'[v][s])
      <4>1. exec'[v][s] = exec[v][s] \/ exec'[v][s] = FreeSlot
        BY <1>3 DEF Crash, TypeOK
      <4>2. Good(exec[v][s])
        BY DEF TypeOK, AllInformed, Good
      <4>3. FreeSlot.beating = FALSE
        BY DEF FreeSlot
      <4> QED
        BY <4>1, <4>2, <4>3, FreeGood DEF SlotBecomes
    <3> QED
      BY <3>1, <3>2 DEF SlotsStep
  <2> QED
    BY <1>1, <1>3, <2>1, <2>2, <2>3, Unchanged DEF Crash, StepShape, Engine
<1> QED
  BY <1>2, <1>3 DEF ProcNext

\* A claim, whether its answer arrives or not.
LEMMA ClaimShape ==
    ASSUME TypeOK, AllInformed, NEW w \in Worker, NEW j \in Job,
           ClaimStmt(w, j)
    PROVE  JobsStep /\ LoopsStep /\ loop'[w] = IdleLoop
<1>1. LoopsStep /\ loop'[w] = IdleLoop
  BY IdleLoopType, LoopShape DEF ClaimStmt, LoopBecomes
<1>2. RowBecomes(j, Claimed(jobs[j], w, loop[w].now))
  BY <1>1 DEF ClaimStmt, RowBecomes, Claims
<1>3. jobs[j] \in Row /\ loop[w].now \in Nat
  BY DEF TypeOK, Loop
<1>4. Claimed(jobs[j], w, loop[w].now) \in Row
  BY <1>3, RowTypes
<1>5. JobsStep
  BY <1>2, <1>4, WriteShape DEF ClaimStmt
<1> QED
  BY <1>1, <1>5

\* The commit of a sweep.
LEMMA RecoverShape ==
    ASSUME TypeOK, NEW w \in Worker, loop[w].pc = "sweeping", RecoverStmt(w)
    PROVE  JobsStep
<1> DEFINE l == loop[w]
           exhausted(j) ==
             l.seen[j].consecutiveFailureCount + 1 >= MaxConsecutiveFailures
           recovered(j) == Recovered(jobs[j], l.seen[j], exhausted(j),
                                     l.now + calculateRetryDelayMs(1))
<1>1. jobs' = [j \in Job |-> IF j \in l.rows /\ Stale(jobs[j], l.now)
                             THEN recovered(j) ELSE jobs[j]]
  BY Zenon DEF RecoverStmt
<1>2. ASSUME NEW j \in Job PROVE recovered(j) \in Row
  <2>1. l.seen[j] \in Seen /\ jobs[j] \in Row
    BY DEF TypeOK, Loop
  <2>2. l.now + calculateRetryDelayMs(1) \in Nat
    <3>1. l.now \in Nat /\ calculateRetryDelayMs(1) \in Nat
      BY RetryDelayType DEF TypeOK, Loop
    <3> QED
      BY <3>1
  <2>3. exhausted(j) \in BOOLEAN
    OBVIOUS
  <2> QED
    BY <2>1, <2>2, <2>3, RowTypes
<1>3. ASSUME NEW j \in Job PROVE RowBecomes(j, jobs'[j]) /\ jobs'[j] \in Row
  <2>0. jobs'[j] = IF j \in l.rows /\ Stale(jobs[j], l.now)
                   THEN recovered(j) ELSE jobs[j]
    BY <1>1, Zenon
  <2>1. CASE j \in l.rows /\ Stale(jobs[j], l.now)
    <3>1. jobs'[j] = recovered(j)
      BY <2>0, <2>1, Zenon
    <3>2. Sweeps(w, j, jobs'[j])
      BY <2>1, <3>1, Zenon DEF Sweeps
    <3> QED
      BY <1>2, <3>1, <3>2, Zenon DEF RowBecomes
  <2>2. CASE ~(j \in l.rows /\ Stale(jobs[j], l.now))
    <3>1. jobs'[j] = jobs[j]
      BY <2>0, <2>2, Zenon
    <3> QED
      BY <3>1 DEF RowBecomes, TypeOK
  <2> QED
    BY <2>1, <2>2
<1>4. jobs' = [j \in Job |-> jobs'[j]]
  BY <1>1, Zenon
<1>5. jobs' \in [Job -> Row]
  BY <1>3, <1>4, Zenon
<1> QED
  BY <1>3, <1>5 DEF JobsStep

\* The loop's steps.
LEMMA LoopNextShape ==
    ASSUME TypeOK, AllInformed, NEW w \in Worker, LoopNext(w)
    PROVE  StepShape
<1>1. CASE Poll(w)
  <2> DEFINE new == [loop[w] EXCEPT !.pc = "acquiring", !.now = clock]
  <2>0. loop[w] \in Loop /\ clock \in Nat
        /\ "acquiring" \in {"idle", "acquiring", "sweeping"}
    BY DEF TypeOK
  <2>1. /\ new \in Loop
        /\ new.pc = "acquiring" /\ new.now = clock
        /\ new.seen = loop[w].seen
    <3>1. new \in Loop
      BY <2>0, Zenon DEF Loop
    <3> QED
      BY <2>0, <3>1 DEF Loop
  <2>2. loop' = [loop EXCEPT ![w] = new]
    BY <1>1 DEF Poll
  <2> HIDE DEF new
  <2>3. LoopsStep
    BY <1>1, <2>1, <2>2, LoopShape DEF Poll, LoopBecomes
  <2> QED
    BY <1>1, <2>3, Unchanged DEF Poll, StepShape, Engine
<1>2. CASE AcquireNothing(w) \/ SweepThrows(w)
  <2>1. LoopsStep
    BY <1>2, IdleLoopType, LoopShape
       DEF AcquireNothing, SweepThrows, LoopBecomes
  <2> QED
    BY <1>2, <2>1, Unchanged
       DEF AcquireNothing, SweepThrows, StepShape, Engine
<1>3. ASSUME NEW j \in Job, AcquireThrows(w, j) PROVE StepShape
  BY <1>3, ClaimShape, Unchanged DEF AcquireThrows, StepShape, Engine
<1>4. ASSUME NEW j \in Job, NEW s \in Slot, AcquireNext(w, s, j)
      PROVE  StepShape
  <2> DEFINE f == [FreeSlot EXCEPT !.pc = "reading", !.job = j]
  <2>0. JobsStep /\ LoopsStep /\ loop'[w] = IdleLoop
    BY <1>4, ClaimShape DEF AcquireNext
  <2>1. Good(f) /\ f.pc = "reading" /\ f.beating = FALSE
    <3>1. f.pc = "reading" /\ f.beating = FALSE
      BY DEF FreeSlot
    <3> QED
      BY <3>1, FreeGood
  <2>2. SetExec(w, s, f) /\ loop[w].pc = "acquiring"
    BY <1>4 DEF AcquireNext, ClaimStmt
  <2> HIDE DEF f
  <2>3. SlotBecomes(w, exec[w][s], f)
    BY <2>0, <2>1, <2>2 DEF SlotBecomes
  <2>4. SlotsStep
    BY <2>2, <2>3, SlotShape
  <2> QED
    BY <1>4, <2>0, <2>4, Unchanged DEF AcquireNext, StepShape, Engine
<1>5. CASE SweepSelect(w)
  <2> DEFINE seenOf(j) ==
               [remoteJobId |-> jobs[j].remoteJobId,
                consecutiveFailureCount |-> jobs[j].consecutiveFailureCount]
             stale(now) == {j \in Job : Stale(jobs[j], now)}
             seen(now) == [j \in Job |-> IF j \in stale(now) THEN seenOf(j)
                                         ELSE NothingSeen]
             new(now) == [pc |-> "sweeping", now |-> now, rows |-> stale(now),
                          seen |-> seen(now)]
  <2>1. PICK now \in Now : loop' = [loop EXCEPT ![w] = new(now)]
    BY <1>5, Zenon DEF SweepSelect
  <2>2. now \in Nat /\ now <= clock
    BY DEF Now, TypeOK
  <2>3. NothingSeen \in Seen /\ \A j \in Job : seenOf(j) \in Seen
    <3>1. \A j \in Job : /\ jobs[j].remoteJobId \in RemoteJobId
                         /\ jobs[j].consecutiveFailureCount \in Nat
      BY DEF TypeOK, Row
    <3> QED
      BY <3>1, Literals, Zenon DEF NothingSeen, Seen
  <2>4. seen(now) \in [Job -> Seen]
    BY <2>3, Zenon
  <2>5. stale(now) \in SUBSET Job
    BY Zenon
  <2>6. new(now) \in Loop
    <3>1. "sweeping" \in {"idle", "acquiring", "sweeping"}
      OBVIOUS
    <3> HIDE DEF stale, seen
    <3> QED
      BY <2>2, <2>4, <2>5, <3>1, Zenon DEF Loop
  <2>7. LoopBecomes(w, new(now))
    <3>1. /\ new(now).pc = "sweeping" /\ new(now).now = now
          /\ new(now).rows = stale(now) /\ new(now).seen = seen(now)
      BY Zenon
    <3>2. ASSUME NEW j \in stale(now)
          PROVE  /\ seen(now)[j].remoteJobId = jobs[j].remoteJobId
                 /\ seen(now)[j].consecutiveFailureCount
                       = jobs[j].consecutiveFailureCount
      <4>1. seen(now)[j] = seenOf(j)
        BY <2>5, Zenon
      <4> QED
        BY <4>1, Zenon
    <3>3. \A j \in Job \ stale(now) : seen(now)[j] = NothingSeen
      BY Zenon
    <3>4. jobs' = jobs
      BY <1>5 DEF SweepSelect
    <3> HIDE DEF stale, seen, new
    <3> QED
      BY <2>2, <3>1, <3>2, <3>3, <3>4 DEF LoopBecomes
  <2> HIDE DEF new
  <2>8. LoopsStep
    BY <2>1, <2>6, <2>7, LoopShape
  <2> QED
    BY <1>5, <2>8, Unchanged DEF SweepSelect, StepShape, Engine
<1>6. CASE SweepCommit(w)
  <2>1. LoopsStep
    BY <1>6, IdleLoopType, LoopShape DEF SweepCommit, LoopBecomes
  <2>2. JobsStep
    BY <1>6, RecoverShape DEF SweepCommit
  <2> QED
    BY <1>6, <2>1, <2>2, Unchanged DEF SweepCommit, StepShape, Engine
<1> QED
  BY <1>1, <1>2, <1>3, <1>4, <1>5, <1>6 DEF LoopNext

-----------------------------------------------------------------------------
(* The steps of an execution *)

\* e with another place, another time and another state of its heartbeat.
Moved(e, pc, now, beating, beatNow, leaseLost) ==
    [e EXCEPT !.pc = pc, !.now = now, !.beating = beating,
              !.beatNow = beatNow, !.leaseLost = leaseLost]

\* What e must know to go on to pc.
MayGo(e, pc) ==
    \/ pc = e.pc
    \/ /\ pc \notin Handling
       /\ pc \in {"polling", "waiting", "fetching", "downloading",
                  "completing", "remote-failed", "remote-cancelled"}
             => e.remoteJobId = "known"
       /\ pc = "recording" => remote[e.job] # "none"
       /\ pc \in {"fetching", "downloading", "completing"}
             => remote[e.job] = "completed"
       /\ pc = "remote-failed" => remote[e.job] = "failed"
       /\ pc = "remote-cancelled" => remote[e.job] = "cancelled"

\* An execution that goes on with the job it has to a place it may go to.
LEMMA OnwardGood ==
    ASSUME TypeOK, NEW e \in Exec, Informed(e), NEW pc \in ExecPc,
           NEW now \in Nat, NEW beating \in BOOLEAN, NEW beatNow \in Nat,
           NEW leaseLost \in BOOLEAN, MayGo(e, pc)
    PROVE  LET f == Moved(e, pc, now, beating, beatNow, leaseLost) IN
           /\ Good(f)
           /\ f.pc = pc /\ f.job = e.job /\ f.remoteJobId = e.remoteJobId
           /\ f.failures = e.failures
           /\ f.beating = beating /\ f.beatNow = beatNow
<1> DEFINE f == Moved(e, pc, now, beating, beatNow, leaseLost)
<1>1. f \in Exec
  BY Zenon DEF Exec, Moved
<1>2. /\ f.pc = pc /\ f.job = e.job /\ f.remoteJobId = e.remoteJobId
      /\ f.failures = e.failures /\ f.code = e.code
      /\ f.beating = beating /\ f.beatNow = beatNow
  BY DEF Exec, Moved
<1> HIDE DEF f
<1>3. Informed(f)
  <2>1. CASE pc = e.pc
    BY <1>2, <2>1 DEF Informed, Learnt
  <2>2. CASE pc # e.pc
    <3>1. pc \notin {"failing", "retrying", "exhausting"}
      BY <2>2 DEF Handling, MayGo
    <3>2. e.remoteJobId = "known" => jobs[e.job].remoteJobId = "known"
      BY DEF Informed, Learnt
    <3> QED
      BY <1>2, <2>2, <3>1, <3>2 DEF Informed, Learnt, MayGo
  <2> QED
    BY <2>1, <2>2
<1> QED
  BY <1>1, <1>2, <1>3 DEF Good, f

\* The end of a call: the slot goes on to next or is cleared, and a renewal
\* under way is left behind.
LEMMA LeaveCallShape ==
    ASSUME TypeOK, AllInformed, NEW w \in Worker, NEW s \in Slot, NEW next,
           Good(next), exec[w][s].pc \in Calls,
           next.pc \notin {"free", "reading"},
           next.job = exec[w][s].job,
           next.remoteJobId = exec[w][s].remoteJobId,
           next.failures = exec[w][s].failures,
           LeaveCall(w, s, next)
    PROVE  SlotsStep /\ OrphansStep
<1> DEFINE e == exec[w][s]
           g == [next EXCEPT !.beating = FALSE, !.beatNow = 0,
                             !.leaseLost = FALSE]
           f == IF e.leaseLost /\ next.pc \notin Handling THEN FreeSlot ELSE g
<1>0. e \in Exec /\ next \in Exec /\ Informed(next)
  BY DEF TypeOK, Good
<1>1. e.pc \notin {"free", "reading"}
  BY DEF Calls
<1>2. /\ Good(g)
      /\ g.pc = next.pc /\ g.job = e.job /\ g.remoteJobId = e.remoteJobId
      /\ g.failures = e.failures /\ g.beating = FALSE
  <2>1. g \in Exec
    BY <1>0, PcLiterals, Zenon DEF Exec
  <2>2. /\ g.pc = next.pc /\ g.job = next.job
        /\ g.remoteJobId = next.remoteJobId
        /\ g.failures = next.failures /\ g.code = next.code
        /\ g.beating = FALSE
    BY <1>0 DEF Exec
  <2> HIDE DEF g
  <2>3. Informed(g)
    BY <1>0, <2>2 DEF Informed, Learnt
  <2> QED
    BY <2>1, <2>2, <2>3 DEF Good
<1>3. SetExec(w, s, f)
  BY DEF LeaveCall
<1>4. SlotBecomes(w, e, f)
  <2>1. CASE f = FreeSlot
    <3>1. FreeSlot.beating = FALSE
      BY DEF FreeSlot
    <3> QED
      BY <2>1, <3>1, FreeGood DEF SlotBecomes
  <2>2. CASE f = g
    <3> HIDE DEF f, g, e
    <3> QED
      BY <1>1, <1>2, <2>2 DEF SlotBecomes
  <2> QED
    BY <2>1, <2>2
<1> HIDE DEF f
<1>5. SlotsStep
  BY <1>3, <1>4, SlotShape
<1>6. OrphansStep
  <2>1. CASE ~e.beating
    BY <2>1, Unchanged DEF LeaveCall
  <2>2. CASE e.beating
    <3> DEFINE o == [job |-> e.job, now |-> e.beatNow]
    <3>1. o \in Orphan /\ o.now = e.beatNow
      BY <1>0 DEF Exec, Orphan
    <3>2. orphans' = [orphans EXCEPT ![w] = orphans[w] \union {o}]
      BY <2>2 DEF LeaveCall
    <3> HIDE DEF o
    <3>3. orphans' \in [Worker -> SUBSET Orphan]
      BY <3>1, <3>2 DEF TypeOK
    <3>4. ASSUME NEW v \in Worker, NEW p \in orphans'[v]
          PROVE  \/ p \in orphans[v]
                 \/ \E t \in Slot :
                       exec[v][t].beating /\ exec[v][t].beatNow = p.now
      <4>1. p \in orphans[v] \/ (v = w /\ p = o)
        BY <3>2 DEF TypeOK
      <4> QED
        BY <2>2, <3>1, <4>1
    <3> QED
      BY <3>3, <3>4 DEF OrphansStep
  <2> QED
    BY <2>1, <2>2
<1> QED
  BY <1>5, <1>6

\* setStage's statement.
LEMMA StageShape ==
    ASSUME TypeOK, NEW w \in Worker, NEW e \in Exec, StageStmt(w, e)
    PROVE  JobsStep
<1>0. e.job \in Job
  BY DEF Exec
<1>1. CASE Held(jobs[e.job], w)
  <2>1. StageFor(e) \in PublishJobStage
    BY Literals DEF StageFor
  <2>2. Staged(jobs[e.job], StageFor(e)) \in Row
    BY <1>0, <2>1, RowTypes DEF TypeOK
  <2>3. RowBecomes(e.job, Staged(jobs[e.job], StageFor(e)))
    BY <1>1, <2>1 DEF RowBecomes, Held
  <2> QED
    BY <1>0, <1>1, <2>2, <2>3, WriteShape DEF StageStmt
<1>2. CASE ~Held(jobs[e.job], w)
  <2>1. jobs' = jobs
    BY <1>2 DEF StageStmt
  <2> QED
    BY <2>1 DEF TypeOK, JobsStep, RowBecomes
<1> QED
  BY <1>1, <1>2

\* A renewal's statement.
LEMMA RenewShape ==
    ASSUME TypeOK, NEW w \in Worker, NEW j \in Job, NEW now \in Nat,
           RenewalTime(now), RenewStmt(w, j, now)
    PROVE  JobsStep
<1>1. CASE Owned(jobs[j], w, now)
  <2>1. Renewed(jobs[j], now) \in Row
    BY RowTypes DEF TypeOK
  <2>2. RowBecomes(j, Renewed(jobs[j], now))
    BY <1>1 DEF RowBecomes, Owned, Held
  <2> QED
    BY <1>1, <2>1, <2>2, WriteShape DEF RenewStmt
<1>2. CASE ~Owned(jobs[j], w, now)
  <2>1. jobs' = jobs
    BY <1>2 DEF RenewStmt
  <2> QED
    BY <2>1 DEF TypeOK, JobsStep, RowBecomes
<1> QED
  BY <1>1, <1>2

\* The row an outcome's statement writes.
LEMMA OutcomeType ==
    ASSUME NEW row \in Row, NEW e \in Exec
    PROVE  Outcome(row, e) \in Row
<1>0. /\ e.now \in Nat /\ e.code \in ErrorCodes /\ e.failures + 1 \in Nat
      /\ e.now + calculateRetryDelayMs(e.failures + 1) \in Nat
  <2>1. e.now \in Nat /\ e.code \in ErrorCodes /\ e.failures \in Nat
    BY DEF Exec
  <2>2. e.failures + 1 \in Nat
    BY <2>1
  <2>3. calculateRetryDelayMs(e.failures + 1) \in Nat
    BY <2>2, RetryDelayType
  <2> QED
    BY <2>1, <2>2, <2>3
<1>1. /\ Submitted(row, e.now) \in Row /\ RemoteWaiting(row, e.now) \in Row
      /\ Completed(row) \in Row /\ Cancelled(row) \in Row
      /\ Failed(row, "PUBLISH_REMOTE_JOB_FAILED") \in Row
      /\ RetryRecorded(row, e.code,
                       e.now + calculateRetryDelayMs(e.failures + 1)) \in Row
      /\ Failed(row, e.code) \in Row
  BY <1>0, Literals, RowTypes
<1> QED
  BY <1>1 DEF Outcome

\* An outcome's statement, of an execution that moves on with it.
LEMMA OutcomeShape ==
    ASSUME TypeOK, NEW w \in Worker, NEW s \in Slot,
           exec[w][s].pc \in Recording \union Handling,
           exec'[w][s].pc # exec[w][s].pc,
           OutcomeStmt(w, exec[w][s])
    PROVE  JobsStep
<1> DEFINE e == exec[w][s]
<1>0. e \in Exec /\ e.job \in Job /\ jobs[e.job] \in Row
  <2>1. e \in Exec
    BY DEF TypeOK
  <2> QED
    BY <2>1 DEF TypeOK, Exec
<1>1. CASE Owned(jobs[e.job], w, e.now)
  <2>1. Outcome(jobs[e.job], e) \in Row
    BY <1>0, OutcomeType
  <2>2. Ends(w, s, e.job, Outcome(jobs[e.job], e))
    BY <1>1 DEF Ends
  <2>3. RowBecomes(e.job, Outcome(jobs[e.job], e))
    BY <2>2 DEF RowBecomes
  <2> QED
    BY <1>0, <1>1, <2>1, <2>3, WriteShape DEF OutcomeStmt
<1>2. CASE ~Owned(jobs[e.job], w, e.now)
  <2>1. jobs' = jobs
    BY <1>2 DEF OutcomeStmt
  <2> QED
    BY <2>1 DEF TypeOK, JobsStep, RowBecomes
<1> QED
  BY <1>1, <1>2

\* A slot that is cleared.
LEMMA ClearShape ==
    ASSUME TypeOK, AllInformed, NEW w \in Worker, NEW s \in Slot,
           SetExec(w, s, FreeSlot)
    PROVE  SlotsStep /\ exec'[w][s].pc = "free"
<1>1. FreeSlot.beating = FALSE
  BY DEF FreeSlot
<1>2. SlotBecomes(w, exec[w][s], FreeSlot)
  BY <1>1, FreeGood DEF SlotBecomes
<1> QED
  BY <1>2, FreeGood, SlotShape

\* A slot that handles a failure.
LEMMA FailureShape ==
    ASSUME TypeOK, AllInformed, NEW w \in Worker, NEW s \in Slot,
           exec[w][s].pc \notin {"free", "reading"},
           SetExec(w, s, HandleFailure(exec[w][s], DatabaseError))
    PROVE  SlotsStep /\ exec'[w][s].pc \in Handling
<1> DEFINE e == exec[w][s]
           h == HandleFailure(e, DatabaseError)
<1>1. e \in Exec /\ Informed(e) /\ DatabaseError \in Failures
  BY FailureCodes DEF TypeOK, AllInformed
<1>2. /\ Good(h) /\ h.pc \in Handling
      /\ h.job = e.job /\ h.remoteJobId = e.remoteJobId
      /\ h.failures = e.failures /\ h.beating = FALSE
  BY <1>1, HandleGood
<1>3. h.pc \notin {"free", "reading"}
  BY <1>2 DEF Handling
<1>4. SetExec(w, s, h)
  OBVIOUS
<1> HIDE DEF h
<1>5. SlotBecomes(w, e, h)
  BY <1>2, <1>3 DEF SlotBecomes
<1>6. SlotsStep /\ exec'[w][s] = h
  BY <1>4, <1>5, SlotShape
<1> QED
  BY <1>2, <1>6

\* A slot that goes on with its job.
LEMMA OnwardShape ==
    ASSUME TypeOK, AllInformed, NEW w \in Worker, NEW s \in Slot, NEW f,
           SetExec(w, s, f), Good(f),
           \/ f.pc = exec[w][s].pc
           \/ /\ exec[w][s].pc \notin {"free", "reading"}
              /\ f.pc \notin {"free", "reading"},
           f.job = exec[w][s].job,
           f.remoteJobId = exec[w][s].remoteJobId,
           f.failures = exec[w][s].failures,
           f.beating => \/ f.beatNow = clock
                        \/ exec[w][s].beating /\ f.beatNow = exec[w][s].beatNow
    PROVE  SlotsStep /\ exec'[w][s] = f
<1>1. SlotBecomes(w, exec[w][s], f)
  BY DEF SlotBecomes
<1> QED
  BY <1>1, SlotShape

\* getById.
LEMMA ReadShape ==
    ASSUME TypeOK, AllInformed, NEW w \in Worker, NEW s \in Slot,
           ReadJob(w, s)
    PROVE  StepShape
<1> DEFINE e == exec[w][s]
           row == jobs[e.job]
           f == [e EXCEPT !.pc = "staging", !.remoteJobId = row.remoteJobId,
                          !.failures = row.consecutiveFailureCount]
<1>0. e \in Exec /\ Informed(e)
  BY DEF TypeOK, AllInformed
<1>1. row.remoteJobId \in RemoteJobId /\ row.consecutiveFailureCount \in Nat
  <2>1. e.job \in Job
    BY <1>0 DEF Exec
  <2> QED
    BY <2>1 DEF TypeOK, Row
<1>2. f \in Exec
  BY <1>0, <1>1, PcLiterals, Zenon DEF Exec
<1>3. /\ f.pc = "staging" /\ f.job = e.job
      /\ f.remoteJobId = row.remoteJobId
      /\ f.failures = row.consecutiveFailureCount
      /\ f.beating = e.beating /\ f.beatNow = e.beatNow
  BY <1>0 DEF Exec
<1>4. e.pc = "reading" /\ (SetExec(w, s, f) \/ SetExec(w, s, FreeSlot))
  BY DEF ReadJob
<1> HIDE DEF f
<1>5. Good(f)
  <2>1. Informed(f)
    BY <1>3 DEF Informed, Learnt
  <2> QED
    BY <1>2, <2>1 DEF Good
<1>6. SlotBecomes(w, e, f)
  <2>1. f.remoteJobId = jobs[f.job].remoteJobId
        /\ f.failures = jobs[f.job].consecutiveFailureCount
    BY <1>3
  <2> QED
    BY <1>3, <1>4, <1>5, <2>1 DEF SlotBecomes
<1>7. SlotsStep
  BY <1>4, <1>6, SlotShape, ClearShape
<1> QED
  BY <1>7, Unchanged DEF ReadJob, StepShape, Engine

\* setStage, and an execution that ends before its try block.
LEMMA StagingShape ==
    ASSUME TypeOK, AllInformed, NEW w \in Worker, NEW s \in Slot,
           SetStage(w, s) \/ ExecuteRejects(w, s)
    PROVE  StepShape
<1> DEFINE e == exec[w][s]
<1>0. e \in Exec /\ Informed(e)
  BY DEF TypeOK, AllInformed
<1>1. CASE SetStage(w, s)
  <2> DEFINE pc == IF e.pc = "fetching" THEN "downloading"
                   ELSE IF e.remoteJobId = "known" THEN "polling"
                   ELSE "submitting"
             f == [e EXCEPT !.pc = pc]
  <2>1. e.pc \in {"staging", "fetching"} /\ StageStmt(w, e) /\ SetExec(w, s, f)
    BY <1>1 DEF SetStage
  <2>2. JobsStep
    BY <1>0, <2>1, StageShape
  <2>3. pc \in {"downloading", "polling", "submitting"}
        /\ (pc = "downloading" => e.pc = "fetching")
        /\ (pc = "polling" => e.remoteJobId = "known")
    OBVIOUS
  <2>4. /\ pc \in ExecPc
        /\ e.now \in Nat /\ e.beating \in BOOLEAN /\ e.beatNow \in Nat
        /\ e.leaseLost \in BOOLEAN
    BY <1>0, <2>3, PcLiterals DEF Exec
  <2> HIDE DEF pc
  <2>5. f = Moved(e, pc, e.now, e.beating, e.beatNow, e.leaseLost)
    BY <1>0 DEF Exec, Moved
  <2>6. pc = "downloading" =>
          e.remoteJobId = "known" /\ remote[e.job] = "completed"
    BY <1>0, <2>3 DEF Informed, Learnt
  <2> HIDE DEF f
  <2>7. /\ Good(f) /\ f.pc = pc /\ f.job = e.job
        /\ f.remoteJobId = e.remoteJobId /\ f.failures = e.failures
        /\ f.beating = e.beating /\ f.beatNow = e.beatNow
    <3>1. MayGo(e, pc)
      BY <2>3, <2>6 DEF Handling, MayGo
    <3> QED
      BY <1>0, <2>4, <2>5, <3>1, OnwardGood
  <2>8. SlotsStep
    BY <2>1, <2>3, <2>7, OnwardShape
  <2> QED
    BY <1>1, <2>2, <2>8, Unchanged DEF SetStage, StepShape, Engine
<1>2. CASE ExecuteRejects(w, s)
  <2>1. JobsStep
    BY <1>0, <1>2, StageShape, Unchanged DEF ExecuteRejects
  <2>2. SlotsStep
    BY <1>2, ClearShape DEF ExecuteRejects
  <2> QED
    BY <1>2, <2>1, <2>2, Unchanged DEF ExecuteRejects, StepShape, Engine
<1> QED
  BY <1>1, <1>2

\* A call that is answered goes on to pc.
LEMMA AnsweredShape ==
    ASSUME TypeOK, AllInformed, NEW w \in Worker, NEW s \in Slot,
           exec[w][s].pc \in Calls,
           NEW pc \in {"recording", "waiting", "remote-failed",
                       "remote-cancelled", "completing", "fetching"},
           pc # "recording" => exec[w][s].remoteJobId = "known",
           pc = "recording" => remote[exec[w][s].job] # "none",
           pc \in {"fetching", "completing"}
              => remote[exec[w][s].job] = "completed",
           pc = "remote-failed" => remote[exec[w][s].job] = "failed",
           pc = "remote-cancelled" => remote[exec[w][s].job] = "cancelled",
           LeaveCall(w, s, Goto(exec[w][s], pc))
    PROVE  SlotsStep /\ OrphansStep
<1> DEFINE e == exec[w][s]
           now == IF pc = "fetching" THEN 0 ELSE clock
           f == Goto(e, pc)
<1>0. e \in Exec /\ Informed(e)
  BY DEF TypeOK, AllInformed
<1>1. /\ pc \in ExecPc /\ now \in Nat
      /\ e.beating \in BOOLEAN /\ e.beatNow \in Nat
      /\ e.leaseLost \in BOOLEAN
  BY <1>0, PcLiterals DEF Exec, TypeOK
<1>2. f = [e EXCEPT !.pc = pc, !.now = now]
  BY DEF Goto
<1> HIDE DEF now, f
<1>3. f = Moved(e, pc, now, e.beating, e.beatNow, e.leaseLost)
  BY <1>0, <1>2 DEF Exec, Moved
<1>4. MayGo(e, pc) /\ pc \notin {"free", "reading"}
  BY DEF Handling, MayGo
<1>5. /\ Good(f) /\ f.pc = pc /\ f.job = e.job
      /\ f.remoteJobId = e.remoteJobId /\ f.failures = e.failures
  <2> HIDE DEF e
  <2>1. Good(Moved(e, pc, now, e.beating, e.beatNow, e.leaseLost))
    BY <1>0, <1>1, <1>4, OnwardGood
  <2>2. /\ f.pc = pc /\ f.job = e.job
        /\ f.remoteJobId = e.remoteJobId /\ f.failures = e.failures
    BY <1>3 DEF Moved
  <2> QED
    BY <1>3, <2>1, <2>2
<1>6. LeaveCall(w, s, f)
  BY DEF f
<1> QED
  BY <1>4, <1>5, <1>6, LeaveCallShape

\* The answers and the errors of the remote calls.
LEMMA CallShape ==
    ASSUME TypeOK, AllInformed, NEW w \in Worker, NEW s \in Slot,
           \/ SubmitAnswered(w, s) \/ PollAnswered(w, s)
           \/ DownloadAnswered(w, s)
           \/ \E failure \in Failures : CallThrows(w, s, failure)
    PROVE  StepShape
<1> DEFINE e == exec[w][s]
<1>0. e \in Exec /\ Informed(e) /\ e.job \in Job
  BY DEF TypeOK, AllInformed, Exec
<1>1. CASE SubmitAnswered(w, s)
  <2>1. /\ e.pc \in Calls /\ remote[e.job] # "none"
        /\ LeaveCall(w, s, Goto(e, "recording"))
    BY <1>1 DEF SubmitAnswered, Calls
  <2>2. SlotsStep /\ OrphansStep
    BY <2>1, AnsweredShape
  <2> QED
    BY <1>1, <2>2, Unchanged DEF SubmitAnswered, StepShape, Engine
<1>2. CASE PollAnswered(w, s)
  <2> DEFINE pc == CASE remote[e.job] = "running" -> "waiting"
                     [] remote[e.job] = "failed" -> "remote-failed"
                     [] remote[e.job] = "cancelled" -> "remote-cancelled"
                     [] OTHER -> "fetching"
  <2>1. /\ e.pc = "polling" /\ e.pc \in Calls /\ remote[e.job] # "none"
        /\ LeaveCall(w, s, Goto(e, pc))
    BY <1>2 DEF PollAnswered, Calls
  <2>2. e.remoteJobId = "known"
    BY <1>0, <2>1 DEF Informed, Learnt
  <2>3. remote[e.job] \in {"running", "completed", "failed", "cancelled"}
    BY <1>0, <2>1 DEF TypeOK, RemoteState
  <2>4. /\ pc \in {"waiting", "remote-failed", "remote-cancelled", "fetching"}
        /\ pc = "fetching" => remote[e.job] = "completed"
        /\ pc = "remote-failed" => remote[e.job] = "failed"
        /\ pc = "remote-cancelled" => remote[e.job] = "cancelled"
    BY <2>3
  <2> HIDE DEF pc
  <2>5. SlotsStep /\ OrphansStep
    BY <2>1, <2>2, <2>4, AnsweredShape
  <2> QED
    BY <1>2, <2>5, Unchanged DEF PollAnswered, StepShape, Engine
<1>3. CASE DownloadAnswered(w, s)
  <2>1. /\ e.pc = "downloading" /\ e.pc \in Calls
        /\ LeaveCall(w, s, Goto(e, "completing"))
    BY <1>3 DEF DownloadAnswered, Calls
  <2>2. e.remoteJobId = "known" /\ remote[e.job] = "completed"
    BY <1>0, <2>1 DEF Informed, Learnt
  <2>3. SlotsStep /\ OrphansStep
    BY <2>1, <2>2, AnsweredShape
  <2> QED
    BY <1>3, <2>3, Unchanged DEF DownloadAnswered, StepShape, Engine
<1>4. ASSUME NEW failure \in Failures, CallThrows(w, s, failure)
      PROVE  StepShape
  <2> DEFINE h == HandleFailure(e, failure)
  <2>1. e.pc \in Calls /\ LeaveCall(w, s, h)
    BY <1>4 DEF CallThrows
  <2>2. /\ Good(h) /\ h.pc \in Handling
        /\ h.job = e.job /\ h.remoteJobId = e.remoteJobId
        /\ h.failures = e.failures
    BY <1>0, HandleGood
  <2>3. h.pc \notin {"free", "reading"}
    BY <2>2 DEF Handling
  <2> HIDE DEF h
  <2>4. SlotsStep /\ OrphansStep
    BY <2>1, <2>2, <2>3, LeaveCallShape
  <2> QED
    BY <1>4, <2>4, Unchanged DEF CallThrows, StepShape, Engine
<1> QED
  BY <1>1, <1>2, <1>3, <1>4

\* The heartbeat and the submission's request.
LEMMA HeartbeatShape ==
    ASSUME TypeOK, AllInformed, NEW w \in Worker, NEW s \in Slot,
           StartHeartbeat(w, s) \/ RenewLease(w, s) \/ SubmitSend(w, s)
    PROVE  StepShape
<1> DEFINE e == exec[w][s]
<1>0. /\ e \in Exec /\ Informed(e) /\ e.job \in Job
      /\ e.now \in Nat /\ e.pc \in ExecPc /\ e.leaseLost \in BOOLEAN
      /\ e.beatNow \in Nat /\ clock \in Nat /\ 0 \in Nat
      /\ MayGo(e, e.pc)
  BY DEF TypeOK, AllInformed, Exec, MayGo
<1>1. CASE StartHeartbeat(w, s)
  <2> DEFINE f == [e EXCEPT !.beating = TRUE, !.beatNow = clock]
  <2>0. PICK yes \in BOOLEAN : yes = TRUE
    OBVIOUS
  <2>1. f = Moved(e, e.pc, e.now, yes, clock, e.leaseLost)
    BY <1>0, <2>0 DEF Exec, Moved
  <2>2. e.pc \notin {"free", "reading"} /\ SetExec(w, s, f)
    BY <1>1 DEF StartHeartbeat, Calls
  <2> HIDE DEF f
  <2>3. /\ Good(f) /\ f.pc = e.pc /\ f.job = e.job
        /\ f.remoteJobId = e.remoteJobId /\ f.failures = e.failures
        /\ f.beatNow = clock
    BY <1>0, <2>1, OnwardGood
  <2>4. SlotsStep
    BY <2>2, <2>3, OnwardShape
  <2> QED
    BY <1>1, <2>4, Unchanged DEF StartHeartbeat, StepShape, Engine
<1>2. CASE RenewLease(w, s)
  <2> DEFINE lost == ~Owned(jobs[e.job], w, e.beatNow)
             f == [e EXCEPT !.beating = FALSE, !.beatNow = 0,
                            !.leaseLost = lost]
  <2>1. e.beating /\ RenewStmt(w, e.job, e.beatNow) /\ SetExec(w, s, f)
    BY <1>2 DEF RenewLease
  <2>2. JobsStep
    <3>1. RenewalTime(e.beatNow)
      BY <2>1 DEF RenewalTime
    <3> QED
      BY <1>0, <2>1, <3>1, RenewShape
  <2>3. lost \in BOOLEAN
    OBVIOUS
  <2> HIDE DEF lost
  <2>0. PICK no \in BOOLEAN : no = FALSE
    OBVIOUS
  <2>4. f = Moved(e, e.pc, e.now, no, 0, lost)
    BY <1>0, <2>0 DEF Exec, Moved
  <2> HIDE DEF f
  <2>5. /\ Good(f) /\ f.pc = e.pc /\ f.job = e.job
        /\ f.remoteJobId = e.remoteJobId /\ f.failures = e.failures
        /\ f.beating = FALSE
    BY <1>0, <2>0, <2>3, <2>4, OnwardGood
  <2>6. SlotsStep
    BY <2>1, <2>5, OnwardShape
  <2> QED
    BY <1>2, <2>2, <2>6, Unchanged DEF RenewLease, StepShape, Engine
<1>3. CASE SubmitSend(w, s)
  <2>1. EngineStep
    BY <1>0, <1>3 DEF SubmitSend, EngineStep, TypeOK
  <2> QED
    BY <1>3, <2>1, Unchanged DEF SubmitSend, StepShape
<1> QED
  BY <1>1, <1>2, <1>3

\* The statements that end an execution, and their events.
LEMMA EndShape ==
    ASSUME TypeOK, AllInformed, NEW w \in Worker, NEW s \in Slot,
           \/ Record(w, s) \/ RecordThrows(w, s) \/ LogEvent(w, s)
           \/ LogThrows(w, s) \/ Handle(w, s)
    PROVE  StepShape
<1> DEFINE e == exec[w][s]
<1>0. /\ e \in Exec /\ Informed(e) /\ e.job \in Job
      /\ e.beating \in BOOLEAN /\ e.leaseLost \in BOOLEAN
      /\ e.beatNow \in Nat /\ 0 \in Nat
  BY DEF TypeOK, AllInformed, Exec
<1>1. CASE Record(w, s)
  <2> DEFINE f == [e EXCEPT !.pc = "logging", !.now = 0]
  <2>1. /\ e.pc \in Recording /\ OutcomeStmt(w, e)
        /\ SetExec(w, s, f) \/ SetExec(w, s, FreeSlot)
    BY <1>1 DEF Record
  <2>2. f = Moved(e, "logging", 0, e.beating, e.beatNow, e.leaseLost)
    BY <1>0 DEF Exec, Moved
  <2> HIDE DEF f
  <2>3. MayGo(e, "logging") /\ "logging" \in ExecPc
    BY PcLiterals DEF MayGo, Handling
  <2>4. /\ Good(f) /\ f.pc = "logging" /\ f.job = e.job
        /\ f.remoteJobId = e.remoteJobId /\ f.failures = e.failures
        /\ f.beating = e.beating /\ f.beatNow = e.beatNow
    BY <1>0, <2>2, <2>3, OnwardGood
  <2>5. e.pc \notin {"free", "reading", "logging"}
    BY <2>1 DEF Recording
  <2>6. SlotsStep /\ exec'[w][s].pc \in {"logging", "free"}
    <3>1. CASE SetExec(w, s, f)
      <4>1. SlotsStep /\ exec'[w][s] = f
        BY <2>4, <2>5, <3>1, OnwardShape
      <4> QED
        BY <2>4, <4>1
    <3>2. CASE SetExec(w, s, FreeSlot)
      BY <3>2, ClearShape
    <3> QED
      BY <2>1, <3>1, <3>2
  <2>7. JobsStep
    <3>1. exec'[w][s].pc # e.pc
      BY <2>5, <2>6
    <3> QED
      BY <2>1, <3>1, OutcomeShape
  <2> QED
    BY <1>1, <2>6, <2>7, Unchanged DEF Record, StepShape, Engine
<1>2. CASE RecordThrows(w, s)
  <2>1. /\ e.pc \in Recording \/ e.pc = "fetching"
        /\ SetExec(w, s, HandleFailure(e, DatabaseError))
    BY <1>2 DEF RecordThrows
  <2>2. e.pc \notin {"free", "reading"} /\ e.pc \notin Handling
    BY <2>1 DEF Recording, Handling
  <2>3. SlotsStep /\ exec'[w][s].pc \in Handling
    BY <2>1, <2>2, FailureShape
  <2>4. exec'[w][s].pc # e.pc
    BY <2>2, <2>3
  <2>5. JobsStep
    <3>1. CASE jobs' = jobs
      BY <3>1, Unchanged
    <3>2. CASE e.pc \in Recording /\ OutcomeStmt(w, e)
      BY <2>4, <3>2, OutcomeShape
    <3>3. CASE StageStmt(w, e)
      BY <1>0, <3>3, StageShape
    <3> QED
      BY <1>2, <3>1, <3>2, <3>3 DEF RecordThrows
  <2> QED
    BY <1>2, <2>3, <2>5, Unchanged DEF RecordThrows, StepShape, Engine
<1>3. CASE LogEvent(w, s)
  <2>1. SlotsStep
    BY <1>3, ClearShape DEF LogEvent
  <2> QED
    BY <1>3, <2>1, Unchanged DEF LogEvent, StepShape, Engine
<1>4. CASE LogThrows(w, s)
  <2>1. SlotsStep
    BY <1>4, FailureShape DEF LogThrows
  <2> QED
    BY <1>4, <2>1, Unchanged DEF LogThrows, StepShape, Engine
<1>5. CASE Handle(w, s)
  <2>1. SlotsStep /\ exec'[w][s].pc = "free" /\ e.pc \in Handling
    BY <1>5, ClearShape DEF Handle
  <2>2. exec'[w][s].pc # e.pc
    BY <2>1 DEF Handling
  <2>3. JobsStep
    <3>1. CASE jobs' = jobs
      BY <3>1, Unchanged
    <3>2. CASE OutcomeStmt(w, e)
      BY <2>1, <2>2, <3>2, OutcomeShape
    <3> QED
      BY <1>5, <3>1, <3>2 DEF Handle
  <2> QED
    BY <1>5, <2>1, <2>3, Unchanged DEF Handle, StepShape, Engine
<1> QED
  BY <1>1, <1>2, <1>3, <1>4, <1>5

\* Every step has this shape.
LEMMA NextShape ==
    ASSUME TypeOK, AllInformed, [Next]_vars
    PROVE  StepShape
<1>1. CASE vars' = vars
  BY <1>1, Unchanged DEF vars, StepShape
<1>2. CASE Tick
  <2>1. ClockStep
    BY <1>2 DEF Tick, ClockStep
  <2> QED
    BY <1>2, <2>1, Unchanged DEF Tick, StepShape, Engine
<1>3. ASSUME NEW w \in Worker, NEW o \in orphans[w], LateRenewal(w, o)
      PROVE  StepShape
  <2>1. o.job \in Job /\ o.now \in Nat
    <3>1. o \in Orphan
      BY DEF TypeOK
    <3> QED
      BY <3>1 DEF Orphan
  <2>2. RenewalTime(o.now)
    BY DEF RenewalTime
  <2>3. JobsStep
    BY <1>3, <2>1, <2>2, RenewShape DEF LateRenewal
  <2>4. OrphansStep
    BY <1>3 DEF LateRenewal, OrphansStep, TypeOK
  <2> QED
    BY <1>3, <2>3, <2>4, Unchanged DEF LateRenewal, StepShape, Engine
<1>4. ASSUME NEW w \in Worker, NEW s \in Slot, ExecNext(w, s)
      PROVE  StepShape
  BY <1>4, ReadShape, StagingShape, CallShape, HeartbeatShape, EndShape
     DEF ExecNext
<1>5. ASSUME NEW w \in Worker, WorkerNext(w) PROVE StepShape
  BY <1>3, <1>4, <1>5, LoopNextShape DEF WorkerNext
<1> QED
  BY <1>1, <1>2, <1>5, ApiShape, EngineShape, ProcShape DEF Next

-----------------------------------------------------------------------------
(* The rows *)

\* What a row shows by itself and of the engine: the parts of NoStrandedJob,
\* OutcomeTruthful and StageAgrees, and that no row is before it is inserted.
Sound(row, state) ==
    /\ row.status = "processing" <=> row.leaseOwner # NoWorker
    /\ row.status = "processing" <=> row.leaseExpiresAt # NoTime
    /\ row.status = "retrying" => row.nextAttemptAt # NoTime
    /\ row.status = "waiting" => row.nextPollAt # NoTime
    /\ row.status = "waiting" => row.remoteJobId = "known"
    /\ row.remoteJobId = "known" => state # "none"
    /\ row.status = "completed"
           => row.remoteJobId = "known" /\ state = "completed"
    /\ row.errorCode = "PUBLISH_REMOTE_JOB_FAILED" => state = "failed"
    /\ row.status = "waiting" => row.stage = "waiting-for-remote"
    /\ row.status \in {"completed", "cancelled"} => row.stage = row.status
    /\ row.status \in {"failed", "retrying"} => row.stage = "failed"
    /\ row.status = Absent
           => row.remoteJobId = "none" /\ row.consecutiveFailureCount = 0

AllSound == \A j \in Job : Sound(jobs[j], remote[j])

\* The time a loop has sampled is past, and a remote id that a sweep has seen
\* is still there.
LoopsTrue ==
    \A w \in Worker :
        /\ loop[w].now <= clock
        /\ \A j \in Job : loop[w].seen[j].remoteJobId = "known"
                              => jobs[j].remoteJobId = "known"

\* What the transition policy asks of the change of a row.
RowPolicy(row, new) ==
    /\ row.status \in Terminal => new = row
    /\ row.remoteJobId = "known" => new.remoteJobId = "known"
    /\ new.status # row.status =>
          \/ row.status = Absent /\ new.status = "queued"
          \/ isPublishJobTransitionAllowed(row.status, new.status)

\* The transitions of the policy that the statements make.
LEMMA Allowed ==
    /\ \A status \in {"queued", "waiting", "retrying"} :
          /\ isPublishJobTransitionAllowed(status, "processing")
          /\ isPublishJobTransitionAllowed(status, "cancelled")
    /\ \A status \in {"waiting", "retrying", "completed", "failed",
                      "cancelled"} :
          isPublishJobTransitionAllowed("processing", status)
BY DEF isPublishJobTransitionAllowed, transitionPolicy, PublishJobStatus

\* The statement that ends an execution leaves a row that is sound.
LEMMA OutcomeSound ==
    ASSUME NEW row \in Row, NEW e \in Exec, NEW w \in Worker, NEW state,
           Sound(row, state), Owned(row, w, e.now),
           e.pc \in Recording \union Handling,
           e.pc = "recording" => state # "none",
           e.pc = "completing" => state = "completed",
           e.pc = "remote-failed" => state = "failed",
           e.pc \in {"waiting", "completing"} => row.remoteJobId = "known",
           e.pc \in {"failing", "retrying"}
              => e.code \in {"call-error", "PUBLISH_REMOTE_JOB_CANCELLED"},
           e.pc = "exhausting" => e.code = "PUBLISH_JOB_RETRY_EXHAUSTED"
    PROVE  /\ Sound(Outcome(row, e), state)
           /\ RowPolicy(row, Outcome(row, e))
           /\ Outcome(row, e).status # "processing"
<1> DEFINE new == Outcome(row, e)
<1>0. /\ row.status = "processing"
      /\ e.now \in Nat /\ e.code \in ErrorCodes
      /\ e.now + PollInterval # NoTime
  BY DEF Owned, Held, Exec, NoTime
<1>1. CASE e.pc = "recording"
  <2>1. new = Submitted(row, e.now)
    BY <1>1 DEF Outcome
  <2> HIDE DEF new
  <2> QED
    BY <1>0, <1>1, <2>1, SubmittedFields, Allowed
       DEF Sound, RowPolicy, Terminal, Absent, new
<1>2. CASE e.pc = "waiting"
  <2>1. new = RemoteWaiting(row, e.now)
    BY <1>2 DEF Outcome
  <2> HIDE DEF new
  <2> QED
    BY <1>0, <1>2, <2>1, RemoteWaitingFields, Allowed
       DEF Sound, RowPolicy, Terminal, Absent, new
<1>3. CASE e.pc = "completing"
  <2>1. new = Completed(row)
    BY <1>3 DEF Outcome
  <2> HIDE DEF new
  <2> QED
    BY <1>0, <1>3, <2>1, CompletedFields, Allowed
       DEF Sound, RowPolicy, Terminal, Absent, new
<1>4. CASE e.pc = "remote-failed"
  <2>1. new = Failed(row, "PUBLISH_REMOTE_JOB_FAILED")
    BY <1>4 DEF Outcome
  <2>2. "PUBLISH_REMOTE_JOB_FAILED" \in ErrorCodes
    BY Literals
  <2> HIDE DEF new
  <2> QED
    BY <1>0, <1>4, <2>1, <2>2, FailedFields, Allowed
       DEF Sound, RowPolicy, Terminal, Absent, new
<1>5. CASE e.pc = "remote-cancelled"
  <2>1. new = Cancelled(row)
    BY <1>5 DEF Outcome
  <2> HIDE DEF new
  <2> QED
    BY <1>0, <1>5, <2>1, CancelledFields, Allowed
       DEF Sound, RowPolicy, Terminal, Absent, new
<1>6. CASE e.pc = "retrying"
  <2>1. PICK next \in Nat : new = RetryRecorded(row, e.code, next)
    <3>1. e.failures + 1 \in Nat
      BY DEF Exec
    <3>2. calculateRetryDelayMs(e.failures + 1) \in Nat
      BY <3>1, RetryDelayType
    <3>3. e.now + calculateRetryDelayMs(e.failures + 1) \in Nat
      BY <1>0, <3>2
    <3> QED
      BY <1>6, <3>3 DEF Outcome
  <2>2. next # NoTime
    BY DEF NoTime
  <2> HIDE DEF new
  <2> QED
    BY <1>0, <1>6, <2>1, <2>2, RetryRecordedFields, Allowed
       DEF Sound, RowPolicy, Terminal, Absent, new
<1>7. CASE e.pc \in {"failing", "exhausting"}
  <2>1. new = Failed(row, e.code)
    BY <1>7 DEF Outcome
  <2>2. e.code # "PUBLISH_REMOTE_JOB_FAILED"
    BY <1>7
  <2> HIDE DEF new
  <2> QED
    BY <1>0, <1>7, <2>1, <2>2, FailedFields, Allowed
       DEF Sound, RowPolicy, Terminal, Absent, new
<1> QED
  BY <1>1, <1>2, <1>3, <1>4, <1>5, <1>6, <1>7 DEF Recording, Handling

\* However a row changes, it stays sound and follows the policy; and when it
\* is no longer processed before its lease has run out, its holder's execution
\* has ended it.
LEMMA RowSound ==
    ASSUME TypeOK, AllInformed, LoopsTrue, NEW j \in Job,
           Sound(jobs[j], remote[j]), NEW new \in Row, RowBecomes(j, new)
    PROVE  /\ Sound(new, remote[j])
           /\ RowPolicy(jobs[j], new)
           /\ (/\ jobs[j].status = "processing" /\ new.status # "processing"
               /\ exec'[jobs[j].leaseOwner] = exec[jobs[j].leaseOwner])
                  => jobs[j].leaseExpiresAt <= clock
<1> DEFINE row == jobs[j]
           state == remote[j]
           Honoured == (/\ row.status = "processing"
                        /\ new.status # "processing"
                        /\ exec'[row.leaseOwner] = exec[row.leaseOwner])
                           => row.leaseExpiresAt <= clock
<1>0. row \in Row /\ Sound(row, state)
  BY DEF TypeOK
<1> SUFFICES Sound(new, state) /\ RowPolicy(row, new) /\ Honoured
  OBVIOUS
<1> HIDE DEF state
<1>1. CASE new = row
  BY <1>0, <1>1 DEF RowPolicy
<1>2. ASSUME row.status = Absent, NEW now \in Nat, new = Inserted(now)
      PROVE  Sound(new, state) /\ RowPolicy(row, new) /\ Honoured
  BY <1>0, <1>2, InsertedFields DEF Sound, RowPolicy, Terminal, Absent
<1>3. CASE Cancellable(row) /\ new = Cancelled(row)
  <2>1. row.status \in {"queued", "waiting", "retrying"}
    BY <1>3 DEF Cancellable
  <2>2. RowPolicy(row, new)
    BY <1>0, <1>3, <2>1, CancelledFields, Allowed DEF RowPolicy, Terminal
  <2> QED
    BY <1>0, <1>3, <2>1, <2>2, CancelledFields DEF Sound, Absent
<1>4. ASSUME NEW w \in Worker, Claims(w, row, new)
      PROVE  Sound(new, state) /\ RowPolicy(row, new) /\ Honoured
  <2>1. row.status \in {"queued", "waiting", "retrying"}
    BY <1>4 DEF Claims, Due
  <2>2. PICK now \in Nat : new = Claimed(row, w, now)
    BY <1>4 DEF Claims, TypeOK, Loop
  <2>3. now + LeaseDuration # NoTime /\ w # NoWorker
    BY DEF NoTime
  <2>4. RowPolicy(row, new)
    BY <1>0, <2>1, <2>2, ClaimedFields, Allowed DEF RowPolicy, Terminal
  <2> QED
    BY <1>0, <2>1, <2>2, <2>3, <2>4, ClaimedFields DEF Sound, Absent
<1>5. ASSUME row.status = "processing", NEW now \in Nat,
             new = Renewed(row, now)
      PROVE  Sound(new, state) /\ RowPolicy(row, new) /\ Honoured
  <2>1. now + LeaseDuration # NoTime
    BY DEF NoTime
  <2> QED
    BY <1>0, <1>5, <2>1, RenewedFields
       DEF Sound, RowPolicy, Terminal, Absent
<1>6. ASSUME row.status = "processing", NEW stage \in PublishJobStage,
             new = Staged(row, stage)
      PROVE  Sound(new, state) /\ RowPolicy(row, new) /\ Honoured
  BY <1>0, <1>6, StagedFields DEF Sound, RowPolicy, Terminal, Absent
<1>7. ASSUME NEW w \in Worker, NEW s \in Slot, Ends(w, s, j, new)
      PROVE  Sound(new, state) /\ RowPolicy(row, new) /\ Honoured
  <2> DEFINE e == exec[w][s]
  <2>1. /\ e \in Exec /\ Informed(e)
        /\ e.pc \in Recording \union Handling /\ e.job = j
        /\ Owned(row, w, e.now)
        /\ new = Outcome(row, e)
        /\ exec'[w][s].pc # e.pc
    BY <1>7 DEF Ends, TypeOK, AllInformed
  <2>2. /\ e.pc = "recording" => state # "none"
        /\ e.pc = "completing" => state = "completed"
        /\ e.pc = "remote-failed" => state = "failed"
        /\ e.pc \in {"waiting", "completing"} => row.remoteJobId = "known"
        /\ e.pc \in {"failing", "retrying"}
              => e.code \in {"call-error", "PUBLISH_REMOTE_JOB_CANCELLED"}
        /\ e.pc = "exhausting" => e.code = "PUBLISH_JOB_RETRY_EXHAUSTED"
    BY <2>1 DEF Informed, Learnt, state
  <2>3. Sound(new, state) /\ RowPolicy(row, new)
    BY <1>0, <2>1, <2>2, OutcomeSound
  <2>4. row.leaseOwner = w /\ exec'[w] # exec[w]
    BY <2>1 DEF Owned, Held
  <2> QED
    BY <2>3, <2>4
<1>8. ASSUME NEW w \in Worker, Sweeps(w, j, new)
      PROVE  Sound(new, state) /\ RowPolicy(row, new) /\ Honoured
  <2> DEFINE l == loop[w]
             seen == l.seen[j]
             exhausted ==
               seen.consecutiveFailureCount + 1 >= MaxConsecutiveFailures
             next == l.now + calculateRetryDelayMs(1)
  <2>1. /\ Stale(row, l.now)
        /\ new = Recovered(row, seen, exhausted, next)
    BY <1>8, Zenon DEF Sweeps
  <2>2. seen \in Seen /\ l.now \in Nat /\ l.now <= clock
        /\ (seen.remoteJobId = "known" => row.remoteJobId = "known")
    BY DEF TypeOK, Loop, LoopsTrue
  <2>3. next \in Nat /\ next # NoTime
    <3>1. calculateRetryDelayMs(1) \in Nat
      BY RetryDelayType
    <3> QED
      BY <2>2, <3>1 DEF NoTime
  <2>4. exhausted \in BOOLEAN
    OBVIOUS
  <2>5. row.status = "processing" /\ row.leaseExpiresAt <= clock
    BY <1>0, <2>1, <2>2 DEF Stale, Reached, Row, Time, NoTime, TypeOK
  <2> HIDE DEF seen, exhausted, next
  <2>6. /\ new.remoteJobId = row.remoteJobId
        /\ new.leaseOwner = NoWorker /\ new.leaseExpiresAt = NoTime
        /\ \/ /\ new.status = "failed" /\ new.stage = "failed"
              /\ new.errorCode = "PUBLISH_JOB_RETRY_EXHAUSTED"
           \/ /\ seen.remoteJobId = "known"
              /\ new.status = "waiting" /\ new.stage = "waiting-for-remote"
              /\ new.nextPollAt = next
              /\ new.errorCode = "PUBLISH_JOB_LEASE_MISMATCH"
           \/ /\ new.status = "retrying" /\ new.stage = "failed"
              /\ new.nextAttemptAt = next
              /\ new.errorCode = "PUBLISH_JOB_LEASE_MISMATCH"
    BY <1>0, <2>1, <2>2, <2>3, <2>4, RecoveredFields
  <2>7. RowPolicy(row, new)
    BY <2>5, <2>6, Allowed DEF RowPolicy, Terminal
  <2> QED
    BY <1>0, <2>2, <2>3, <2>5, <2>6, <2>7 DEF Sound, Absent
<1> QED
  BY <1>1, <1>2, <1>3, <1>4, <1>5, <1>6, <1>7, <1>8 DEF RowBecomes

\* The engine's moves keep sound rows sound, and what an execution has learnt
\* true.
LEMMA EngineKeeps ==
    ASSUME NEW row \in Row, NEW state, NEW later, Sound(row, state),
           \/ later = state
           \/ state = "none" /\ later = "running"
           \/ state = "running" /\ later \in {"completed", "failed", "cancelled"}
    PROVE  Sound(row, later)
BY DEF Sound

\* What an execution has learnt stays true.
LEMMA LearntStays ==
    ASSUME TypeOK, NEW e \in Exec, Informed(e), JobsStep, EngineStep,
           \A j \in Job : jobs[j].remoteJobId = "known"
                              => jobs'[j].remoteJobId = "known"
    PROVE  Learnt(e, jobs', remote')
<1>1. e.job \in Job
  BY DEF Exec
<1>2. \/ remote'[e.job] = remote[e.job]
      \/ remote[e.job] = "none" /\ remote'[e.job] = "running"
      \/ /\ remote[e.job] = "running"
         /\ remote'[e.job] \in {"completed", "failed", "cancelled"}
  BY <1>1 DEF EngineStep
<1> QED
  BY <1>1, <1>2 DEF Informed, Learnt

-----------------------------------------------------------------------------
(* The invariant *)

\* The inductive invariant.
PublishInv == TypeOK /\ AllInformed /\ AllSound /\ LoopsTrue

\* The invariant holds at first.
LEMMA InitInv ==
    ASSUME Init
    PROVE  PublishInv
<1>1. TypeOK
  <2>1. NoRow \in Row
    BY Literals, Zenon DEF NoRow, Row
  <2>2. FreeSlot \in Exec
    BY FreeGood DEF Good
  <2> QED
    BY <2>1, <2>2, IdleLoopType DEF Init, TypeOK, RemoteState, ProcState
<1>2. AllInformed
  BY FreeGood DEF Init, AllInformed, Good
<1>3. AllSound
  BY DEF Init, AllSound, Sound, NoRow, Absent
<1>4. LoopsTrue
  BY DEF Init, LoopsTrue, IdleLoop, NothingSeen
<1> QED
  BY <1>1, <1>2, <1>3, <1>4 DEF PublishInv

\* Every step preserves it, follows the transition policy and honours leases.
LEMMA StepInv ==
    ASSUME PublishInv, [Next]_vars
    PROVE  StepShape /\ PublishInv' /\ PolicyStep /\ LeaseStep
<1> USE DEF PublishInv
<1>1. StepShape
  BY NextShape
<1>2. TypeOK'
  <2>1. clock' \in Nat
    BY <1>1 DEF StepShape, ClockStep, TypeOK
  <2> QED
    BY <1>1, <2>1
       DEF StepShape, JobsStep, EngineStep, SlotsStep, LoopsStep, OrphansStep,
           TypeOK
<1>3. ASSUME NEW j \in Job
      PROVE  /\ Sound(jobs'[j], remote[j])
             /\ RowPolicy(jobs[j], jobs'[j])
             /\ (/\ jobs[j].status = "processing"
                 /\ jobs'[j].status # "processing"
                 /\ exec'[jobs[j].leaseOwner] = exec[jobs[j].leaseOwner])
                    => jobs[j].leaseExpiresAt <= clock
  <2>1. jobs'[j] \in Row /\ RowBecomes(j, jobs'[j]) /\ Sound(jobs[j], remote[j])
    BY <1>1 DEF StepShape, JobsStep, AllSound
  <2> QED
    BY <2>1, RowSound
<1>4. AllSound'
  <2>1. ASSUME NEW j \in Job PROVE Sound(jobs'[j], remote'[j])
    <3>1. jobs'[j] \in Row /\ Sound(jobs'[j], remote[j])
      BY <1>1, <1>3 DEF StepShape, JobsStep
    <3>2. \/ remote'[j] = remote[j]
          \/ remote[j] = "none" /\ remote'[j] = "running"
          \/ /\ remote[j] = "running"
             /\ remote'[j] \in {"completed", "failed", "cancelled"}
      BY <1>1 DEF StepShape, EngineStep
    <3> QED
      BY <3>1, <3>2, EngineKeeps
  <2> QED
    BY <2>1 DEF AllSound
<1>5. \A j \in Job : jobs[j].remoteJobId = "known"
                         => jobs'[j].remoteJobId = "known"
  BY <1>3 DEF RowPolicy
<1>6. AllInformed'
  <2>1. ASSUME NEW w \in Worker, NEW s \in Slot
        PROVE  Learnt(exec'[w][s], jobs', remote')
    <3>1. exec'[w][s] \in Exec /\ Informed(exec'[w][s])
      BY <1>1 DEF StepShape, SlotsStep, SlotBecomes, Good
    <3> QED
      BY <1>1, <1>5, <3>1, LearntStays DEF StepShape
  <2> QED
    BY <2>1 DEF AllInformed, Informed
<1>7. LoopsTrue'
  <2>1. ASSUME NEW w \in Worker
        PROVE  /\ loop'[w].now <= clock'
               /\ \A j \in Job : loop'[w].seen[j].remoteJobId = "known"
                                     => jobs'[j].remoteJobId = "known"
    <3>0. clock \in Nat /\ clock' \in Nat /\ clock' >= clock
          /\ loop[w].now \in Nat
      BY <1>1, <1>2 DEF StepShape, ClockStep, TypeOK, Loop
    <3>1. CASE loop'[w] = loop[w]
      BY <1>5, <3>0, <3>1 DEF LoopsTrue
    <3>2. CASE loop'[w] = IdleLoop
      BY <3>0, <3>2 DEF IdleLoop, NothingSeen
    <3>3. CASE loop'[w].now = clock /\ loop'[w].seen = loop[w].seen
      BY <1>5, <3>0, <3>3 DEF LoopsTrue
    <3>4. CASE /\ loop'[w].now \in Nat /\ loop'[w].now <= clock
               /\ \A j \in loop'[w].rows :
                     loop'[w].seen[j].remoteJobId = jobs[j].remoteJobId
               /\ \A j \in Job \ loop'[w].rows : loop'[w].seen[j] = NothingSeen
      BY <1>5, <3>0, <3>4 DEF NothingSeen
    <3> QED
      BY <1>1, <3>1, <3>2, <3>3, <3>4 DEF StepShape, LoopsStep, LoopBecomes
  <2> QED
    BY <2>1 DEF LoopsTrue
<1>8. PolicyStep
  BY <1>3 DEF PolicyStep, RowPolicy
<1>9. LeaseStep
  BY <1>3 DEF LeaseStep
<1> QED
  BY <1>1, <1>2, <1>4, <1>6, <1>7, <1>8, <1>9

-----------------------------------------------------------------------------
(* The theorems *)

\* PublishInv holds in every state: the types, what the executions know of
\* their jobs, what the rows show and what the loops remember.
THEOREM PublishInvariant == Spec => []PublishInv
<1>1. Init => PublishInv
  BY InitInv
<1>2. PublishInv /\ [Next]_vars => PublishInv'
  BY StepInv
<1> QED
  BY <1>1, <1>2, PTL DEF Spec

\* Every reachable state has the types of the code's tables and records.
THEOREM TypeCorrect == Spec => []TypeOK
<1>1. PublishInv => TypeOK
  BY DEF PublishInv
<1> QED
  BY <1>1, PublishInvariant, PTL

\* No publish job is stranded: what holds no lease has a date, what is
\* processed has a lease, a job that waits has a remote job to ask for.
THEOREM NothingStranded == Spec => []NoStrandedJob
<1>1. PublishInv => NoStrandedJob
  BY DEF PublishInv, AllSound, Sound, NoStrandedJob
<1> QED
  BY <1>1, PublishInvariant, PTL

\* What a job shows agrees with the engine, whatever answers were overtaken and
\* whatever acknowledgements were lost.
THEOREM OutcomesTruthful == Spec => []OutcomeTruthful
<1>1. PublishInv => OutcomeTruthful
  BY DEF PublishInv, AllSound, Sound, OutcomeTruthful
<1> QED
  BY <1>1, PublishInvariant, PTL

\* The stage says where the status says the job is.
THEOREM StagesAgree == Spec => []StageAgrees
<1>1. PublishInv => StageAgrees
  BY DEF PublishInv, AllSound, Sound, StageAgrees
<1> QED
  BY <1>1, PublishInvariant, PTL

\* Every change of a row follows the transition policy, which the repository
\* never consults; what is over stays, and no remote id is forgotten.
THEOREM PolicyFollowed == Spec => FollowsPolicy
<1>1. PublishInv /\ [Next]_vars => [PolicyStep]_jobs
  BY StepInv
<1> QED
  BY <1>1, PublishInvariant, PTL DEF Spec, FollowsPolicy

\* Nobody but an execution of its holder ends the processing of a job before
\* its lease runs out.
THEOREM LeasesHonoured == Spec => LeaseHonoured
<1>1. PublishInv /\ [Next]_vars => [LeaseStep]_vars
  BY StepInv
<1> QED
  BY <1>1, PublishInvariant, PTL DEF Spec, LeaseHonoured

-----------------------------------------------------------------------------
(* The failure budget of a publish job, and the proof that PublishWorkers  *)
(* implements PublishLifecycle.                                            *)
(*                                                                         *)
(* Both need that no worker is offered a job it is still executing         *)
(* (NotReoffered): the fence of a statement is the worker's id, so an      *)
(* execution whose lease was lost may otherwise act on a job that another  *)
(* slot of its worker has claimed since.  With one execution per worker,   *)
(* the default of PUBLISH_JOB_CONCURRENCY, that holds.  The refinement     *)
(* also needs statements that are under way for less than a lease: then a  *)
(* row that is claimed or renewed under a sweep is not stale at the        *)
(* sweep's time, and what the sweep decides from is what the row shows.    *)

\* A worker that is about to claim has a slot for the job.
HasSlot ==
    \A w \in Worker :
        loop[w].pc = "acquiring" => \E s \in Slot : exec[w][s].pc = "free"

\* No worker is offered a job that one of its own executions is still at: the
\* acquireNext it awaits does not find such a job due.
NotReoffered ==
    \A w \in Worker, s \in Slot :
        (loop[w].pc = "acquiring" /\ exec[w][s].pc # "free")
            => ~Due(jobs[exec[w][s].job], loop[w].now)

\* As long as the job is its worker's, an execution counts its failures right.
Fenced ==
    \A w \in Worker, s \in Slot :
        LET e == exec[w][s] IN
        (e.pc \notin {"free", "reading"} /\ Held(jobs[e.job], w))
            => e.failures = jobs[e.job].consecutiveFailureCount

\* The part of FailureBudget that is about one row.
RowBudget(row) ==
    /\ row.status \notin Terminal
           => row.consecutiveFailureCount < MaxConsecutiveFailures
    /\ row.errorCode = "PUBLISH_JOB_RETRY_EXHAUSTED"
           => /\ row.status = "failed"
              /\ row.consecutiveFailureCount + 1 >= MaxConsecutiveFailures

\* The inductive invariant, relative to NotReoffered.
FenceInv == Fenced /\ \A j \in Job : RowBudget(jobs[j])

\* Claims and renewals under way are at most MaxLag old.
OnTime ==
    \A w \in Worker :
        /\ loop[w].pc = "acquiring" => clock - loop[w].now <= MaxLag
        /\ \A o \in orphans[w] : clock - o.now <= MaxLag
        /\ \A s \in Slot : exec[w][s].beating
                               => clock - exec[w][s].beatNow <= MaxLag

\* A row that a sweep will recover is as the sweep has seen it.
SweepAgrees ==
    \A w \in Worker : loop[w].pc = "sweeping" =>
        \A j \in loop[w].rows : Stale(jobs[j], loop[w].now) =>
            /\ loop[w].seen[j].remoteJobId = jobs[j].remoteJobId
            /\ loop[w].seen[j].consecutiveFailureCount
                  = jobs[j].consecutiveFailureCount

\* The inductive invariant with statements under way for less than a lease.
SweepInv == OnTime /\ SweepAgrees

-----------------------------------------------------------------------------
(* How a row changes, column by column *)

Kept(row, new) ==
    /\ new.remoteJobId = row.remoteJobId
    /\ new.consecutiveFailureCount = row.consecutiveFailureCount
    /\ new.errorCode = row.errorCode

\* RowBecomes for the columns that the budget and the lifecycle are about.
RowMoves(j, new) ==
    LET row == jobs[j] IN
    \/ new = row
    \/ /\ row.status = Absent /\ new.status = "queued"
       /\ new.remoteJobId = "none" /\ new.consecutiveFailureCount = 0
       /\ new.errorCode = "none"
    \/ /\ Cancellable(row) /\ new.status = "cancelled"
       /\ Kept(row, new)
    \/ /\ Cancellable(row) /\ new.status = "processing"
       /\ Kept(row, new)
       /\ \E w \in Worker :
             /\ loop[w].pc = "acquiring" /\ Due(row, loop[w].now)
             /\ new.leaseOwner = w
             /\ new.leaseExpiresAt = loop[w].now + LeaseDuration
    \/ /\ row.status = "processing" /\ new.status = "processing"
       /\ Kept(row, new)
       /\ new.leaseOwner = row.leaseOwner
       /\ \/ new.leaseExpiresAt = row.leaseExpiresAt
          \/ \E now \in Nat : /\ RenewalTime(now)
                              /\ new.leaseExpiresAt = now + LeaseDuration
    \/ row.status = "processing" /\ \E w \in Worker, s \in Slot : Ends(w, s, j, new)
    \/ row.status = "processing" /\ \E w \in Worker : Sweeps(w, j, new)

\* Every change is one of these.
LEMMA Moves ==
    ASSUME TypeOK, NEW j \in Job, NEW new \in Row, RowBecomes(j, new)
    PROVE  RowMoves(j, new)
<1> DEFINE row == jobs[j]
<1>0. row \in Row
  BY DEF TypeOK
<1>1. ASSUME row.status = Absent, NEW now \in Nat, new = Inserted(now)
      PROVE  RowMoves(j, new)
  BY <1>1, InsertedFields DEF RowMoves
<1>2. CASE Cancellable(row) /\ new = Cancelled(row)
  <2>1. new.status = "cancelled" /\ Kept(row, new)
    BY <1>0, <1>2, CancelledFields DEF Kept
  <2> QED
    BY <1>2, <2>1 DEF RowMoves
<1>3. ASSUME NEW w \in Worker, Claims(w, row, new) PROVE RowMoves(j, new)
  <2>1. Cancellable(row)
    BY <1>3 DEF Claims, Due, Cancellable
  <2>2. loop[w].now \in Nat
    BY DEF TypeOK, Loop
  <2>3. /\ new.status = "processing" /\ Kept(row, new)
        /\ new.leaseOwner = w
        /\ new.leaseExpiresAt = loop[w].now + LeaseDuration
    BY <1>0, <1>3, <2>2, ClaimedFields DEF Kept, Claims
  <2>4. loop[w].pc = "acquiring" /\ Due(row, loop[w].now)
    BY <1>3 DEF Claims
  <2> QED
    BY <2>1, <2>3, <2>4 DEF RowMoves
<1>4. ASSUME row.status = "processing", NEW now \in Nat, RenewalTime(now),
             new = Renewed(row, now)
      PROVE  RowMoves(j, new)
  <2>1. /\ new.status = "processing" /\ Kept(row, new)
        /\ new.leaseOwner = row.leaseOwner
        /\ new.leaseExpiresAt = now + LeaseDuration
    BY <1>0, <1>4, RenewedFields DEF Kept
  <2> QED
    BY <1>4, <2>1 DEF RowMoves
<1>5. ASSUME row.status = "processing", NEW stage \in PublishJobStage,
             new = Staged(row, stage)
      PROVE  RowMoves(j, new)
  <2>1. /\ new.status = "processing" /\ Kept(row, new)
        /\ new.leaseOwner = row.leaseOwner
        /\ new.leaseExpiresAt = row.leaseExpiresAt
    BY <1>0, <1>5, StagedFields DEF Kept
  <2> QED
    BY <1>5, <2>1 DEF RowMoves
<1>6. ASSUME NEW w \in Worker, NEW s \in Slot, Ends(w, s, j, new)
      PROVE  RowMoves(j, new)
  <2>1. row.status = "processing"
    BY <1>6 DEF Ends, Owned, Held
  <2> QED
    BY <1>6, <2>1 DEF RowMoves
<1>7. ASSUME NEW w \in Worker, Sweeps(w, j, new) PROVE RowMoves(j, new)
  <2>1. row.status = "processing"
    BY <1>7 DEF Sweeps, Stale
  <2> QED
    BY <1>7, <2>1 DEF RowMoves
<1>8. CASE new = row
  BY <1>8 DEF RowMoves
<1> QED
  BY <1>1, <1>2, <1>3, <1>4, <1>5, <1>6, <1>7, <1>8 DEF RowBecomes

\* The statement that ends an execution: what each of them writes.
OutcomeColumns(row, e, new) ==
    \/ /\ e.pc = "recording" /\ new.status = "waiting"
       /\ new.remoteJobId = "known" /\ new.consecutiveFailureCount = 0
       /\ new.errorCode = row.errorCode
    \/ /\ e.pc = "waiting" /\ new.status = "waiting"
       /\ new.remoteJobId = row.remoteJobId /\ new.consecutiveFailureCount = 0
       /\ new.errorCode = row.errorCode
    \/ /\ e.pc = "completing" /\ new.status = "completed"
       /\ new.remoteJobId = row.remoteJobId /\ new.consecutiveFailureCount = 0
       /\ new.errorCode = row.errorCode
    \/ /\ e.pc = "remote-cancelled" /\ new.status = "cancelled"
       /\ Kept(row, new)
    \/ /\ e.pc = "retrying" /\ new.status = "retrying"
       /\ new.remoteJobId = row.remoteJobId
       /\ new.consecutiveFailureCount = row.consecutiveFailureCount + 1
       /\ new.errorCode = e.code
    \/ /\ e.pc \in {"remote-failed", "failing", "exhausting"}
       /\ new.status = "failed"
       /\ new.remoteJobId = row.remoteJobId
       /\ new.consecutiveFailureCount = row.consecutiveFailureCount
       /\ new.errorCode = IF e.pc = "remote-failed"
                          THEN "PUBLISH_REMOTE_JOB_FAILED" ELSE e.code

\* Outcome writes these columns.
LEMMA OutcomeWrites ==
    ASSUME NEW row \in Row, NEW e \in Exec, e.pc \in Recording \union Handling,
           NEW new, new = Outcome(row, e)
    PROVE  OutcomeColumns(row, e, new)
<1>0. e.now \in Nat /\ e.code \in ErrorCodes
  BY DEF Exec
<1>1. CASE e.pc = "recording"
  <2>1. new = Submitted(row, e.now)
    BY <1>1 DEF Outcome
  <2> QED
    BY <1>0, <1>1, <2>1, SubmittedFields DEF OutcomeColumns
<1>2. CASE e.pc = "waiting"
  <2>1. new = RemoteWaiting(row, e.now)
    BY <1>2 DEF Outcome
  <2> QED
    BY <1>0, <1>2, <2>1, RemoteWaitingFields DEF OutcomeColumns
<1>3. CASE e.pc = "completing"
  <2>1. new = Completed(row)
    BY <1>3 DEF Outcome
  <2> QED
    BY <1>3, <2>1, CompletedFields DEF OutcomeColumns
<1>4. CASE e.pc = "remote-failed"
  <2>1. new = Failed(row, "PUBLISH_REMOTE_JOB_FAILED")
    BY <1>4 DEF Outcome
  <2>2. "PUBLISH_REMOTE_JOB_FAILED" \in ErrorCodes
    BY Literals
  <2> QED
    BY <1>4, <2>1, <2>2, FailedFields DEF OutcomeColumns
<1>5. CASE e.pc = "remote-cancelled"
  <2>1. new = Cancelled(row)
    BY <1>5 DEF Outcome
  <2> QED
    BY <1>5, <2>1, CancelledFields DEF OutcomeColumns, Kept
<1>6. CASE e.pc = "retrying"
  <2>1. PICK next \in Nat : new = RetryRecorded(row, e.code, next)
    <3>1. e.failures + 1 \in Nat
      BY DEF Exec
    <3>2. calculateRetryDelayMs(e.failures + 1) \in Nat
      BY <3>1, RetryDelayType
    <3>3. e.now + calculateRetryDelayMs(e.failures + 1) \in Nat
      BY <1>0, <3>2
    <3> QED
      BY <1>6, <3>3 DEF Outcome
  <2> QED
    BY <1>0, <1>6, <2>1, RetryRecordedFields DEF OutcomeColumns
<1>7. CASE e.pc \in {"failing", "exhausting"}
  <2>1. new = Failed(row, e.code)
    BY <1>7 DEF Outcome
  <2> QED
    BY <1>0, <1>7, <2>1, FailedFields DEF OutcomeColumns
<1> QED
  BY <1>1, <1>2, <1>3, <1>4, <1>5, <1>6, <1>7 DEF Recording, Handling

\* An outcome, with what its execution knows.
LEMMA EndsWrites ==
    ASSUME PublishInv, NEW j \in Job, NEW w \in Worker, NEW s \in Slot,
           NEW new, Ends(w, s, j, new)
    PROVE  LET e == exec[w][s] IN
           /\ OutcomeColumns(jobs[j], e, new)
           /\ e.pc \in Recording \union Handling
           /\ Held(jobs[j], w) /\ e.job = j
           /\ Informed(e)
<1> DEFINE e == exec[w][s]
<1>1. e \in Exec /\ Informed(e) /\ jobs[j] \in Row
  BY DEF PublishInv, TypeOK, AllInformed
<1>2. /\ e.pc \in Recording \union Handling /\ e.job = j
      /\ Held(jobs[j], w) /\ new = Outcome(jobs[j], e)
  BY DEF Ends, Owned
<1> QED
  BY <1>1, <1>2, OutcomeWrites

\* A recovery: a failure is counted from what the sweep has seen.
SweepColumns(row, seen, new) ==
    /\ new.remoteJobId = row.remoteJobId
    /\ new.consecutiveFailureCount = seen.consecutiveFailureCount + 1
    /\ \/ /\ seen.consecutiveFailureCount + 1 >= MaxConsecutiveFailures
          /\ new.status = "failed"
          /\ new.errorCode = "PUBLISH_JOB_RETRY_EXHAUSTED"
       \/ /\ seen.consecutiveFailureCount + 1 < MaxConsecutiveFailures
          /\ new.status \in {"waiting", "retrying"}
          /\ new.errorCode = "PUBLISH_JOB_LEASE_MISMATCH"

\* RecoverStmt writes these columns.
LEMMA SweepWrites ==
    ASSUME TypeOK, NEW j \in Job, NEW w \in Worker, NEW new,
           Sweeps(w, j, new)
    PROVE  SweepColumns(jobs[j], loop[w].seen[j], new)
<1> DEFINE seen == loop[w].seen[j]
           exhausted ==
             seen.consecutiveFailureCount + 1 >= MaxConsecutiveFailures
           next == loop[w].now + calculateRetryDelayMs(1)
<1>1. new = Recovered(jobs[j], seen, exhausted, next)
  BY Zenon DEF Sweeps
<1>2. seen \in Seen /\ jobs[j] \in Row /\ loop[w].now \in Nat
  BY DEF TypeOK, Loop
<1>3. next \in Nat
  <2>1. calculateRetryDelayMs(1) \in Nat
    BY RetryDelayType
  <2> QED
    BY <1>2, <2>1
<1>4. exhausted \in BOOLEAN
  OBVIOUS
<1>5. ~exhausted => seen.consecutiveFailureCount + 1 < MaxConsecutiveFailures
  BY <1>2 DEF Seen
<1>6. exhausted => seen.consecutiveFailureCount + 1 >= MaxConsecutiveFailures
  OBVIOUS
<1> HIDE DEF seen, exhausted, next
<1>7. SweepColumns(jobs[j], seen, new)
  BY <1>1, <1>2, <1>3, <1>4, <1>5, <1>6, RecoveredFields DEF SweepColumns
<1> QED
  BY <1>7 DEF seen

-----------------------------------------------------------------------------
(* The failure budget *)

\* A row that is a worker's was so before, with as many failures, or the
\* worker claims it.
LEMMA HeldBefore ==
    ASSUME PublishInv, NEW j \in Job, NEW new \in Row, RowBecomes(j, new),
           NEW w \in Worker, Held(new, w)
    PROVE  \/ /\ Held(jobs[j], w)
              /\ new.consecutiveFailureCount = jobs[j].consecutiveFailureCount
           \/ loop[w].pc = "acquiring" /\ Due(jobs[j], loop[w].now)
<1>1. RowMoves(j, new)
  BY Moves DEF PublishInv
<1>2. new.status = "processing" /\ new.leaseOwner = w
  BY DEF Held
<1>3. ASSUME NEW v \in Worker, NEW s \in Slot, Ends(v, s, j, new) PROVE FALSE
  BY <1>2, <1>3, EndsWrites DEF OutcomeColumns
<1>4. ASSUME NEW v \in Worker, Sweeps(v, j, new) PROVE FALSE
  BY <1>2, <1>4, SweepWrites DEF PublishInv, SweepColumns
<1> QED
  BY <1>1, <1>2, <1>3, <1>4 DEF RowMoves, Kept, Held

\* Every change of a row keeps its budget.
LEMMA BudgetStep ==
    ASSUME PublishInv, FenceInv, NEW j \in Job,
           NEW new \in Row, RowBecomes(j, new)
    PROVE  RowBudget(new)
<1> DEFINE row == jobs[j]
<1>0. row \in Row /\ row.consecutiveFailureCount \in Nat /\ RowBudget(row)
  BY DEF PublishInv, TypeOK, FenceInv, Row
<1>1. RowMoves(j, new)
  BY Moves DEF PublishInv
<1>2. CASE /\ Kept(row, new)
           /\ row.status \in {"queued", "waiting", "retrying", "processing"}
  BY <1>0, <1>2 DEF RowBudget, Kept, Terminal
<1>3. CASE new.consecutiveFailureCount = 0 /\ new.errorCode = "none"
  BY <1>3 DEF RowBudget
<1>4. ASSUME row.status = "processing", NEW w \in Worker, NEW s \in Slot,
             Ends(w, s, j, new)
      PROVE  RowBudget(new)
  <2> DEFINE e == exec[w][s]
  <2>1. /\ OutcomeColumns(row, e, new)
        /\ e.pc \in Recording \union Handling
        /\ Held(row, w) /\ e.job = j /\ Informed(e)
    BY <1>4, EndsWrites
  <2>2. e.pc \notin {"free", "reading"}
    BY <2>1 DEF Recording, Handling
  <2>4. e.failures = row.consecutiveFailureCount
    BY <2>1, <2>2 DEF FenceInv, Fenced
  <2>5. /\ e.pc \in {"failing", "retrying"}
              => e.code \in {"call-error", "PUBLISH_REMOTE_JOB_CANCELLED"}
        /\ e.pc = "retrying"
              => row.consecutiveFailureCount + 1 < MaxConsecutiveFailures
        /\ e.pc = "exhausting"
              => row.consecutiveFailureCount + 1 >= MaxConsecutiveFailures
    BY <2>1, <2>4 DEF Informed, Learnt
  <2>6. row.errorCode # "PUBLISH_JOB_RETRY_EXHAUSTED"
    BY <1>0, <1>4 DEF RowBudget
  <2>7. new.errorCode = "PUBLISH_JOB_RETRY_EXHAUSTED"
           => e.pc = "exhausting" /\ new.status = "failed"
              /\ new.consecutiveFailureCount = row.consecutiveFailureCount
    BY <2>1, <2>5, <2>6 DEF OutcomeColumns, Kept
  <2>8. new.status \notin Terminal
           => new.consecutiveFailureCount < MaxConsecutiveFailures
    BY <2>1, <2>5 DEF OutcomeColumns, Terminal
  <2> QED
    BY <2>5, <2>7, <2>8 DEF RowBudget
<1>5. ASSUME row.status = "processing", NEW w \in Worker, Sweeps(w, j, new)
      PROVE  RowBudget(new)
  <2>1. SweepColumns(row, loop[w].seen[j], new)
    BY <1>5, SweepWrites DEF PublishInv
  <2>2. loop[w].seen[j].consecutiveFailureCount \in Nat
    BY DEF PublishInv, TypeOK, Loop, Seen
  <2> QED
    BY <2>1, <2>2 DEF SweepColumns, RowBudget, Terminal
<1>6. CASE new = row
  BY <1>0, <1>6
<1> QED
  BY <1>1, <1>2, <1>3, <1>4, <1>5, <1>6 DEF RowMoves, Cancellable

\* While a worker waits for acquireNext, none of its slots fills up.
LEMMA HasSlotStep ==
    ASSUME PublishInv, HasSlot, [Next]_vars
    PROVE  HasSlot'
<1>1. StepShape
  BY StepInv
<1>2. SUFFICES ASSUME NEW w \in Worker, loop'[w].pc = "acquiring"
               PROVE  \E s \in Slot : exec'[w][s].pc = "free"
  BY DEF HasSlot
<1>3. LoopBecomes(w, loop'[w])
  BY <1>1 DEF StepShape, LoopsStep
<1>4. loop'[w] # IdleLoop
  BY <1>2, IdleLoopType
<1>5. CASE loop'[w] = loop[w]
  <2>1. PICK s \in Slot : exec[w][s].pc = "free"
    BY <1>2, <1>5 DEF HasSlot
  <2>2. SlotBecomes(w, exec[w][s], exec'[w][s])
    BY <1>1 DEF StepShape, SlotsStep
  <2> QED
    BY <1>4, <2>1, <2>2, FreeGood DEF SlotBecomes
<1>6. CASE exec' = exec /\ \E s \in Slot : exec[w][s].pc = "free"
  BY <1>6
<1> QED
  BY <1>2, <1>3, <1>4, <1>5, <1>6 DEF LoopBecomes

\* With one slot no job is reoffered: a worker claims only when its slot is free.
LEMMA OneSlotNotReoffered ==
    ASSUME Concurrency = 1
    PROVE  Spec => []NotReoffered
<1>1. Init => HasSlot
  BY IdleLoopType DEF Init, HasSlot
<1>2. PublishInv /\ HasSlot /\ [Next]_vars => HasSlot'
  BY HasSlotStep
<1>3. HasSlot => NotReoffered
  BY DEF HasSlot, NotReoffered, Slot
<1> QED
  BY <1>1, <1>2, <1>3, PublishInvariant, PTL DEF Spec

\* Every step preserves the invariant.
LEMMA FenceStep ==
    ASSUME PublishInv, NotReoffered, FenceInv, [Next]_vars
    PROVE  FenceInv'
<1>1. StepShape
  BY StepInv
<1>2. Fenced'
  <2> SUFFICES ASSUME NEW w \in Worker, NEW s \in Slot,
                      exec'[w][s].pc \notin {"free", "reading"},
                      Held(jobs'[exec'[w][s].job], w)
               PROVE  exec'[w][s].failures
                         = jobs'[exec'[w][s].job].consecutiveFailureCount
    BY DEF Fenced, Held
  <2> DEFINE e == exec[w][s]
             f == exec'[w][s]
             j == f.job
  <2>1. SlotBecomes(w, e, f)
    BY <1>1 DEF StepShape, SlotsStep
  <2>2. j \in Job /\ jobs'[j] \in Row /\ RowBecomes(j, jobs'[j])
    <3>1. f \in Exec
      BY <2>1 DEF SlotBecomes, Good
    <3>2. j \in Job
      BY <3>1 DEF Exec
    <3> QED
      BY <1>1, <3>2 DEF StepShape, JobsStep
  <2>3. \/ /\ Held(jobs[j], w)
           /\ jobs'[j].consecutiveFailureCount = jobs[j].consecutiveFailureCount
        \/ loop[w].pc = "acquiring" /\ Due(jobs[j], loop[w].now)
    BY <2>2, HeldBefore
  <2>4. f # FreeSlot
    BY FreeGood
  <2> HIDE DEF e, f, j
  <2>5. /\ j = e.job
        /\ \/ e.pc = "reading" /\ f.failures = jobs[j].consecutiveFailureCount
           \/ e.pc \notin {"free", "reading"} /\ f.failures = e.failures
    BY <2>1, <2>4 DEF SlotBecomes, j, f
  <2>6. /\ Held(jobs[j], w)
        /\ jobs'[j].consecutiveFailureCount = jobs[j].consecutiveFailureCount
    <3>1. e.pc # "free"
      BY <2>5
    <3>2. ~(loop[w].pc = "acquiring" /\ Due(jobs[j], loop[w].now))
      BY <2>5, <3>1 DEF NotReoffered, e
    <3> QED
      BY <2>3, <3>2
  <2>7. e.pc \notin {"free", "reading"}
           => e.failures = jobs[j].consecutiveFailureCount
    BY <2>5, <2>6 DEF FenceInv, Fenced, e
  <2> QED
    BY <2>5, <2>6, <2>7 DEF f, j
<1>3. ASSUME NEW j \in Job PROVE RowBudget(jobs'[j])
  BY <1>1, BudgetStep DEF StepShape, JobsStep
<1> QED
  BY <1>2, <1>3 DEF FenceInv

\* FenceInv holds in every state, whatever the number of slots, as long as no
\* worker is offered a job it is still executing.
THEOREM FenceInvariant ==
    Spec /\ []NotReoffered => []FenceInv
<1>1. Init => FenceInv
  <2> SUFFICES ASSUME Init PROVE FenceInv
    OBVIOUS
  <2>1. Fenced
    BY FreeGood DEF Init, Fenced
  <2>2. \A j \in Job : RowBudget(jobs[j])
    BY DEF Init, RowBudget, NoRow
  <2> QED
    BY <2>1, <2>2 DEF FenceInv
<1>2. PublishInv /\ NotReoffered /\ FenceInv /\ [Next]_vars => FenceInv'
  BY FenceStep
<1> QED
  BY <1>1, <1>2, PublishInvariant, PTL DEF Spec

\* PUBLISH_JOB_MAX_CONSECUTIVE_FAILURES bounds the failures in a row, and only
\* the last of them gives a job up as exhausted, as long as no worker is offered
\* a job it is still executing.
THEOREM BudgetKeptUnlessReoffered ==
    Spec /\ []NotReoffered => []FailureBudget
<1>1. FenceInv => FailureBudget
  BY DEF FenceInv, RowBudget, FailureBudget
<1> QED
  BY <1>1, FenceInvariant, PTL

\* With one execution per worker the budget is kept.
THEOREM BudgetKept ==
    ASSUME Concurrency = 1
    PROVE  Spec => []FailureBudget
BY OneSlotNotReoffered, BudgetKeptUnlessReoffered, PTL

-----------------------------------------------------------------------------
(* Sweeps, with statements that are under way for less than a lease *)

\* A row that is stale at a time that is past was so before the step: a claim
\* or a renewal would have given it a lease that is not over.
LEMMA StaleBefore ==
    ASSUME MaxLag < LeaseDuration, PublishInv, OnTime, NEW j \in Job,
           NEW new \in Row, RowBecomes(j, new), NEW now \in Nat,
           now <= clock, Stale(new, now)
    PROVE  Stale(jobs[j], now) /\ Kept(jobs[j], new)
<1> DEFINE row == jobs[j]
<1>0. clock \in Nat
  BY DEF PublishInv, TypeOK
<1>1. RowMoves(j, new)
  BY Moves DEF PublishInv
<1>2. /\ new.status = "processing"
      /\ new.leaseExpiresAt # NoTime /\ new.leaseExpiresAt <= now
  BY DEF Stale, Reached
<1>3. ASSUME NEW w \in Worker, loop[w].pc = "acquiring",
             new.leaseExpiresAt = loop[w].now + LeaseDuration
      PROVE  FALSE
  <2>1. loop[w].now \in Nat /\ clock - loop[w].now <= MaxLag
    BY <1>3 DEF PublishInv, TypeOK, Loop, OnTime
  <2> QED
    BY <1>0, <1>2, <1>3, <2>1
<1>4. ASSUME NEW t \in Nat, RenewalTime(t),
             new.leaseExpiresAt = t + LeaseDuration
      PROVE  FALSE
  <2>1. clock - t <= MaxLag
    BY <1>4 DEF RenewalTime, OnTime
  <2> QED
    BY <1>0, <1>2, <1>4, <2>1
<1>5. ASSUME NEW w \in Worker, NEW s \in Slot, Ends(w, s, j, new) PROVE FALSE
  BY <1>2, <1>5, EndsWrites DEF OutcomeColumns
<1>6. ASSUME NEW w \in Worker, Sweeps(w, j, new) PROVE FALSE
  BY <1>2, <1>6, SweepWrites DEF PublishInv, SweepColumns
<1>7. \/ new = row
      \/ /\ row.status = "processing" /\ Kept(row, new)
         /\ new.leaseExpiresAt = row.leaseExpiresAt
  BY <1>1, <1>2, <1>3, <1>4, <1>5, <1>6 DEF RowMoves
<1> QED
  BY <1>7 DEF Stale, Kept

\* Every step preserves the invariant.
LEMMA SweepStep ==
    ASSUME MaxLag < LeaseDuration, PublishInv, SweepInv, [Next]_vars
    PROVE  SweepInv'
<1>1. StepShape /\ PublishInv'
  BY StepInv
<1>2. OnTime'
  <2>0. clock \in Nat
    BY DEF PublishInv, TypeOK
  <2>1. CASE /\ clock' = clock + 1 /\ StatementsOnTime
             /\ UNCHANGED <<jobs, loop, exec, orphans>>
    <3>1. ASSUME NEW w \in Worker, loop'[w].pc = "acquiring"
          PROVE  clock' - loop'[w].now <= MaxLag
      <4>1. loop[w].now \in Nat /\ clock - loop[w].now < MaxLag
        BY <2>1, <3>1 DEF StatementsOnTime, PublishInv, TypeOK, Loop
      <4> QED
        BY <2>0, <2>1, <4>1
    <3>2. ASSUME NEW w \in Worker, NEW o \in orphans'[w]
          PROVE  clock' - o.now <= MaxLag
      <4>1. o.now \in Nat /\ clock - o.now < MaxLag
        <5>1. o \in Orphan
          BY <2>1 DEF PublishInv, TypeOK
        <5> QED
          BY <2>1, <5>1 DEF StatementsOnTime, Orphan
      <4> QED
        BY <2>0, <2>1, <4>1
    <3>3. ASSUME NEW w \in Worker, NEW s \in Slot, exec'[w][s].beating
          PROVE  clock' - exec'[w][s].beatNow <= MaxLag
      <4>1. /\ exec[w][s].beatNow \in Nat
            /\ clock - exec[w][s].beatNow < MaxLag
        BY <2>1, <3>3 DEF StatementsOnTime, PublishInv, TypeOK, Exec
      <4> QED
        BY <2>0, <2>1, <4>1
    <3> QED
      BY <3>1, <3>2, <3>3 DEF OnTime
  <2>2. CASE clock' = clock
    <3>0. clock - clock <= MaxLag
      BY <2>0
    <3>1. ASSUME NEW w \in Worker, loop'[w].pc = "acquiring"
          PROVE  clock - loop'[w].now <= MaxLag
      <4>1. LoopBecomes(w, loop'[w]) /\ IdleLoop.pc # "acquiring"
        BY <1>1, IdleLoopType DEF StepShape, LoopsStep
      <4>2. loop'[w] = loop[w] \/ loop'[w].now = clock
        BY <3>1, <4>1 DEF LoopBecomes
      <4> QED
        BY <3>0, <3>1, <4>2 DEF SweepInv, OnTime
    <3>2. ASSUME NEW w \in Worker, NEW o \in orphans'[w]
          PROVE  clock - o.now <= MaxLag
      <4>1. \/ o \in orphans[w]
            \/ \E s \in Slot : exec[w][s].beating /\ exec[w][s].beatNow = o.now
        BY <1>1 DEF StepShape, OrphansStep
      <4> QED
        BY <4>1 DEF SweepInv, OnTime
    <3>3. ASSUME NEW w \in Worker, NEW s \in Slot, exec'[w][s].beating
          PROVE  clock - exec'[w][s].beatNow <= MaxLag
      <4>1. SlotBecomes(w, exec[w][s], exec'[w][s])
        BY <1>1 DEF StepShape, SlotsStep
      <4>2. \/ exec'[w][s].beatNow = clock
            \/ /\ exec[w][s].beating
               /\ exec'[w][s].beatNow = exec[w][s].beatNow
        BY <3>3, <4>1 DEF SlotBecomes
      <4> QED
        BY <3>0, <4>2 DEF SweepInv, OnTime
    <3> QED
      BY <2>2, <3>1, <3>2, <3>3 DEF OnTime
  <2> QED
    BY <1>1, <2>1, <2>2 DEF StepShape, ClockStep
<1>3. SweepAgrees'
  <2> SUFFICES ASSUME NEW w \in Worker, loop'[w].pc = "sweeping",
                      NEW j \in loop'[w].rows,
                      Stale(jobs'[j], loop'[w].now)
               PROVE  /\ loop'[w].seen[j].remoteJobId = jobs'[j].remoteJobId
                      /\ loop'[w].seen[j].consecutiveFailureCount
                            = jobs'[j].consecutiveFailureCount
    BY DEF SweepAgrees, Stale
  <2>1. LoopBecomes(w, loop'[w]) /\ IdleLoop.pc # "sweeping"
    BY <1>1, IdleLoopType DEF StepShape, LoopsStep
  <2>2. CASE loop'[w] = loop[w]
    <3>0. loop[w] \in Loop /\ loop[w].now <= clock
      BY DEF PublishInv, TypeOK, LoopsTrue
    <3>1. loop[w].now \in Nat /\ loop[w].now <= clock /\ j \in Job
      BY <2>2, <3>0 DEF Loop
    <3>2. jobs'[j] \in Row /\ RowBecomes(j, jobs'[j])
      BY <1>1, <3>1 DEF StepShape, JobsStep
    <3>3. Stale(jobs[j], loop[w].now) /\ Kept(jobs[j], jobs'[j])
      BY <2>2, <3>1, <3>2, StaleBefore DEF SweepInv
    <3> QED
      BY <2>2, <3>3 DEF SweepInv, SweepAgrees, Kept
  <2>3. CASE loop'[w] # loop[w]
    BY <2>1, <2>3 DEF LoopBecomes
  <2> QED
    BY <2>2, <2>3
<1> QED
  BY <1>2, <1>3 DEF SweepInv

\* SweepInv holds in every state when no statement is under way for a lease.
THEOREM SweepInvariant ==
    ASSUME MaxLag < LeaseDuration
    PROVE  Spec => []SweepInv
<1>1. Init => SweepInv
  <2> SUFFICES ASSUME Init PROVE SweepInv
    OBVIOUS
  <2>1. FreeSlot.beating = FALSE
    BY DEF FreeSlot
  <2> QED
    BY <2>1, IdleLoopType DEF Init, SweepInv, OnTime, SweepAgrees
<1>2. PublishInv /\ SweepInv /\ [Next]_vars => SweepInv'
  BY SweepStep
<1> QED
  BY <1>1, <1>2, PublishInvariant, PTL DEF Spec

-----------------------------------------------------------------------------
(* The refinement *)

\* The steps of PublishLifecycle, on the view v of a row, the view u of what it
\* becomes and the state of the remote job.
ViewStep(v, u, state) ==
    \/ v.phase = "absent" /\ u = [v EXCEPT !.phase = "idle"]
    \/ v.phase = "idle" /\ u = [v EXCEPT !.phase = "busy"]
    \/ /\ v.phase = "busy" /\ state # "none"
       /\ u = [v EXCEPT !.phase = "idle", !.contact = "known", !.failures = 0]
    \/ /\ v.phase = "busy" /\ v.failures + 1 < MaxConsecutiveFailures
       /\ u = [v EXCEPT !.phase = "idle", !.failures = v.failures + 1]
    \/ /\ v.phase = "busy" /\ v.contact = "known" /\ state = "completed"
       /\ u = [v EXCEPT !.phase = "completed", !.failures = 0]
    \/ /\ v.phase = "busy"
       /\ \E reason \in {"remote", "exhausted", "error"} :
             /\ reason = "remote" => state = "failed"
             /\ reason = "exhausted"
                   => v.failures + 1 >= MaxConsecutiveFailures
             /\ \E n \in {v.failures, v.failures + 1} :
                   u = [v EXCEPT !.phase = "failed", !.reason = reason,
                                 !.failures = n]
    \/ /\ v.phase = "idle" \/ (v.phase = "busy" /\ state = "cancelled")
       /\ u = [v EXCEPT !.phase = "cancelled"]

\* A view written out.
V(p, c, n, r) == [phase |-> p, contact |-> c, failures |-> n, reason |-> r]

\* The view of a row.
LEMMA ViewOf ==
    ASSUME NEW row
    PROVE  /\ View(row) = V(Phase(row.status), row.remoteJobId,
                            row.consecutiveFailureCount, Reason(row))
           /\ row.status \in {"queued", "waiting", "retrying"}
                 => Phase(row.status) = "idle"
           /\ row.status = "processing" => Phase(row.status) = "busy"
           /\ row.status \in {"absent", "completed", "failed", "cancelled"}
                 => Phase(row.status) = row.status
           /\ row.status # "failed" => Reason(row) = "none"
<1>1. View(row) = V(Phase(row.status), row.remoteJobId,
                    row.consecutiveFailureCount, Reason(row))
  BY Zenon DEF View, V
<1>2. /\ row.status \in {"queued", "waiting", "retrying"}
            => Phase(row.status) = "idle"
      /\ row.status = "processing" => Phase(row.status) = "busy"
      /\ row.status \in {"absent", "completed", "failed", "cancelled"}
            => Phase(row.status) = row.status
  BY DEF Phase
<1>3. row.status # "failed" => Reason(row) = "none"
  BY DEF Reason
<1> QED
  BY <1>1, <1>2, <1>3, Zenon

\* The steps of the views that the rows take.
LEMMA ViewSteps ==
    ASSUME NEW c, NEW n, NEW state
    PROVE  LET busy == V("busy", c, n, "none") IN
           /\ ViewStep(V("absent", c, n, "none"), V("idle", c, n, "none"), state)
           /\ ViewStep(V("idle", c, n, "none"), busy, state)
           /\ ViewStep(V("idle", c, n, "none"), V("cancelled", c, n, "none"),
                       state)
           /\ state # "none"
                 => ViewStep(busy, V("idle", "known", 0, "none"), state)
           /\ n + 1 < MaxConsecutiveFailures
                 => ViewStep(busy, V("idle", c, n + 1, "none"), state)
           /\ c = "known" /\ state = "completed"
                 => ViewStep(busy, V("completed", c, 0, "none"), state)
           /\ state = "cancelled"
                 => ViewStep(busy, V("cancelled", c, n, "none"), state)
           /\ \A reason \in {"remote", "exhausted", "error"} :
                 (/\ reason = "remote" => state = "failed"
                  /\ reason = "exhausted" => n + 1 >= MaxConsecutiveFailures)
                    => \A m \in {n, n + 1} :
                          ViewStep(busy, V("failed", c, m, reason), state)
<1> DEFINE absent == V("absent", c, n, "none")
           idle == V("idle", c, n, "none")
           busy == V("busy", c, n, "none")
<1>1. /\ absent.phase = "absent" /\ idle.phase = "idle"
      /\ busy.phase = "busy" /\ busy.contact = c /\ busy.failures = n
  BY DEF V
<1>2. ViewStep(absent, idle, state)
  <2>1. idle = [absent EXCEPT !.phase = "idle"]
    BY DEF V
  <2> QED
    BY <1>1, <2>1, Zenon DEF ViewStep
<1>3. ViewStep(idle, busy, state)
  <2>1. busy = [idle EXCEPT !.phase = "busy"]
    BY DEF V
  <2> QED
    BY <1>1, <2>1, Zenon DEF ViewStep
<1>4. ViewStep(idle, V("cancelled", c, n, "none"), state)
  <2>1. V("cancelled", c, n, "none") = [idle EXCEPT !.phase = "cancelled"]
    BY DEF V
  <2> QED
    BY <1>1, <2>1, Zenon DEF ViewStep
<1>5. ASSUME state # "none"
      PROVE  ViewStep(busy, V("idle", "known", 0, "none"), state)
  <2>1. /\ [busy EXCEPT !.phase = "idle"] = V("idle", c, n, "none")
        /\ [V("idle", c, n, "none") EXCEPT !.contact = "known"]
              = V("idle", "known", n, "none")
        /\ [V("idle", "known", n, "none") EXCEPT !.failures = 0]
              = V("idle", "known", 0, "none")
    BY DEF V
  <2>2. V("idle", "known", 0, "none")
           = [busy EXCEPT !.phase = "idle", !.contact = "known", !.failures = 0]
    BY <2>1, Zenon
  <2> QED
    BY <1>1, <1>5, <2>2, Zenon DEF ViewStep
<1>6. ASSUME n + 1 < MaxConsecutiveFailures
      PROVE  ViewStep(busy, V("idle", c, n + 1, "none"), state)
  <2>1. /\ [busy EXCEPT !.phase = "idle"] = V("idle", c, n, "none")
        /\ [V("idle", c, n, "none") EXCEPT !.failures = busy.failures + 1]
              = V("idle", c, busy.failures + 1, "none")
    BY DEF V
  <2>2. V("idle", c, busy.failures + 1, "none")
           = [busy EXCEPT !.phase = "idle", !.failures = busy.failures + 1]
    BY <2>1, Zenon
  <2> QED
    BY <1>1, <1>6, <2>2, Zenon DEF ViewStep
<1>7. ASSUME c = "known", state = "completed"
      PROVE  ViewStep(busy, V("completed", c, 0, "none"), state)
  <2>1. /\ [busy EXCEPT !.phase = "completed"] = V("completed", c, n, "none")
        /\ [V("completed", c, n, "none") EXCEPT !.failures = 0]
              = V("completed", c, 0, "none")
    BY DEF V
  <2>2. V("completed", c, 0, "none")
           = [busy EXCEPT !.phase = "completed", !.failures = 0]
    BY <2>1, Zenon
  <2> QED
    BY <1>1, <1>7, <2>2, Zenon DEF ViewStep
<1>8. ASSUME state = "cancelled"
      PROVE  ViewStep(busy, V("cancelled", c, n, "none"), state)
  <2>1. V("cancelled", c, n, "none") = [busy EXCEPT !.phase = "cancelled"]
    BY DEF V
  <2> QED
    BY <1>1, <1>8, <2>1, Zenon DEF ViewStep
<1>9. ASSUME NEW reason \in {"remote", "exhausted", "error"},
             reason = "remote" => state = "failed",
             reason = "exhausted" => n + 1 >= MaxConsecutiveFailures,
             NEW m \in {n, n + 1}
      PROVE  ViewStep(busy, V("failed", c, m, reason), state)
  <2>1. /\ [busy EXCEPT !.phase = "failed"] = V("failed", c, n, "none")
        /\ [V("failed", c, n, "none") EXCEPT !.reason = reason]
              = V("failed", c, n, reason)
        /\ [V("failed", c, n, reason) EXCEPT !.failures = m]
              = V("failed", c, m, reason)
    BY DEF V
  <2>2. V("failed", c, m, reason)
           = [busy EXCEPT !.phase = "failed", !.reason = reason, !.failures = m]
    BY <2>1, Zenon
  <2>3. m \in {busy.failures, busy.failures + 1}
    BY <1>1
  <2>4. reason = "exhausted" => busy.failures + 1 >= MaxConsecutiveFailures
    BY <1>1, <1>9
  <2> QED
    BY <1>1, <1>9, <2>2, <2>3, <2>4, Zenon DEF ViewStep
<1> QED
  BY <1>2, <1>3, <1>4, <1>5, <1>6, <1>7, <1>8, <1>9, Zenon

\* Every change of a row is a step of its view, or none.
LEMMA RowRefines ==
    ASSUME PublishInv, FenceInv, SweepAgrees, NEW j \in Job,
           NEW new \in Row, RowBecomes(j, new)
    PROVE  \/ View(new) = View(jobs[j])
           \/ ViewStep(View(jobs[j]), View(new), remote[j])
<1> DEFINE row == jobs[j]
           v == View(row)
           u == View(new)
           state == remote[j]
           id == row.remoteJobId
           n == row.consecutiveFailureCount
<1>0. row \in Row /\ Sound(row, state) /\ n \in Nat
  BY DEF PublishInv, TypeOK, AllSound, Row
<1>1. RowMoves(j, new)
  BY Moves DEF PublishInv
<1>2. v = V(Phase(row.status), id, n, Reason(row))
  BY ViewOf
<1>3. u = V(Phase(new.status), new.remoteJobId, new.consecutiveFailureCount,
            Reason(new))
  BY ViewOf
<1> HIDE DEF u, v, state
<1>4. CASE /\ row.status = Absent /\ new.status = "queued"
           /\ new.remoteJobId = "none" /\ new.consecutiveFailureCount = 0
  <2>1. v = V("absent", "none", 0, "none") /\ u = V("idle", "none", 0, "none")
    BY <1>0, <1>2, <1>3, <1>4, ViewOf DEF Sound, Absent
  <2> QED
    BY <2>1, ViewSteps DEF v, u
<1>5. CASE /\ Cancellable(row) /\ Kept(row, new)
           /\ new.status \in {"cancelled", "processing"}
  <2>1. /\ v = V("idle", id, n, "none")
        /\ \/ u = V("cancelled", id, n, "none")
           \/ u = V("busy", id, n, "none")
    BY <1>2, <1>3, <1>5, ViewOf DEF Cancellable, Kept
  <2> QED
    BY <2>1, ViewSteps DEF v, u
<1>6. CASE /\ row.status = "processing" /\ new.status = "processing"
           /\ Kept(row, new)
  BY <1>2, <1>3, <1>6, ViewOf DEF Kept, v, u
<1>7. row.status = "processing" => v = V("busy", id, n, "none")
  BY <1>2, ViewOf
<1>8. ASSUME row.status = "processing", NEW w \in Worker, NEW s \in Slot,
             Ends(w, s, j, new)
      PROVE  ViewStep(v, u, state)
  <2> DEFINE e == exec[w][s]
  <2>1. /\ OutcomeColumns(row, e, new)
        /\ e.pc \in Recording \union Handling
        /\ Held(row, w) /\ e.job = j /\ Informed(e)
    BY <1>8, EndsWrites
  <2>2. e.pc \notin {"free", "reading"}
    BY <2>1 DEF Recording, Handling
  <2>3. e.failures = n
    BY <2>1, <2>2 DEF FenceInv, Fenced
  <2>4. v = V("busy", id, n, "none")
    BY <1>7, <1>8
  <2>5. /\ e.pc = "recording" => state # "none"
        /\ e.pc = "waiting" => id = "known" /\ state # "none"
        /\ e.pc = "completing" => id = "known" /\ state = "completed"
        /\ e.pc = "remote-failed" => state = "failed"
        /\ e.pc = "remote-cancelled" => state = "cancelled"
        /\ e.pc = "retrying" => n + 1 < MaxConsecutiveFailures
        /\ e.pc = "failing"
              => e.code \in {"call-error", "PUBLISH_REMOTE_JOB_CANCELLED"}
        /\ e.pc = "exhausting" =>
              /\ e.code = "PUBLISH_JOB_RETRY_EXHAUSTED"
              /\ n + 1 >= MaxConsecutiveFailures
    BY <1>0, <2>1, <2>3 DEF Informed, Learnt, Sound, state
  <2>6. CASE e.pc \in {"recording", "waiting"}
    <3>1. u = V("idle", "known", 0, "none")
      BY <1>3, <2>1, <2>5, <2>6, ViewOf DEF OutcomeColumns
    <3> QED
      BY <2>4, <2>5, <2>6, <3>1, ViewSteps
  <2>7. CASE e.pc = "completing"
    <3>1. u = V("completed", id, 0, "none")
      BY <1>3, <2>1, <2>7, ViewOf DEF OutcomeColumns
    <3> QED
      BY <2>4, <2>5, <2>7, <3>1, ViewSteps
  <2>8. CASE e.pc = "remote-cancelled"
    <3>1. u = V("cancelled", id, n, "none")
      BY <1>3, <2>1, <2>8, ViewOf DEF OutcomeColumns, Kept
    <3> QED
      BY <2>4, <2>5, <2>8, <3>1, ViewSteps
  <2>9. CASE e.pc = "retrying"
    <3>1. u = V("idle", id, n + 1, "none")
      BY <1>3, <2>1, <2>9, ViewOf DEF OutcomeColumns
    <3> QED
      BY <2>4, <2>5, <2>9, <3>1, ViewSteps
  <2>10. CASE e.pc \in {"remote-failed", "failing", "exhausting"}
    <3>1. u = V("failed", id, n, Reason(new))
      BY <1>3, <2>1, <2>10, ViewOf DEF OutcomeColumns
    <3>2. /\ Reason(new) \in {"remote", "exhausted", "error"}
          /\ Reason(new) = "remote" => state = "failed"
          /\ Reason(new) = "exhausted" => n + 1 >= MaxConsecutiveFailures
      BY <2>1, <2>5, <2>10 DEF OutcomeColumns, Reason
    <3>3. PICK reason \in {"remote", "exhausted", "error"} : reason = Reason(new)
      BY <3>2
    <3> QED
      BY <2>4, <3>1, <3>2, <3>3, ViewSteps
  <2> QED
    BY <2>1, <2>6, <2>7, <2>8, <2>9, <2>10 DEF Recording, Handling
<1>9. ASSUME row.status = "processing", NEW w \in Worker, Sweeps(w, j, new)
      PROVE  ViewStep(v, u, state)
  <2>1. SweepColumns(row, loop[w].seen[j], new)
    BY <1>9, SweepWrites DEF PublishInv
  <2>2. loop[w].seen[j].consecutiveFailureCount = n
    BY <1>9 DEF Sweeps, SweepAgrees
  <2>3. v = V("busy", id, n, "none")
    BY <1>7, <1>9
  <2>4. CASE new.status = "failed"
    <3>1. /\ u = V("failed", id, n + 1, "exhausted")
          /\ n + 1 >= MaxConsecutiveFailures
      BY <1>3, <2>1, <2>2, <2>4, ViewOf DEF SweepColumns, Reason
    <3> QED
      BY <2>3, <3>1, ViewSteps
  <2>5. CASE new.status # "failed"
    <3>1. u = V("idle", id, n + 1, "none") /\ n + 1 < MaxConsecutiveFailures
      BY <1>3, <2>1, <2>2, <2>5, ViewOf DEF SweepColumns
    <3> QED
      BY <2>3, <3>1, ViewSteps
  <2> QED
    BY <2>4, <2>5
<1>10. CASE new = row
  BY <1>10 DEF u, v
<1>11. u = v \/ ViewStep(v, u, state)
  BY <1>1, <1>4, <1>5, <1>6, <1>8, <1>9, <1>10
     DEF RowMoves, u, v, state
<1> QED
  BY <1>11 DEF u, v, state

\* The variable of PublishLifecycle.
Views == [j \in Job |-> View(jobs[j])]

\* A row's step is a move of its job.
LEMMA JobRefines ==
    ASSUME NEW j \in Job,
           \/ View(jobs'[j]) = View(jobs[j])
           \/ ViewStep(View(jobs[j]), View(jobs'[j]), remote[j])
    PROVE  Lifecycle!JobMoves(j)
<1> DEFINE v == View(jobs[j])
           u == View(jobs'[j])
<1>1. Views[j] = v /\ Views'[j] = u
  BY Zenon DEF Views
<1> HIDE DEF v, u
<1>2. \A new : Lifecycle!Becomes(j, new) <=> u = new
  BY <1>1, Zenon DEF Lifecycle!Becomes, Views
<1>3. CASE u = v
  BY <1>1, <1>3, Zenon DEF Lifecycle!JobMoves, Views
<1>4. CASE ViewStep(v, u, remote[j])
  <2>1. ASSUME v.phase = "absent", u = [v EXCEPT !.phase = "idle"]
        PROVE  Lifecycle!Request(j)
    BY <1>1, <1>2, <2>1, Zenon DEF Lifecycle!Request, Views
  <2>2. ASSUME v.phase = "idle", u = [v EXCEPT !.phase = "busy"]
        PROVE  Lifecycle!TakeUp(j)
    BY <1>1, <1>2, <2>2, Zenon DEF Lifecycle!TakeUp, Views
  <2>3. ASSUME v.phase = "busy", remote[j] # "none",
               u = [v EXCEPT !.phase = "idle", !.contact = "known",
                             !.failures = 0]
        PROVE  Lifecycle!Contact(j)
    BY <1>1, <1>2, <2>3, Zenon DEF Lifecycle!Contact, Views
  <2>4. ASSUME v.phase = "busy", v.failures + 1 < MaxConsecutiveFailures,
               u = [v EXCEPT !.phase = "idle", !.failures = v.failures + 1]
        PROVE  Lifecycle!Stumble(j)
    BY <1>1, <1>2, <2>4, Zenon DEF Lifecycle!Stumble, Views
  <2>5. ASSUME v.phase = "busy", v.contact = "known", remote[j] = "completed",
               u = [v EXCEPT !.phase = "completed", !.failures = 0]
        PROVE  Lifecycle!Complete(j)
    BY <1>1, <1>2, <2>5, Zenon DEF Lifecycle!Complete, Views
  <2>6. ASSUME v.phase = "busy", NEW reason \in {"remote", "exhausted", "error"},
               reason = "remote" => remote[j] = "failed",
               reason = "exhausted" => v.failures + 1 >= MaxConsecutiveFailures,
               NEW n \in {v.failures, v.failures + 1},
               u = [v EXCEPT !.phase = "failed", !.reason = reason,
                             !.failures = n]
        PROVE  Lifecycle!Fail(j)
    BY <1>1, <1>2, <2>6, Zenon DEF Lifecycle!Fail, Views
  <2>7. ASSUME v.phase = "idle" \/ (v.phase = "busy" /\ remote[j] = "cancelled"),
               u = [v EXCEPT !.phase = "cancelled"]
        PROVE  Lifecycle!Cancel(j)
    BY <1>1, <1>2, <2>7, Zenon DEF Lifecycle!Cancel, Views
  <2> QED
    BY <1>4, <2>1, <2>2, <2>3, <2>4, <2>5, <2>6, <2>7, Zenon
       DEF ViewStep, Lifecycle!JobMoves
<1> QED
  BY <1>3, <1>4 DEF v, u

\* Every step of the publish queue is a step of PublishLifecycle.
LEMMA StepRefines ==
    ASSUME PublishInv, FenceInv, SweepAgrees, [Next]_vars
    PROVE  Lifecycle!Next
<1>1. StepShape
  BY StepInv
<1>2. ASSUME NEW j \in Job PROVE Lifecycle!JobMoves(j)
  <2>1. jobs'[j] \in Row /\ RowBecomes(j, jobs'[j])
    BY <1>1 DEF StepShape, JobsStep
  <2> QED
    BY <2>1, RowRefines, JobRefines
<1>3. ASSUME NEW j \in Job PROVE Lifecycle!EngineMoves(j)
  BY <1>1 DEF StepShape, EngineStep, Lifecycle!EngineMoves
<1>4. DOMAIN Views' = Job /\ DOMAIN remote' = Job
  <2>1. DOMAIN Views' = Job
    BY Zenon DEF Views
  <2>2. remote' \in [Job -> RemoteState]
    BY <1>1 DEF StepShape, EngineStep
  <2> QED
    BY <2>1, <2>2
<1> QED
  BY <1>2, <1>3, <1>4, Zenon DEF Lifecycle!Next, Views

\* The publish queue keeps the promise of PublishLifecycle, for every set of
\* jobs and workers and any number of executions per worker, as long as no
\* worker is offered a job it is still executing and statements are under way
\* for less than a lease.
THEOREM LifecycleImplementedUnlessReoffered ==
    ASSUME MaxLag < LeaseDuration
    PROVE  Spec /\ []NotReoffered => ImplementsLifecycle
<1>1. Init => Lifecycle!Init
  <2>1. View(NoRow) = Lifecycle!Unborn
    BY DEF View, Phase, Reason, NoRow, Lifecycle!Unborn, Absent
  <2> QED
    BY <2>1 DEF Init, Lifecycle!Init
<1>2. PublishInv /\ FenceInv /\ SweepInv /\ [Next]_vars
         => [Lifecycle!Next]_<<Views, remote>>
  BY StepRefines DEF SweepInv
<1> QED
  BY <1>1, <1>2, PublishInvariant, FenceInvariant, SweepInvariant, PTL
     DEF Spec, ImplementsLifecycle, Lifecycle!Spec, Views

\* With one execution per worker the publish queue keeps the promise of
\* PublishLifecycle.
THEOREM LifecycleImplemented ==
    ASSUME Concurrency = 1, MaxLag < LeaseDuration
    PROVE  Spec => ImplementsLifecycle
BY OneSlotNotReoffered, LifecycleImplementedUnlessReoffered, PTL

=============================================================================
