------------------------ MODULE PublishEngineClient ------------------------
(***************************************************************************)
(* One call of HttpPublishEngineClient: submitRender or submitCtaRender    *)
(* (a submission), getJob or getDownload (a read), or waitForJob, which    *)
(* repeats getJob.  requestWithRetry makes attempts; an attempt asks for   *)
(* an access token, sends a request with a timer and reads the body of the *)
(* response.  The engine may process a request at any time after it was    *)
(* sent, also when the attempt has been given up.                          *)
(*                                                                         *)
(* The timer runs while fetch does, no longer; an access token and a body  *)
(* each take at most MaxLag, for which only the platform's own timeouts    *)
(* stand.  Bodies, headers and schemas are classes of answers.             *)
(***************************************************************************)
EXTENDS RetryPolicy

CONSTANTS
    MaxRetries,      \* config.maxRetries
    RequestTimeout,  \* options.timeoutMs or config.requestTimeoutMs
    PollInterval,    \* options.pollIntervalMs or config.pollIntervalMs
    MaxWait,         \* options.maxWaitMs or config.maxWaitMs
    JitterPercent,   \* config.retryJitterRatio, in per cent
    RetryAfter,      \* the Retry-After headers of the engine
    MaxLag,          \* the longest time a token or a body takes
    MaxTime          \* bound on clock

ASSUME MaxRetriesAssumption == MaxRetries \in Nat
ASSUME RequestTimeoutAssumption == RequestTimeout \in Nat \ {0}
ASSUME PollIntervalAssumption == PollInterval \in Nat \ {0}
ASSUME MaxWaitAssumption == MaxWait \in Nat \ {0}
ASSUME JitterPercentAssumption == JitterPercent \in 0 .. 100
ASSUME RetryAfterAssumption ==
    RetryAfter \subseteq [kind : {"none", "unreadable", "seconds", "date"},
                          value : Int]
ASSUME MaxLagAssumption == MaxLag \in Nat
ASSUME MaxTimeAssumption == MaxTime \in Nat

VARIABLES
    clock,    \* the current time
    aborted,  \* the caller's signal
    call,     \* the call
    wire,     \* submissions on the wire, not yet processed
    renders   \* remote jobs the engine has made of them

vars == <<clock, aborted, call, wire, renders>>

-----------------------------------------------------------------------------
(* Retry policy *)

\* What the client may throw.  cancelled and aborted are both a
\* PublishEngineCancelledError: the caller's signal, and a fetch that rejects as
\* an abort although neither the signal nor the timer has aborted it.
PublishEngineError ==
    {"protocol", "artifact", "authentication", "cancelled", "aborted",
     "transport", "timeout", "retry-exhausted", "idempotency-conflict",
     "remote-request", "unexpected", "job-failed", "job-cancelled",
     "wait-timeout"}

\* Classes of HTTP status: 408, 429, 502, 503 and 504 may be retried.
Status == {"2xx", "401", "409-conflict", "4xx", "retryable", "5xx"}

isRetryableStatus(status) == status = "retryable"

\* A submission may be sent again only with an idempotency key.
shouldRetryOperation(kind, keyed) == kind = "read" \/ keyed

\* The error of an attempt: status tells remote-request errors apart.
Failure == [error : PublishEngineError, status : Status \union {"none"}]
Fail(error) == [error |-> error, status |-> "none"]

\* VARIANT of classifyRetry: every status from 500 on may be retried.
classifyRetryServerErrors(failure, kind, keyed) ==
    /\ \/ failure.error \in {"timeout", "transport"}
       \/ failure.error = "remote-request" /\ failure.status \in {"retryable", "5xx"}
    /\ shouldRetryOperation(kind, keyed)

classifyRetry(failure, kind, keyed) ==
    /\ \/ failure.error \in {"timeout", "transport"}
       \/ /\ failure.error = "remote-request"
          /\ isRetryableStatus(failure.status)
    /\ shouldRetryOperation(kind, keyed)

\* A Retry-After header: none, unreadable, seconds (in ticks here) or a date.
parseRetryAfterMs(header, now) ==
    CASE header.kind = "seconds" /\ header.value >= 0 -> {header.value}
      [] header.kind = "date" ->
            {IF header.value < now THEN 0 ELSE header.value - now}
      [] OTHER -> {}

\* calculateRetryDelayMs with jitter: random() may be anything in [0, 1).
JitteredDelays(attempt) ==
    {(calculateRetryDelayMs(attempt) * percent) \div 100 :
        percent \in 100 - JitterPercent .. 100 + JitterPercent}

Least(S) == CHOOSE x \in S : \A y \in S : x <= y

\* The server's wish goes before the policy's delay, within the policy's cap
\* and the remaining budget.
resolveRetryDelayMs(attempt, header, now, remaining) ==
    LET after == parseRetryAfterMs(header, now)
        bases == IF after # {} THEN after ELSE JitteredDelays(attempt)
    IN  {Least({base, RetryMaxDelay, remaining}) : base \in bases}

-----------------------------------------------------------------------------
(* The call *)

\* idle: not made yet; waiting: waitForJob, about to call getJob; looping: the
\* retry loop, about to make an attempt; token, fetching, body: inside
\* performHttpRequest; sleeping, pausing: asleep in requestWithRetry, in
\* waitForJob.
Pc == {"idle", "waiting", "looping", "token", "fetching", "body", "sleeping",
       "pausing", "answered", "threw"}

\* waits: the call is waitForJob; owned: it has an interval or a limit of its
\* own; limit: the timeoutMs of the attempt; since: when the token, the body or
\* the fetch began; wakeAt: when the sleep is over.
Call == [pc          : Pc,
         kind        : {"submission", "read"},
         keyed       : BOOLEAN,
         waits       : BOOLEAN,
         owned       : BOOLEAN,
         attempt     : Nat,
         startedAt   : Nat,
         waitingFrom : Nat,
         limit       : Nat \ {0},
         since       : Nat,
         wakeAt      : Nat,
         status      : Status \union {"none"},
         error       : PublishEngineError \union {"none"}]

TypeOK ==
    /\ clock \in Nat
    /\ aborted \in BOOLEAN
    /\ call \in Call
    /\ wire \in Nat
    /\ renders \in Nat

\* A call of waitForJob is a read.
Init ==
    /\ clock = 0
    /\ aborted = FALSE
    /\ \E kind \in {"submission", "read"}, keyed, waits, owned \in BOOLEAN :
          /\ waits => kind = "read" /\ ~keyed
          /\ owned => waits
          /\ call = [pc |-> "idle", kind |-> kind, keyed |-> keyed,
                     waits |-> waits, owned |-> owned, attempt |-> 0,
                     startedAt |-> 0, waitingFrom |-> 0, limit |-> RequestTimeout,
                     since |-> 0, wakeAt |-> 0, status |-> "none",
                     error |-> "none"]
    /\ wire = 0
    /\ renders = 0

Remaining(c) == RequestTimeout - (clock - c.startedAt)

Thrown(c, error) == [c EXCEPT !.pc = "threw", !.error = error]

\* requestWithRetry begins.
Requested(c) ==
    [c EXCEPT !.pc = "looping", !.attempt = 1, !.startedAt = clock]

Quiet == UNCHANGED <<clock, aborted, wire, renders>>

\* The request and its options pass their schemas and, for a submission, the
\* source matches its size and checksum.
Start ==
    /\ call.pc = "idle"
    /\ call' = IF call.waits
               THEN [call EXCEPT !.pc = "waiting", !.waitingFrom = clock]
               ELSE Requested(call)
    /\ Quiet

\* They do not, and nothing is sent.
Refuse ==
    /\ call.pc = "idle"
    /\ \/ call' = Thrown(call, "protocol")
       \/ call.kind = "submission" /\ call' = Thrown(call, "artifact")
    /\ Quiet

\* The caller aborts.  Only a fetch under way is told; sleeps, bodies and the
\* retry loop go on.
Abort ==
    /\ ~aborted
    /\ call.pc \notin {"answered", "threw"}
    /\ aborted' = TRUE
    /\ UNCHANGED <<clock, call, wire, renders>>

-----------------------------------------------------------------------------
(* waitForJob *)

\* waitForJob hands its options on to getJob, whose strict schema knows neither
\* pollIntervalMs nor maxWaitMs.
WaitForJob ==
    /\ call.pc = "waiting"
    /\ call' = CASE aborted -> Thrown(call, "cancelled")
                 [] ~aborted /\ call.owned -> Thrown(call, "protocol")
                 [] OTHER -> Requested(call)
    /\ Quiet

\* What waitForJob does with the job that getJob has answered.
JobSeen(c, state) ==
    LET remaining == MaxWait - (clock - c.waitingFrom) IN
    CASE state = "succeeded" -> [c EXCEPT !.pc = "answered"]
      [] state = "failed" -> Thrown(c, "job-failed")
      [] state = "cancelled" -> Thrown(c, "job-cancelled")
      [] state = "running" /\ remaining <= 0 -> Thrown(c, "wait-timeout")
      [] OTHER -> [c EXCEPT !.pc = "pausing",
                            !.wakeAt = clock + Least({PollInterval, remaining})]

-----------------------------------------------------------------------------
(* requestWithRetry *)

\* VARIANT of Attempt: every attempt has the whole timeout.
AttemptAfresh ==
    /\ call.pc = "looping"
    /\ call' = IF Remaining(call) <= 0 THEN Thrown(call, "timeout")
               ELSE [call EXCEPT !.pc = "token", !.since = clock]
    /\ Quiet

\* An attempt begins if there is time left.
Attempt ==
    /\ call.pc = "looping"
    /\ call' = IF Remaining(call) <= 0 THEN Thrown(call, "timeout")
               ELSE [call EXCEPT !.pc = "token", !.limit = Remaining(call),
                                 !.since = clock]
    /\ Quiet

\* What an attempt that fails may lead to.
Retry(c, failure, header) ==
    IF ~classifyRetry(failure, c.kind, c.keyed) THEN {Thrown(c, failure.error)}
    ELSE IF c.attempt >= MaxRetries + 1 THEN {Thrown(c, "retry-exhausted")}
    ELSE IF Remaining(c) <= 0 THEN {Thrown(c, "timeout")}
    ELSE {[c EXCEPT !.pc = "sleeping", !.wakeAt = clock + delay] :
             delay \in resolveRetryDelayMs(c.attempt, header, clock,
                                           Remaining(c))}

NoHeader == [kind |-> "none", value |-> 0]

\* VARIANT of Wake: attempts are not counted.
WakeUncounted ==
    /\ call.pc \in {"sleeping", "pausing"}
    /\ clock >= call.wakeAt
    /\ call' = [call EXCEPT !.pc = IF @ = "pausing" THEN "waiting" ELSE "looping"]
    /\ Quiet

\* The sleep is over; nobody looks at the signal.
Wake ==
    /\ call.pc \in {"sleeping", "pausing"}
    /\ clock >= call.wakeAt
    /\ call' = IF call.pc = "pausing" THEN [call EXCEPT !.pc = "waiting"]
               ELSE [call EXCEPT !.pc = "looping", !.attempt = @ + 1]
    /\ Quiet

-----------------------------------------------------------------------------
(* performHttpRequest *)

\* acquireAccessToken throws, whatever the reason, a cancelled caller included.
TokenThrows ==
    /\ call.pc = "token"
    /\ call' = Thrown(call, "authentication")
    /\ Quiet

\* The token is valid: a timer is set for what was left before the token was
\* asked for, and the request is sent unless the signal has aborted already.
Send ==
    /\ call.pc = "token"
    /\ IF aborted
       THEN /\ call' = Thrown(call, "cancelled")
            /\ UNCHANGED wire
       ELSE /\ call' = [call EXCEPT !.pc = "fetching", !.since = clock]
            /\ wire' = IF call.kind = "submission" THEN wire + 1 ELSE wire
    /\ UNCHANGED <<clock, aborted, renders>>

TimedOut == clock >= call.since + call.limit

\* VARIANT of FetchThrows: a failure that is not the signal's is a timeout.
FetchThrowsTimeout ==
    /\ call.pc = "fetching"
    /\ call' \in Retry(call, Fail(IF aborted THEN "cancelled" ELSE "timeout"),
                       NoHeader)
    /\ Quiet

\* VARIANT of FetchThrows: a timeout is an abort, too.
FetchThrowsCancelled ==
    /\ call.pc = "fetching"
    /\ call' \in Retry(call, Fail(IF aborted \/ TimedOut THEN "cancelled"
                                  ELSE "transport"),
                       NoHeader)
    /\ Quiet

\* fetch throws: by the signal, by the timer, or because the network fails and
\* the error does not look like an abort (FetchAborts).
FetchThrows ==
    /\ call.pc = "fetching"
    /\ call' \in Retry(call,
                       Fail(CASE aborted -> "cancelled"
                              [] ~aborted /\ TimedOut -> "timeout"
                              [] OTHER -> "transport"),
                       NoHeader)
    /\ Quiet

\* fetch throws what isAbortError takes for an abort, by its name or because
\* its message speaks of one, and neither the signal nor the timer was the
\* reason: cancelled as well, and not retried.
FetchAborts ==
    /\ call.pc = "fetching"
    /\ ~aborted
    /\ ~TimedOut
    /\ call' \in Retry(call, Fail("aborted"), NoHeader)
    /\ Quiet

\* The status line and the headers of a response arrive.  A submission is
\* answered with success once the engine has its job.
FetchAnswers ==
    /\ call.pc = "fetching"
    /\ ~TimedOut
    /\ ~aborted
    /\ \E status \in Status :
          /\ (status = "2xx" /\ call.kind = "submission") => renders > 0
          /\ call' = [call EXCEPT !.pc = "body", !.since = clock,
                                  !.status = status]
    /\ Quiet

\* The body of a success is read and is what the operation's schema asks for.
BodyAccepted ==
    /\ call.pc = "body"
    /\ call.status = "2xx"
    /\ \/ ~call.waits /\ call' = [call EXCEPT !.pc = "answered"]
       \/ /\ call.waits
          /\ \E state \in {"running", "succeeded", "failed", "cancelled"} :
                call' = JobSeen(call, state)
    /\ Quiet

\* It is not JSON, or the schema rejects it, or reading it fails.
BodyRejected ==
    /\ call.pc = "body"
    /\ call.status = "2xx"
    /\ \E error \in {"protocol", "unexpected"} :
          call' \in Retry(call, Fail(error), NoHeader)
    /\ Quiet

\* The body of an error matters for 409 only; one that cannot be read or
\* parsed counts as absent.
ErrorOf(status) ==
    CASE status = "401" -> "authentication"
      [] status = "409-conflict" -> "idempotency-conflict"
      [] OTHER -> "remote-request"

ErrorBody ==
    /\ call.pc = "body"
    /\ call.status # "2xx"
    /\ \E header \in RetryAfter \union {NoHeader} :
          call' \in Retry(call, [error |-> ErrorOf(call.status),
                                 status |-> call.status], header)
    /\ Quiet

-----------------------------------------------------------------------------

\* The engine gets to a submission: one with a key is the same job each time.
EngineProcesses ==
    /\ wire > 0
    /\ wire' = wire - 1
    /\ renders' = IF call.keyed /\ renders > 0 THEN renders ELSE renders + 1
    /\ UNCHANGED <<clock, aborted, call>>

\* Timers and sleeps end on time; tokens and bodies take at most MaxLag.
Tick ==
    /\ clock < MaxTime
    /\ call.pc \notin {"idle", "waiting", "looping", "answered", "threw"}
    /\ call.pc \in {"token", "body"} => clock < call.since + MaxLag
    /\ call.pc = "fetching" => ~aborted /\ ~TimedOut
    /\ call.pc \in {"sleeping", "pausing"} => clock < call.wakeAt
    /\ clock' = clock + 1
    /\ UNCHANGED <<aborted, call, wire, renders>>

Ended == call.pc \in {"answered", "threw"}

\* Nothing is left to do.
Done == Ended /\ wire = 0 /\ UNCHANGED vars

Proceed ==
    \/ Start \/ Refuse \/ WaitForJob \/ Attempt \/ Wake
    \/ TokenThrows \/ Send \/ FetchThrows \/ FetchAborts \/ FetchAnswers
    \/ BodyAccepted \/ BodyRejected \/ ErrorBody

Next == Proceed \/ Abort \/ EngineProcesses \/ Tick \/ Done

Spec == Init /\ [][Next]_vars

\* The call goes on: fetch has a timer, sleeps end, tokens and bodies arrive.
FairSpec == Spec /\ WF_vars(Proceed) /\ WF_vars(Tick)

-----------------------------------------------------------------------------
(* Properties *)

\* A call is over in time: the request timeout bounds all attempts and pauses
\* of a request together, but for one token and one body; a wait ends that
\* long after its limit.
OverInTime ==
    ~Ended =>
        /\ call.pc \notin {"idle", "waiting", "pausing"}
              => clock - call.startedAt <= RequestTimeout + 2 * MaxLag
        /\ call.waits => clock - call.waitingFrom
                            <= MaxWait + RequestTimeout + 2 * MaxLag

\* The client gives up only when something has really run out: the time of the
\* request, the time of the wait, or the retries, all of which were made.
TimeoutTruthful ==
    /\ call.error = "retry-exhausted" => call.attempt = MaxRetries + 1
    /\ call.error = "timeout" => clock - call.startedAt >= RequestTimeout
    /\ call.error = "wait-timeout" => clock - call.waitingFrom >= MaxWait

\* The engine's word is final: when it has answered with success or with an
\* error that no repetition mends, no further request is sent.
FinalWordStep ==
    (call.pc = "body" /\ ~isRetryableStatus(call.status))
        => \/ call'.pc \in {"body", "answered", "threw"}
           \/ call.waits /\ call'.pc = "pausing"
FinalWord == [][FinalWordStep]_vars

\* Every call ends.
CallEnds == call.pc # "idle" ~> Ended

\* The client keeps what PublishWorkers counts on, see RemoteCall.
Phase ==
    CASE call.pc = "idle" -> "new"
      [] call.pc = "answered" -> "answered"
      [] call.pc = "threw" ->
            CASE call.error = "cancelled" -> "cancelled"
              [] call.error = "aborted" -> "broken"
              [] OTHER -> "threw"
      [] OTHER -> "open"

Promise == INSTANCE RemoteCall
               WITH kind <- call.kind, phase <- Phase, given <- aborted,
                    rendered <- renders

ImplementsRemoteCall == Promise!Spec

=============================================================================
