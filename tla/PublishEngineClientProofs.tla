---------------------- MODULE PublishEngineClientProofs ----------------------
(***************************************************************************)
(* For every timeout, limit, number of retries and Retry-After header: a   *)
(* call is over in time, its timeouts are true, the engine's word is       *)
(* final, and the client implements RemoteCall.                            *)
(*                                                                         *)
(* OverInTime bounds a call as a whole; Times bounds it at each await,     *)
(* from what Attempt, Send and the pauses compute: an attempt's limit ends *)
(* where the request's timeout does, shifted by the time the token took.   *)
(* That a submission without a key is rendered once needs Attempts (it is  *)
(* never repeated) and Sent (nor is it sent before its only attempt).      *)
(***************************************************************************)
EXTENDS PublishEngineClient, TLAPS

USE RetryDelayAssumption, MaxRetriesAssumption, RequestTimeoutAssumption,
    PollIntervalAssumption, MaxWaitAssumption, JitterPercentAssumption,
    RetryAfterAssumption, MaxLagAssumption, MaxTimeAssumption

\* Where the call is bounds the time it has taken so far.
Times ==
    /\ call.pc = "idle" => clock = 0
    /\ call.pc = "waiting" => clock <= call.waitingFrom + MaxWait
    /\ call.pc \in {"looping", "token", "fetching", "body", "sleeping"} =>
          /\ call.startedAt <= clock
          /\ call.waits => call.startedAt <= call.waitingFrom + MaxWait
    /\ call.pc = "looping" => clock <= call.startedAt + RequestTimeout
    /\ call.pc = "token" =>
          /\ call.since <= clock
          /\ clock <= call.since + MaxLag
          /\ call.since + call.limit = call.startedAt + RequestTimeout
    /\ call.pc = "fetching" =>
          /\ clock <= call.since + call.limit
          /\ call.startedAt + RequestTimeout <= call.since + call.limit
          /\ call.since + call.limit
                <= call.startedAt + RequestTimeout + MaxLag
    /\ call.pc = "body" =>
          /\ clock <= call.since + MaxLag
          /\ call.since <= call.startedAt + RequestTimeout + MaxLag
    /\ call.pc = "sleeping" =>
          /\ clock <= call.wakeAt
          /\ call.wakeAt <= call.startedAt + RequestTimeout
    /\ call.pc = "pausing" =>
          /\ clock <= call.wakeAt
          /\ call.wakeAt <= call.waitingFrom + MaxWait

\* Retries are counted, and only what may be repeated is.
Attempts ==
    /\ call.attempt <= MaxRetries + 1
    /\ call.pc = "sleeping" =>
          /\ call.attempt <= MaxRetries
          /\ shouldRetryOperation(call.kind, call.keyed)
    /\ call.pc \in {"waiting", "pausing"} => call.waits
    /\ call.waits => call.kind = "read"
    /\ call.error # "none" => call.pc = "threw"

\* A submission without a key is on the wire or with the engine at most once,
\* and not before its only attempt sends it.
Sent ==
    /\ call.kind = "read" \/ call.pc = "idle" => wire = 0 /\ renders = 0
    /\ renders <= 1
    /\ ~call.keyed => wire + renders <= 1
    /\ ~call.keyed /\ call.pc \in {"looping", "token"} => wire + renders = 0
    /\ call.pc = "body" /\ call.status = "2xx" /\ call.kind = "submission"
          => renders = 1

ClientInv == TypeOK /\ Times /\ Attempts /\ Sent /\ TimeoutTruthful

-----------------------------------------------------------------------------
(* The delays.                                                             *)

\* The exponential delay, capped, is a natural number.
LEMMA RetryDelayType ==
    ASSUME NEW n \in Nat
    PROVE  calculateRetryDelayMs(n) \in Nat
<1> DEFINE x == RetryBaseDelay * 2 ^ (n - 1)
<1>1. CASE n <= 0
  BY <1>1 DEF calculateRetryDelayMs
<1>2. CASE n > 0 /\ x \in 0 .. RetryMaxDelay
  <2>1. calculateRetryDelayMs(n) = x
    BY <1>2 DEF calculateRetryDelayMs
  <2> HIDE DEF x
  <2> QED
    BY <1>2, <2>1
<1>3. CASE n > 0 /\ x \notin 0 .. RetryMaxDelay
  <2>1. calculateRetryDelayMs(n) = RetryMaxDelay
    BY <1>3 DEF calculateRetryDelayMs
  <2> QED
    BY <2>1
<1> HIDE DEF x
<1> QED
  BY <1>1, <1>2, <1>3

\* Math.min of three numbers is one of them and not above any.
LEMMA LeastOfThree ==
    ASSUME NEW a \in Int, NEW b \in Int, NEW c \in Int
    PROVE  /\ Least({a, b, c}) \in {a, b, c}
           /\ Least({a, b, c}) <= a
           /\ Least({a, b, c}) <= b
           /\ Least({a, b, c}) <= c
<1> DEFINE S == {a, b, c}
           IsLeast(x) == x \in S /\ \A y \in S : x <= y
<1>1. \E x \in S : \A y \in S : x <= y
  <2>1. CASE a <= b /\ a <= c
    BY <2>1
  <2>2. CASE b <= a /\ b <= c
    BY <2>2
  <2>3. CASE c <= a /\ c <= b
    BY <2>3
  <2> QED
    BY <2>1, <2>2, <2>3
<1>2. Least(S) \in S /\ \A y \in S : Least(S) <= y
  BY <1>1, Zenon DEF Least
<1> QED
  BY <1>2

\* Math.min of two numbers.
LEMMA LeastOfTwo ==
    ASSUME NEW a \in Int, NEW b \in Int
    PROVE  /\ Least({a, b}) \in {a, b}
           /\ Least({a, b}) <= a
           /\ Least({a, b}) <= b
<1>1. {a, b} = {a, b, b}
  OBVIOUS
<1> QED
  BY <1>1, LeastOfThree

\* The jitter, a percentage of a delay, is a natural number.
LEMMA HundredthType ==
    ASSUME NEW a \in Nat, NEW b \in Nat
    PROVE  (a * b) \div 100 \in Nat
<1>1. a * b \in Nat
  OBVIOUS
<1>2. \A x \in Nat : x \div 100 \in Nat
  OBVIOUS
<1> QED
  BY <1>1, <1>2

\* A pause before a retry is not negative and ends before the time does.
LEMMA RetryPause ==
    ASSUME NEW attempt \in Nat, NEW header \in RetryAfter \union {NoHeader},
           NEW now \in Nat, NEW remaining \in Int, remaining > 0,
           NEW delay \in resolveRetryDelayMs(attempt, header, now, remaining)
    PROVE  delay \in Nat /\ delay <= remaining
<1> DEFINE after == parseRetryAfterMs(header, now)
           bases == IF after # {} THEN after ELSE JitteredDelays(attempt)
<1>1. after \subseteq Nat
  <2>1. header \in [kind : {"none", "unreadable", "seconds", "date"},
                    value : Int]
    BY DEF NoHeader
  <2>2. CASE header.kind = "seconds" /\ header.value >= 0
    BY <2>1, <2>2 DEF parseRetryAfterMs
  <2>3. CASE header.kind = "date"
    BY <2>1, <2>3 DEF parseRetryAfterMs
  <2>4. CASE ~(header.kind = "seconds" /\ header.value >= 0)
             /\ header.kind # "date"
    BY <2>1, <2>4 DEF parseRetryAfterMs
  <2> QED
    BY <2>2, <2>3, <2>4
<1>2. JitteredDelays(attempt) \subseteq Nat
  <2>1. SUFFICES ASSUME NEW percent \in 100 - JitterPercent .. 100 + JitterPercent
                 PROVE  (calculateRetryDelayMs(attempt) * percent) \div 100
                           \in Nat
    BY DEF JitteredDelays
  <2>2. calculateRetryDelayMs(attempt) \in Nat /\ percent \in Nat
    BY RetryDelayType
  <2> QED
    BY <2>2, HundredthType
<1>3. bases \subseteq Nat
  BY <1>1, <1>2
<1>4. PICK base \in bases : delay = Least({base, RetryMaxDelay, remaining})
  BY DEF resolveRetryDelayMs
<1>5. base \in Nat
  BY <1>3
<1>6. /\ delay \in {base, RetryMaxDelay, remaining}
      /\ delay <= remaining
  <2>1. base \in Int /\ RetryMaxDelay \in Int /\ remaining \in Int
    BY <1>5
  <2> HIDE DEF bases
  <2> QED
    BY <1>4, <2>1, LeastOfThree, Zenon
<1> QED
  BY <1>5, <1>6

-----------------------------------------------------------------------------
(* The steps.                                                              *)

\* What is shown of every step: the invariant, that the engine's word is final,
\* and that it is a step of RemoteCall.
StepOK ==
    /\ ClientInv'
    /\ FinalWordStep
    /\ [Promise!Next]_(Promise!vars)

\* What the caller sees of a call, by where it is in the client.
LEMMA PhaseValues ==
    ASSUME call \in Call
    PROVE  /\ call.pc = "idle" => Phase = "new"
           /\ call.pc = "answered" => Phase = "answered"
           /\ call.pc = "threw" /\ call.error = "cancelled"
                 => Phase = "cancelled"
           /\ call.pc = "threw" /\ call.error = "aborted" => Phase = "broken"
           /\ call.pc = "threw" /\ call.error \notin {"cancelled", "aborted"}
                 => Phase = "threw"
           /\ call.pc \in Pc \ {"idle", "answered", "threw"} => Phase = "open"
BY DEF Phase, Pc

\* The same of the next state.
LEMMA PhaseValuesNext ==
    ASSUME (call \in Call)'
    PROVE  /\ call'.pc = "idle" => Phase' = "new"
           /\ call'.pc = "answered" => Phase' = "answered"
           /\ call'.pc = "threw" /\ call'.error = "cancelled"
                 => Phase' = "cancelled"
           /\ call'.pc = "threw" /\ call'.error = "aborted"
                 => Phase' = "broken"
           /\ call'.pc = "threw" /\ call'.error \notin {"cancelled", "aborted"}
                 => Phase' = "threw"
           /\ call'.pc \in Pc \ {"idle", "answered", "threw"}
                 => Phase' = "open"
BY DEF Phase, Pc

\* A call that throws is over and keeps what it was asked to do.
LEMMA ThrownFields ==
    ASSUME NEW c \in Call, NEW error \in PublishEngineError
    PROVE  /\ Thrown(c, error) \in Call
           /\ Thrown(c, error).pc = "threw" /\ Thrown(c, error).error = error
           /\ Thrown(c, error).kind = c.kind
           /\ Thrown(c, error).keyed = c.keyed
           /\ Thrown(c, error).waits = c.waits
           /\ Thrown(c, error).attempt = c.attempt
           /\ Thrown(c, error).startedAt = c.startedAt
           /\ Thrown(c, error).waitingFrom = c.waitingFrom
<1>1. "threw" \in Pc
  BY DEF Pc
<1> QED
  BY <1>1 DEF Thrown, Call

\* The call throws.
LEMMA Throws ==
    ASSUME ClientInv, call.pc \notin {"answered", "threw"},
           NEW error \in PublishEngineError, call' = Thrown(call, error), Quiet,
           error = "retry-exhausted" => call.attempt = MaxRetries + 1,
           error = "timeout" => clock - call.startedAt >= RequestTimeout,
           error = "wait-timeout" => clock - call.waitingFrom >= MaxWait,
           error = "cancelled" => aborted,
           error = "aborted" => call.pc = "fetching" /\ ~aborted
    PROVE  StepOK
<1>0. call \in Call
  BY DEF ClientInv, TypeOK
<1>1. /\ call' \in Call
      /\ call'.pc = "threw" /\ call'.error = error
      /\ call'.kind = call.kind /\ call'.keyed = call.keyed
      /\ call'.waits = call.waits /\ call'.attempt = call.attempt
      /\ call'.startedAt = call.startedAt
      /\ call'.waitingFrom = call.waitingFrom
      /\ UNCHANGED <<clock, aborted, wire, renders>>
  BY <1>0, ThrownFields DEF Quiet
<1>2. TypeOK'
  BY <1>1 DEF ClientInv, TypeOK
<1>3. Times' /\ Attempts' /\ Sent'
  BY <1>1 DEF ClientInv, Times, Attempts, Sent
<1>4. TimeoutTruthful'
  BY <1>1 DEF TimeoutTruthful
<1>5. FinalWordStep
  BY <1>1 DEF FinalWordStep
<1>6. Promise!Throw
  <2>1. Phase \in {"new", "open"}
    BY <1>0, PhaseValues DEF Call
  <2>2. Phase' \in {"threw", "cancelled", "broken"}
        /\ (Phase' = "cancelled" => aborted)
        /\ (Phase' = "broken" => error = "aborted")
    BY <1>1, PhaseValuesNext
  <2>3. error = "aborted" => Phase = "open" /\ ~aborted
    BY <1>0, PhaseValues DEF Pc
  <2> QED
    BY <1>1, <2>1, <2>2, <2>3 DEF Promise!Throw
<1> QED
  BY <1>2, <1>3, <1>4, <1>5, <1>6 DEF StepOK, ClientInv, Promise!Next

\* The call stays open: what it keeps, and what its new place asks for.
LEMMA StaysOpen ==
    ASSUME ClientInv, call.pc \in Pc \ {"idle", "answered", "threw"},
           call' \in Call, call'.pc \in Pc \ {"idle", "answered", "threw"},
           call'.kind = call.kind, call'.keyed = call.keyed,
           call'.waits = call.waits, call'.error = call.error,
           UNCHANGED <<clock, aborted, renders>>,
           wire' \in Nat, Times', Attempts', Sent', FinalWordStep
    PROVE  StepOK
<1>0. call \in Call
  BY DEF ClientInv, TypeOK
<1>1. TypeOK'
  BY DEF ClientInv, TypeOK
<1>2. call.error = "none"
  BY DEF ClientInv, Attempts
<1>3. TimeoutTruthful'
  BY <1>2 DEF TimeoutTruthful
<1>4. Phase = "open" /\ Phase' = "open"
  BY <1>0, PhaseValues, PhaseValuesNext
<1>5. UNCHANGED Promise!vars
  BY <1>4 DEF Promise!vars
<1> QED
  BY <1>1, <1>3, <1>5 DEF StepOK, ClientInv

\* The decision after a failed attempt: give up with a truthful error, or
\* sleep no longer than the budget lasts.
LEMMA RetryOK ==
    ASSUME ClientInv, call.pc \in {"fetching", "body"},
           NEW failure \in Failure, NEW header \in RetryAfter \union {NoHeader},
           call' \in Retry(call, failure, header), Quiet,
           failure.error \notin {"retry-exhausted", "wait-timeout"},
           failure.error = "timeout" => clock - call.startedAt >= RequestTimeout,
           failure.error = "cancelled" => aborted,
           failure.error = "aborted" => call.pc = "fetching" /\ ~aborted,
           call.pc = "body" /\ ~isRetryableStatus(call.status)
              => ~classifyRetry(failure, call.kind, call.keyed)
    PROVE  StepOK
<1>0. /\ call \in Call /\ clock \in Nat /\ call.pc \notin {"answered", "threw"}
      /\ failure.error \in PublishEngineError
      /\ "retry-exhausted" \in PublishEngineError
      /\ "timeout" \in PublishEngineError
  BY DEF ClientInv, TypeOK, Failure, PublishEngineError
<1>1. CASE ~classifyRetry(failure, call.kind, call.keyed)
  <2>1. call' = Thrown(call, failure.error)
    BY <1>1 DEF Retry
  <2> QED
    BY <1>0, <2>1, Throws
<1>2. CASE /\ classifyRetry(failure, call.kind, call.keyed)
           /\ call.attempt >= MaxRetries + 1
  <2>1. call' = Thrown(call, "retry-exhausted")
    BY <1>2 DEF Retry
  <2>2. call.attempt = MaxRetries + 1
    BY <1>0, <1>2 DEF ClientInv, Attempts, Call
  <2> QED
    BY <1>0, <2>1, <2>2, Throws
<1>3. CASE /\ classifyRetry(failure, call.kind, call.keyed)
           /\ ~(call.attempt >= MaxRetries + 1)
           /\ Remaining(call) <= 0
  <2>1. call' = Thrown(call, "timeout")
    BY <1>3 DEF Retry
  <2>2. clock - call.startedAt >= RequestTimeout
    BY <1>0, <1>3 DEF Remaining, Call
  <2> QED
    BY <1>0, <2>1, <2>2, Throws
<1>4. CASE /\ classifyRetry(failure, call.kind, call.keyed)
           /\ ~(call.attempt >= MaxRetries + 1)
           /\ ~(Remaining(call) <= 0)
  <2>1. PICK delay \in resolveRetryDelayMs(call.attempt, header, clock,
                                           Remaining(call)) :
           call' = [call EXCEPT !.pc = "sleeping", !.wakeAt = clock + delay]
    BY <1>4 DEF Retry
  <2>2. /\ call.attempt \in Nat /\ call.startedAt \in Nat
        /\ Remaining(call) \in Int /\ Remaining(call) > 0
        /\ Remaining(call) = RequestTimeout - (clock - call.startedAt)
    BY <1>0, <1>4 DEF Remaining, Call
  <2>3. delay \in Nat /\ delay <= Remaining(call)
    BY <1>0, <2>2, RetryPause
  <2>4. "sleeping" \in Pc \ {"idle", "answered", "threw"}
        /\ call.pc \in Pc \ {"idle", "answered", "threw"}
    BY <1>0 DEF Pc, Call
  <2>5. /\ call' \in Call
        /\ call'.pc = "sleeping" /\ call'.wakeAt = clock + delay
        /\ call'.kind = call.kind /\ call'.keyed = call.keyed
        /\ call'.waits = call.waits /\ call'.error = call.error
        /\ call'.attempt = call.attempt /\ call'.startedAt = call.startedAt
        /\ call'.waitingFrom = call.waitingFrom
    <3>1. PICK wake \in Nat : wake = clock + delay
      BY <1>0, <2>3
    <3>2. call' = [call EXCEPT !.pc = "sleeping", !.wakeAt = wake]
      BY <2>1, <3>1
    <3>3. "sleeping" \in Pc
      BY <2>4
    <3> QED
      BY <1>0, <3>1, <3>2, <3>3 DEF Call
  <2>6. Times'
    BY <1>0, <2>2, <2>3, <2>5 DEF ClientInv, Times, Quiet
  <2>7. Attempts'
    <3>1. call.attempt <= MaxRetries
      BY <1>4, <2>2
    <3>2. shouldRetryOperation(call'.kind, call'.keyed)
      BY <1>4, <2>5 DEF classifyRetry
    <3>3. call.error = "none"
      BY DEF ClientInv, Attempts
    <3> QED
      BY <2>2, <2>5, <3>1, <3>2, <3>3 DEF ClientInv, Attempts
  <2>8. Sent'
    BY <2>5 DEF ClientInv, Sent, Quiet
  <2>9. FinalWordStep
    BY <1>4 DEF FinalWordStep
  <2> QED
    BY <2>4, <2>5, <2>6, <2>7, <2>8, <2>9, StaysOpen
       DEF Quiet, ClientInv, TypeOK
<1> QED
  BY <1>1, <1>2, <1>3, <1>4

\* A call is refused at once or enters its loop at its starting time.
LEMMA Starts ==
    ASSUME ClientInv, Start \/ Refuse
    PROVE  StepOK
<1>0. /\ call \in Call /\ clock = 0 /\ call.pc = "idle" /\ Quiet
      /\ wire = 0 /\ renders = 0 /\ call.error = "none"
  BY DEF ClientInv, TypeOK, Times, Sent, Attempts, Start, Refuse
<1>1. CASE Refuse
  <2>1. {"protocol", "artifact"} \subseteq PublishEngineError
    BY DEF PublishEngineError
  <2> QED
    BY <1>0, <1>1, <2>1, Throws DEF Refuse
<1>2. CASE Start
  <2>1. "waiting" \in Pc \ {"idle", "answered", "threw"}
        /\ "looping" \in Pc \ {"idle", "answered", "threw"}
    BY DEF Pc
  <2>2. /\ call' \in Call
        /\ \/ /\ call.waits
              /\ call'.pc = "waiting" /\ call'.waitingFrom = clock
              /\ call'.attempt = call.attempt
           \/ /\ ~call.waits
              /\ call'.pc = "looping" /\ call'.attempt = 1
              /\ call'.startedAt = clock
              /\ call'.waitingFrom = call.waitingFrom
        /\ call'.kind = call.kind /\ call'.keyed = call.keyed
        /\ call'.waits = call.waits /\ call'.error = call.error
    <3>1. CASE call.waits
      BY <1>0, <1>2, <2>1, <3>1 DEF Start, Call
    <3>2. CASE ~call.waits
      BY <1>0, <1>2, <2>1, <3>2 DEF Start, Requested, Call
    <3> QED
      BY <3>1, <3>2
  <2>3. TypeOK' /\ Attempts' /\ Sent' /\ TimeoutTruthful'
    BY <1>0, <2>2 DEF ClientInv, TypeOK, Attempts, Sent, TimeoutTruthful,
                      Quiet
  <2>4. Times'
    BY <1>0, <2>2 DEF ClientInv, TypeOK, Call, Times, Quiet
  <2>5. Phase = "new" /\ Phase' = "open"
    BY <1>0, <2>1, <2>2, PhaseValues, PhaseValuesNext
  <2>6. Promise!Open
    BY <1>0, <2>2, <2>5 DEF Promise!Open, Quiet
  <2> QED
    BY <1>0, <2>3, <2>4, <2>6 DEF StepOK, ClientInv, FinalWordStep,
                                  Promise!Next
<1> QED
  BY <1>1, <1>2

\* The steps between requests: poll, attempt and wake.
LEMMA Loops ==
    ASSUME ClientInv, WaitForJob \/ Attempt \/ Wake
    PROVE  StepOK
<1>0. /\ call \in Call /\ clock \in Nat /\ Quiet
      /\ call.pc \in {"waiting", "looping", "sleeping", "pausing"}
      /\ call.pc \in Pc \ {"idle", "answered", "threw"}
      /\ call.startedAt \in Nat /\ call.attempt \in Nat
      /\ call.waitingFrom \in Nat
      /\ {"cancelled", "protocol", "timeout"} \subseteq PublishEngineError
      /\ wire' \in Nat
  BY DEF ClientInv, TypeOK, WaitForJob, Attempt, Wake, Call, Pc, Quiet,
         PublishEngineError
<1>1. {"looping", "token", "waiting"} \subseteq Pc \ {"idle", "answered", "threw"}
  BY DEF Pc
<1>2. CASE WaitForJob
  <2>1. CASE aborted
    BY <1>0, <1>2, <2>1, Throws DEF WaitForJob
  <2>2. CASE ~aborted /\ call.owned
    BY <1>0, <1>2, <2>2, Throws DEF WaitForJob
  <2>3. CASE ~aborted /\ ~call.owned
    <3>1. /\ call.pc = "waiting"
          /\ call' \in Call
          /\ call'.pc = "looping" /\ call'.attempt = 1
          /\ call'.startedAt = clock /\ call'.waitingFrom = call.waitingFrom
          /\ call'.kind = call.kind /\ call'.keyed = call.keyed
          /\ call'.waits = call.waits /\ call'.error = call.error
      BY <1>0, <1>1, <1>2, <2>3 DEF WaitForJob, Requested, Call
    <3>2. Times'
      BY <1>0, <3>1 DEF ClientInv, Times, Quiet
    <3>3. Attempts' /\ Sent' /\ FinalWordStep
      BY <1>0, <3>1 DEF ClientInv, Attempts, Sent, Quiet, FinalWordStep
    <3> QED
      BY <1>0, <1>1, <3>1, <3>2, <3>3, StaysOpen DEF Quiet
  <2> QED
    BY <2>1, <2>2, <2>3
<1>3. CASE Attempt
  <2>1. CASE Remaining(call) <= 0
    <3>1. call' = Thrown(call, "timeout")
      BY <1>3, <2>1 DEF Attempt
    <3>2. clock - call.startedAt >= RequestTimeout
      BY <1>0, <2>1 DEF Remaining
    <3> QED
      BY <1>0, <3>1, <3>2, Throws
  <2>2. CASE ~(Remaining(call) <= 0)
    <3>0. Remaining(call) \in Nat \ {0}
          /\ Remaining(call) = RequestTimeout - (clock - call.startedAt)
      BY <1>0, <2>2 DEF Remaining
    <3>1. /\ call.pc = "looping"
          /\ call' \in Call
          /\ call'.pc = "token" /\ call'.since = clock
          /\ call'.limit = Remaining(call)
          /\ call'.attempt = call.attempt /\ call'.startedAt = call.startedAt
          /\ call'.waitingFrom = call.waitingFrom
          /\ call'.kind = call.kind /\ call'.keyed = call.keyed
          /\ call'.waits = call.waits /\ call'.error = call.error
      BY <1>0, <1>1, <1>3, <2>2, <3>0 DEF Attempt, Call
    <3>2. Times'
      BY <1>0, <3>0, <3>1 DEF ClientInv, Times, Quiet
    <3>3. Attempts' /\ Sent' /\ FinalWordStep
      BY <1>0, <3>1 DEF ClientInv, Attempts, Sent, Quiet, FinalWordStep
    <3> QED
      BY <1>0, <1>1, <3>1, <3>2, <3>3, StaysOpen DEF Quiet
  <2> QED
    BY <2>1, <2>2
<1>4. CASE Wake
  <2>1. /\ call' \in Call
        /\ call.pc \in {"sleeping", "pausing"}
        /\ call.pc = "pausing" => call'.pc = "waiting"
                                  /\ call'.attempt = call.attempt
        /\ call.pc = "sleeping" => call'.pc = "looping"
                                   /\ call'.attempt = call.attempt + 1
        /\ call'.startedAt = call.startedAt
        /\ call'.waitingFrom = call.waitingFrom
        /\ call'.kind = call.kind /\ call'.keyed = call.keyed
        /\ call'.waits = call.waits /\ call'.error = call.error
    <3>1. CASE call.pc = "pausing"
      BY <1>0, <1>1, <1>4, <3>1 DEF Wake, Call
    <3>2. CASE call.pc # "pausing"
      <4>1. call' = [call EXCEPT !.pc = "looping",
                                 !.attempt = call.attempt + 1]
        BY <1>4, <3>2 DEF Wake
      <4>2. call.attempt + 1 \in Nat
        BY <1>0
      <4>3. call.pc = "sleeping"
        BY <1>4, <3>2 DEF Wake
      <4> QED
        BY <1>0, <1>1, <4>1, <4>2, <4>3 DEF Call
    <3> QED
      BY <3>1, <3>2
  <2>2. Times'
    BY <1>0, <1>4, <2>1 DEF ClientInv, Times, Quiet, Call, Wake
  <2>3. Attempts' /\ FinalWordStep
    BY <1>0, <2>1 DEF ClientInv, Attempts, Quiet, FinalWordStep
  <2>4. Sent'
    <3>1. call.pc = "sleeping" => call.keyed \/ call.kind = "read"
      BY DEF ClientInv, Attempts, shouldRetryOperation
    <3> QED
      BY <1>0, <2>1, <3>1 DEF ClientInv, TypeOK, Sent, Quiet
  <2> QED
    BY <1>0, <1>1, <2>1, <2>2, <2>3, <2>4, StaysOpen DEF Quiet
<1> QED
  BY <1>2, <1>3, <1>4

\* The steps of a request up to its headers, the timer running.
LEMMA Fetches ==
    ASSUME ClientInv, TokenThrows \/ Send \/ FetchThrows \/ FetchAborts
                         \/ FetchAnswers
    PROVE  StepOK
<1>0. /\ call \in Call /\ clock \in Nat /\ wire \in Nat /\ renders \in Nat
      /\ call.pc \in {"token", "fetching"}
      /\ call.pc \in Pc \ {"idle", "answered", "threw"}
      /\ call.startedAt \in Nat /\ call.since \in Nat
      /\ call.limit \in Nat /\ call.waitingFrom \in Nat
      /\ call.error = "none"
      /\ {"cancelled", "authentication"} \subseteq PublishEngineError
  BY DEF ClientInv, TypeOK, Attempts, TokenThrows, Send, FetchThrows,
         FetchAborts, FetchAnswers, Call, Pc, PublishEngineError
<1>1. {"fetching", "body"} \subseteq Pc \ {"idle", "answered", "threw"}
  BY DEF Pc
<1>2. CASE TokenThrows
  BY <1>0, <1>2, Throws DEF TokenThrows
<1>3. CASE Send /\ aborted
  BY <1>0, <1>3, Throws DEF Send, Quiet
<1>4. CASE Send /\ ~aborted
  <2>1. /\ call.pc = "token"
        /\ call' \in Call
        /\ call'.pc = "fetching" /\ call'.since = clock
        /\ call'.limit = call.limit
        /\ call'.attempt = call.attempt /\ call'.startedAt = call.startedAt
        /\ call'.waitingFrom = call.waitingFrom
        /\ call'.kind = call.kind /\ call'.keyed = call.keyed
        /\ call'.waits = call.waits /\ call'.error = call.error
        /\ UNCHANGED <<clock, aborted, renders>>
    <3>1. call' = [call EXCEPT !.pc = "fetching", !.since = clock]
      BY <1>4 DEF Send
    <3>2. "fetching" \in Pc
      BY <1>1
    <3> QED
      BY <1>0, <1>4, <3>1, <3>2 DEF Send, Call
  <2>2. wire' = IF call.kind = "submission" THEN wire + 1 ELSE wire
    BY <1>4 DEF Send
  <2>3. Times'
    BY <1>0, <2>1 DEF ClientInv, Times
  <2>4. Attempts' /\ FinalWordStep
    BY <1>0, <2>1 DEF ClientInv, Attempts, FinalWordStep
  <2>5. Sent'
    BY <1>0, <2>1, <2>2 DEF ClientInv, Sent
  <2> QED
    BY <1>0, <1>1, <2>1, <2>2, <2>3, <2>4, <2>5, StaysOpen
<1>5. CASE FetchThrows
  <2> DEFINE error == CASE aborted -> "cancelled"
                        [] ~aborted /\ TimedOut -> "timeout"
                        [] OTHER -> "transport"
  <2>1. /\ error \in {"cancelled", "timeout", "transport"}
        /\ error = "cancelled" => aborted
        /\ error = "timeout" => TimedOut
    <3>1. CASE aborted
      BY <3>1
    <3>2. CASE ~aborted /\ TimedOut
      BY <3>2
    <3>3. CASE ~aborted /\ ~TimedOut
      BY <3>3
    <3> QED
      BY <3>1, <3>2, <3>3
  <2>2. call' \in Retry(call, Fail(error), NoHeader) /\ Quiet
        /\ call.pc = "fetching"
    BY <1>5 DEF FetchThrows
  <2> HIDE DEF error
  <2>3. Fail(error) \in Failure /\ Fail(error).error = error
    BY <2>1 DEF Fail, Failure, PublishEngineError
  <2>4. error = "timeout" => clock - call.startedAt >= RequestTimeout
    BY <1>0, <2>1, <2>2 DEF TimedOut, ClientInv, Times
  <2>5. /\ Fail(error).error \notin {"retry-exhausted", "wait-timeout"}
        /\ Fail(error).error = "timeout"
              => clock - call.startedAt >= RequestTimeout
        /\ Fail(error).error = "cancelled" => aborted
        /\ Fail(error).error # "aborted"
    BY <2>1, <2>3, <2>4
  <2>6. NoHeader \in RetryAfter \union {NoHeader}
    OBVIOUS
  <2>7. call.pc \in {"fetching", "body"} /\ call.pc # "body"
    BY <2>2
  <2> QED
    BY <2>2, <2>3, <2>5, <2>6, <2>7, RetryOK
<1>6. CASE FetchAnswers
  <2>1. PICK status \in Status :
           /\ (status = "2xx" /\ call.kind = "submission") => renders > 0
           /\ call' = [call EXCEPT !.pc = "body", !.since = clock,
                                   !.status = status]
    BY <1>6 DEF FetchAnswers
  <2>2. /\ call.pc = "fetching" /\ ~TimedOut /\ Quiet
    BY <1>6 DEF FetchAnswers
  <2>3. /\ call' \in Call
        /\ call'.pc = "body" /\ call'.since = clock /\ call'.status = status
        /\ call'.attempt = call.attempt /\ call'.startedAt = call.startedAt
        /\ call'.waitingFrom = call.waitingFrom
        /\ call'.kind = call.kind /\ call'.keyed = call.keyed
        /\ call'.waits = call.waits /\ call'.error = call.error
    BY <1>0, <1>1, <2>1 DEF Call
  <2>4. Times'
    BY <1>0, <2>2, <2>3 DEF ClientInv, Times, Quiet, TimedOut
  <2>5. Attempts' /\ FinalWordStep
    BY <1>0, <2>2, <2>3 DEF ClientInv, Attempts, FinalWordStep
  <2>6. Sent'
    BY <1>0, <2>1, <2>2, <2>3 DEF ClientInv, Sent, Quiet
  <2> QED
    BY <1>0, <1>1, <2>2, <2>3, <2>4, <2>5, <2>6, StaysOpen DEF Quiet
<1>7. CASE FetchAborts
  <2>1. /\ call' \in Retry(call, Fail("aborted"), NoHeader) /\ Quiet
        /\ call.pc = "fetching" /\ ~aborted
    BY <1>7 DEF FetchAborts
  <2>2. Fail("aborted") \in Failure /\ Fail("aborted").error = "aborted"
    BY DEF Fail, Failure, PublishEngineError
  <2>3. NoHeader \in RetryAfter \union {NoHeader}
    OBVIOUS
  <2> QED
    BY <2>1, <2>2, <2>3, RetryOK
<1> QED
  BY <1>2, <1>3, <1>4, <1>5, <1>6, <1>7

\* The call answers.
LEMMA AnswersOK ==
    ASSUME ClientInv, call.pc = "body", call.status = "2xx",
           call' = [call EXCEPT !.pc = "answered"], Quiet
    PROVE  StepOK
<1>0. call \in Call /\ call.error = "none"
  BY DEF ClientInv, TypeOK, Attempts
<1>1. "answered" \in Pc /\ "body" \in Pc
  BY DEF Pc
<1>2. /\ call' \in Call
      /\ call'.pc = "answered"
      /\ call'.kind = call.kind /\ call'.keyed = call.keyed
      /\ call'.waits = call.waits /\ call'.error = call.error
      /\ call'.attempt = call.attempt
      /\ UNCHANGED <<clock, aborted, wire, renders>>
  BY <1>0, <1>1 DEF Call, Quiet
<1>3. TypeOK' /\ Times' /\ Attempts' /\ Sent'
  BY <1>0, <1>2 DEF ClientInv, TypeOK, Times, Attempts, Sent
<1>4. TimeoutTruthful' /\ FinalWordStep
  BY <1>0, <1>2 DEF TimeoutTruthful, FinalWordStep
<1>5. Phase = "open" /\ Phase' = "answered"
  BY <1>0, <1>1, <1>2, PhaseValues, PhaseValuesNext
<1>6. Promise!Answer
  BY <1>2, <1>5 DEF Promise!Answer, ClientInv, Sent
<1> QED
  BY <1>3, <1>4, <1>6 DEF StepOK, ClientInv, Promise!Next

\* The steps that read a body, accepted, rejected or an error.
LEMMA Bodies ==
    ASSUME ClientInv, BodyAccepted \/ BodyRejected \/ ErrorBody
    PROVE  StepOK
<1>0. /\ call \in Call /\ clock \in Nat /\ wire \in Nat
      /\ call.pc = "body" /\ Quiet
      /\ call.pc \in {"fetching", "body"}
      /\ call.pc \in Pc \ {"idle", "answered", "threw"}
      /\ call.waitingFrom \in Nat /\ call.startedAt \in Nat
      /\ call.error = "none"
      /\ {"job-failed", "job-cancelled", "wait-timeout"}
            \subseteq PublishEngineError
  BY DEF ClientInv, TypeOK, Attempts, BodyAccepted, BodyRejected, ErrorBody,
         Call, Pc, PublishEngineError
<1>1. CASE BodyAccepted /\ ~call.waits
  BY <1>0, <1>1, AnswersOK DEF BodyAccepted
<1>2. CASE BodyAccepted /\ call.waits
  <2>1. PICK state \in {"running", "succeeded", "failed", "cancelled"} :
           call' = JobSeen(call, state)
    BY <1>2 DEF BodyAccepted
  <2>2. CASE state = "succeeded"
    BY <1>0, <1>2, <2>1, <2>2, AnswersOK DEF BodyAccepted, JobSeen
  <2>3. CASE state = "failed"
    BY <1>0, <2>1, <2>3, Throws DEF JobSeen
  <2>4. CASE state = "cancelled"
    BY <1>0, <2>1, <2>4, Throws DEF JobSeen
  <2> DEFINE remaining == MaxWait - (clock - call.waitingFrom)
  <2>5. CASE state = "running" /\ remaining <= 0
    <3>1. call' = Thrown(call, "wait-timeout")
      BY <2>1, <2>5 DEF JobSeen
    <3>2. clock - call.waitingFrom >= MaxWait
      BY <1>0, <2>5
    <3> QED
      BY <1>0, <3>1, <3>2, Throws
  <2>6. CASE state = "running" /\ ~(remaining <= 0)
    <3>1. call' = [call EXCEPT !.pc = "pausing",
                      !.wakeAt = clock + Least({PollInterval, remaining})]
      BY <2>1, <2>6 DEF JobSeen
    <3>2. remaining \in Nat /\ PollInterval \in Nat
      BY <1>0, <2>6
    <3>3. PICK pause \in Nat : pause = Least({PollInterval, remaining})
                               /\ pause <= remaining
      <4>1. PollInterval \in Int /\ remaining \in Int
        BY <3>2
      <4> HIDE DEF remaining
      <4>2. /\ Least({PollInterval, remaining}) \in {PollInterval, remaining}
            /\ Least({PollInterval, remaining}) <= remaining
        BY <4>1, LeastOfTwo, Zenon
      <4> QED
        BY <3>2, <4>2
    <3>4. PICK wake \in Nat : wake = clock + pause
      BY <1>0, <3>3
    <3>5. call' = [call EXCEPT !.pc = "pausing", !.wakeAt = wake]
      BY <3>1, <3>3, <3>4
    <3>6. "pausing" \in Pc \ {"idle", "answered", "threw"}
      BY DEF Pc
    <3>7. /\ call' \in Call
          /\ call'.pc = "pausing" /\ call'.wakeAt = wake
          /\ call'.attempt = call.attempt
          /\ call'.waitingFrom = call.waitingFrom
          /\ call'.kind = call.kind /\ call'.keyed = call.keyed
          /\ call'.waits = call.waits /\ call'.error = call.error
      BY <1>0, <3>5, <3>6 DEF Call
    <3>8. Times'
      BY <1>0, <3>3, <3>4, <3>7 DEF ClientInv, Times, Quiet
    <3>9. Attempts' /\ Sent' /\ FinalWordStep
      BY <1>0, <1>2, <3>7 DEF ClientInv, Attempts, Sent, Quiet, FinalWordStep
    <3> QED
      BY <1>0, <3>6, <3>7, <3>8, <3>9, StaysOpen DEF Quiet
  <2> QED
    BY <2>1, <2>2, <2>3, <2>4, <2>5, <2>6
<1>3. CASE BodyRejected
  <2>1. PICK error \in {"protocol", "unexpected"} :
           call' \in Retry(call, Fail(error), NoHeader)
    BY <1>3 DEF BodyRejected
  <2>2. /\ Fail(error) \in Failure
        /\ Fail(error).error \in {"protocol", "unexpected"}
    BY DEF Fail, Failure, PublishEngineError
  <2>3. ~classifyRetry(Fail(error), call.kind, call.keyed)
    BY <2>2 DEF classifyRetry
  <2>4. NoHeader \in RetryAfter \union {NoHeader}
    OBVIOUS
  <2> QED
    BY <1>0, <2>1, <2>2, <2>3, <2>4, RetryOK
<1>4. CASE ErrorBody
  <2> DEFINE failure == [error |-> ErrorOf(call.status),
                         status |-> call.status]
  <2>1. PICK header \in RetryAfter \union {NoHeader} :
           call' \in Retry(call, failure, header)
    BY <1>4 DEF ErrorBody
  <2>2. ErrorOf(call.status) \in {"authentication", "idempotency-conflict",
                                  "remote-request"}
    <3>1. CASE call.status = "401"
      BY <3>1 DEF ErrorOf
    <3>2. CASE call.status = "409-conflict"
      BY <3>2 DEF ErrorOf
    <3>3. CASE call.status # "401" /\ call.status # "409-conflict"
      BY <3>3 DEF ErrorOf
    <3> QED
      BY <3>1, <3>2, <3>3
  <2>3. /\ failure \in Failure
        /\ failure.error \in {"authentication", "idempotency-conflict",
                              "remote-request"}
        /\ failure.status = call.status
    BY <1>0, <2>2 DEF Failure, Call, PublishEngineError
  <2> HIDE DEF failure
  <2>4. ~isRetryableStatus(call.status)
           => ~classifyRetry(failure, call.kind, call.keyed)
    BY <2>3 DEF classifyRetry
  <2> QED
    BY <1>0, <2>1, <2>3, <2>4, RetryOK
<1> QED
  BY <1>1, <1>2, <1>3, <1>4

\* What happens outside the client: abort, engine and time.
LEMMA Elsewhere ==
    ASSUME ClientInv, Abort \/ EngineProcesses \/ Tick
    PROVE  StepOK
<1>0. /\ call \in Call /\ call' = call
      /\ clock \in Nat /\ wire \in Nat /\ renders \in Nat
      /\ call.startedAt \in Nat /\ call.since \in Nat /\ call.limit \in Nat
      /\ call.wakeAt \in Nat /\ call.waitingFrom \in Nat
  BY DEF ClientInv, TypeOK, Call, Abort, EngineProcesses, Tick
<1>1. Attempts' /\ FinalWordStep /\ Phase' = Phase
  BY <1>0 DEF ClientInv, Attempts, FinalWordStep, Phase
<1>2. CASE Abort
  <2>1. aborted' = TRUE /\ UNCHANGED <<clock, call, wire, renders>>
    BY <1>2 DEF Abort
  <2>2. TypeOK' /\ Times' /\ Sent' /\ TimeoutTruthful'
    BY <2>1 DEF ClientInv, TypeOK, Times, Sent, TimeoutTruthful
  <2>3. Promise!GiveUp
    BY <1>1, <2>1 DEF Promise!GiveUp
  <2> QED
    BY <1>1, <2>2, <2>3 DEF StepOK, ClientInv, Promise!Next
<1>3. CASE EngineProcesses
  <2>1. /\ wire > 0 /\ wire' = wire - 1
        /\ renders' = IF call.keyed /\ renders > 0 THEN renders ELSE renders + 1
        /\ UNCHANGED <<clock, aborted, call>>
    BY <1>3 DEF EngineProcesses
  <2>2. /\ call.kind = "submission" /\ call.pc # "idle"
        /\ renders = 0 \/ (call.keyed /\ renders = 1)
    BY <1>0, <2>1 DEF ClientInv, Sent, Call
  <2>3. TypeOK' /\ Times' /\ TimeoutTruthful'
    BY <1>0, <2>1 DEF ClientInv, TypeOK, Times, TimeoutTruthful
  <2>4. Sent'
    BY <1>0, <2>1, <2>2 DEF ClientInv, Sent
  <2>5. CASE renders = 0
    <3>1. Phase # "new"
      BY <1>0, <2>2 DEF Phase
    <3>2. Promise!Render
      BY <1>1, <2>1, <2>2, <2>5, <3>1 DEF Promise!Render
    <3> QED
      BY <1>1, <2>3, <2>4, <3>2 DEF StepOK, ClientInv, Promise!Next
  <2>6. CASE call.keyed /\ renders = 1
    <3>1. UNCHANGED Promise!vars
      BY <1>1, <2>1, <2>6 DEF Promise!vars
    <3> QED
      BY <1>1, <2>3, <2>4, <3>1 DEF StepOK, ClientInv
  <2> QED
    BY <2>2, <2>5, <2>6
<1>4. CASE Tick
  <2>1. clock' = clock + 1 /\ UNCHANGED <<aborted, call, wire, renders>>
    BY <1>4 DEF Tick
  <2>2. TypeOK' /\ Sent'
    BY <1>0, <2>1 DEF ClientInv, TypeOK, Sent
  <2>3. Times'
    BY <1>0, <1>4, <2>1 DEF ClientInv, Times, Tick, TimedOut
  <2>4. call.error = "none"
    BY <1>4 DEF ClientInv, Attempts, Tick
  <2>5. TimeoutTruthful'
    BY <2>1, <2>4 DEF TimeoutTruthful
  <2>6. UNCHANGED Promise!vars
    BY <1>1, <2>1 DEF Promise!vars
  <2> QED
    BY <1>1, <2>2, <2>3, <2>5, <2>6 DEF StepOK, ClientInv
<1> QED
  BY <1>2, <1>3, <1>4

\* A call that has not begun satisfies the invariant and the promise.
LEMMA InitOK == Init => ClientInv /\ Promise!Init
<1> SUFFICES ASSUME Init PROVE ClientInv /\ Promise!Init
  OBVIOUS
<1>1. PICK kind \in {"submission", "read"}, keyed \in BOOLEAN,
           waits \in BOOLEAN, owned \in BOOLEAN :
        /\ waits => kind = "read" /\ ~keyed
        /\ call = [pc |-> "idle", kind |-> kind, keyed |-> keyed,
                   waits |-> waits, owned |-> owned, attempt |-> 0,
                   startedAt |-> 0, waitingFrom |-> 0,
                   limit |-> RequestTimeout, since |-> 0, wakeAt |-> 0,
                   status |-> "none", error |-> "none"]
  BY DEF Init
<1>2. "idle" \in Pc
  BY DEF Pc
<1>3. /\ call \in Call
      /\ call.pc = "idle" /\ call.error = "none" /\ call.attempt = 0
      /\ call.waits => call.kind = "read"
      /\ clock = 0 /\ wire = 0 /\ renders = 0 /\ aborted = FALSE
  BY <1>1, <1>2 DEF Call, Init
<1>4. TypeOK /\ Times /\ Attempts /\ Sent /\ TimeoutTruthful
  <2>1. TypeOK
    BY <1>3 DEF TypeOK
  <2>2. Times /\ Attempts
    BY <1>3 DEF Times, Attempts
  <2>3. Sent /\ TimeoutTruthful
    BY <1>3 DEF Sent, TimeoutTruthful
  <2> QED
    BY <2>1, <2>2, <2>3
<1>5. Promise!Init
  BY <1>3, PhaseValues DEF Promise!Init, Call
<1> QED
  BY <1>4, <1>5 DEF ClientInv

\* Every step keeps the invariant, leaves the engine its last word and is one
\* of the promise.
LEMMA StepsOK ==
    ASSUME ClientInv, [Next]_vars
    PROVE  /\ ClientInv'
           /\ [FinalWordStep]_vars
           /\ [Promise!Next]_(Promise!vars)
<1>1. CASE Proceed
  BY <1>1, Starts, Loops, Fetches, Bodies DEF Proceed, StepOK
<1>2. CASE Abort \/ EngineProcesses \/ Tick
  BY <1>2, Elsewhere DEF StepOK
<1>3. CASE Done \/ UNCHANGED vars
  <2>1. UNCHANGED vars
    BY <1>3 DEF Done
  <2>2. ClientInv'
    BY <2>1 DEF vars, ClientInv, TypeOK, Times, Attempts, Sent,
                TimeoutTruthful
  <2>3. UNCHANGED Promise!vars
    BY <2>1 DEF vars, Promise!vars, Phase
  <2> QED
    BY <2>1, <2>2, <2>3
<1> QED
  BY <1>1, <1>2, <1>3 DEF Next

\* The bounds of ClientInv hold in every state of every call.
THEOREM ClientInvariant == Spec => []ClientInv
<1>1. Init => ClientInv
  BY InitOK
<1>2. ClientInv /\ [Next]_vars => ClientInv'
  BY StepsOK
<1> QED
  BY <1>1, <1>2, PTL DEF Spec

\* requestWithRetry spends no more than its timeout on all attempts and pauses
\* together, but for one token and one body, whatever Retry-After asks for;
\* waitForJob ends that long after its own limit.
THEOREM CallsOverInTime == Spec => []OverInTime
<1>1. ClientInv => OverInTime
  <2> SUFFICES ASSUME ClientInv, ~Ended PROVE OverInTime
    BY DEF OverInTime
  <2>1. /\ call \in Call /\ clock \in Nat
        /\ call.pc \in Pc \ {"answered", "threw"}
        /\ call.startedAt \in Nat /\ call.since \in Nat /\ call.limit \in Nat
        /\ call.wakeAt \in Nat /\ call.waitingFrom \in Nat
    BY DEF ClientInv, TypeOK, Call, Ended
  <2>2. CASE call.pc = "idle"
    BY <2>1, <2>2 DEF ClientInv, Times, OverInTime
  <2>3. CASE call.pc \in {"waiting", "pausing"}
    BY <2>1, <2>3 DEF ClientInv, Times, OverInTime
  <2>4. CASE call.pc \in {"looping", "token", "fetching", "body", "sleeping"}
    <3>1. clock - call.startedAt <= RequestTimeout + 2 * MaxLag
      BY <2>1, <2>4 DEF ClientInv, Times
    <3>2. call.waits => call.startedAt <= call.waitingFrom + MaxWait
      BY <2>4 DEF ClientInv, Times
    <3> QED
      BY <2>1, <2>4, <3>1, <3>2 DEF OverInTime
  <2> QED
    BY <2>1, <2>2, <2>3, <2>4 DEF Pc
<1> QED
  BY ClientInvariant, <1>1, PTL

\* The client gives up with a timeout, a wait timeout or exhausted retries only
\* when the time has really passed and the retries have really been made.
THEOREM TimeoutsTruthful == Spec => []TimeoutTruthful
<1>1. ClientInv => TimeoutTruthful
  BY DEF ClientInv
<1> QED
  BY ClientInvariant, <1>1, PTL

\* After a success, or an error that classifyRetry does not retry, no request
\* of the call follows.
THEOREM EngineHasFinalWord == Spec => FinalWord
<1>1. ClientInv /\ [Next]_vars => [FinalWordStep]_vars
  BY StepsOK
<1> QED
  BY ClientInvariant, <1>1, PTL DEF Spec, FinalWord

\* HttpPublishEngineClient is what the publish worker counts on: a submission
\* is rendered at most once however often it is sent, an answer means a remote
\* job, and a call that throws as cancelled was given up by its caller, unless
\* fetch rejected as an abort by itself (isAbortError) while it was open; a
\* timeout or a lost connection is never told as cancelled.
THEOREM ClientImplementsRemoteCall == Spec => ImplementsRemoteCall
<1>1. Init => Promise!Init
  BY InitOK
<1>2. ClientInv /\ [Next]_vars => [Promise!Next]_(Promise!vars)
  BY StepsOK
<1> QED
  BY ClientInvariant, <1>1, <1>2, PTL
     DEF Spec, ImplementsRemoteCall, Promise!Spec

=============================================================================
