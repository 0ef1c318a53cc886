---------------------------- MODULE RetryPolicy ----------------------------
(***************************************************************************)
(* calculateRetryDelayMs, which both job queues use to date the next       *)
(* attempt.  Neither worker configures jitter.                             *)
(***************************************************************************)
EXTENDS Integers

CONSTANTS
    RetryBaseDelay,  \* retryPolicy.baseDelayMs
    RetryMaxDelay    \* retryPolicy.maxDelayMs

ASSUME RetryDelayAssumption ==
    /\ RetryBaseDelay \in Nat \ {0}
    /\ RetryMaxDelay \in Nat
    /\ RetryMaxDelay >= RetryBaseDelay

\* The cap is written as a membership test: the exponential delay where it
\* lies within the cap, the cap otherwise.
calculateRetryDelayMs(attemptNumber) ==
    LET exponentialDelay == RetryBaseDelay * 2 ^ (attemptNumber - 1)
    IN  IF attemptNumber <= 0 THEN 0
        ELSE IF exponentialDelay \in 0 .. RetryMaxDelay THEN exponentialDelay
        ELSE RetryMaxDelay

=============================================================================
