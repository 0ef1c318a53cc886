---------------------------- MODULE JobProcessor ----------------------------
(***************************************************************************)
(* What the job executor relies on when it awaits a JobProcessor: process  *)
(* reports its stages in order, returns a result only when both were       *)
(* stored and its signal is not aborted, and calls itself cancelled only   *)
(* because of that signal.  ContentWorkers runs its attempts against this  *)
(* contract (ProcessorSucceeds, ProcessorThrows).                          *)
(***************************************************************************)
EXTENDS Naturals

VARIABLES
    stages,   \* how many stages have been reported
    aborted,  \* the signal handed to process
    ending    \* "running", or how the promise of process settled

jobVars == <<stages, aborted, ending>>

Init ==
    /\ stages = 0
    /\ aborted \in BOOLEAN
    /\ ending = "running"

Abort ==
    /\ ending = "running"
    /\ aborted' = TRUE
    /\ UNCHANGED <<stages, ending>>

ReportStage ==
    /\ ending = "running"
    /\ stages < 2
    /\ stages' = stages + 1
    /\ UNCHANGED <<aborted, ending>>

Return ==
    /\ ending = "running"
    /\ stages = 2
    /\ ~aborted
    /\ ending' = "returned"
    /\ UNCHANGED <<stages, aborted>>

\* A lost lease also aborts the signal, in the same step.
Throw(kind) ==
    /\ ending = "running"
    /\ kind = "cancelled" => aborted
    /\ ending' = kind
    /\ aborted' \in {aborted, aborted \/ kind = "leaseLost"}
    /\ UNCHANGED stages

Next ==
    \/ Abort
    \/ ReportStage
    \/ Return
    \/ \E kind \in {"cancelled", "leaseLost", "retryable", "permanent"} :
          Throw(kind)

Spec == Init /\ [][Next]_jobVars

=============================================================================
