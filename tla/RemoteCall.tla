----------------------------- MODULE RemoteCall -----------------------------
(***************************************************************************)
(* What the publish worker counts on when it calls the render engine, as   *)
(* PublishWorkers uses it: a call is open until it is answered or throws;  *)
(* a submission is rendered at most once, whatever is sent how often, and  *)
(* perhaps only after the call has thrown; an answer to a submission means *)
(* that there is a remote job; a call that throws as cancelled was given   *)
(* up by its caller or broken off under it while it was open.  The worker  *)
(* cannot tell these two apart and fails the job for good in both cases;   *)
(* every other failure, timeouts and lost connections included, it counts  *)
(* on being told as such, because those it retries.                        *)
(***************************************************************************)
EXTENDS Naturals

VARIABLES
    kind,      \* submission, or a read of a remote job
    phase,     \* where the call is; broken: aborted, but not by the caller
    given,     \* whether the caller has given up the call
    rendered   \* remote jobs that exist because of the call

vars == <<kind, phase, given, rendered>>

Init ==
    /\ kind \in {"submission", "read"}
    /\ phase = "new"
    /\ given = FALSE
    /\ rendered = 0

Open ==
    /\ phase = "new"
    /\ phase' = "open"
    /\ UNCHANGED <<kind, given, rendered>>

GiveUp ==
    /\ given' = TRUE
    /\ UNCHANGED <<kind, phase, rendered>>

\* The engine gets to the submission.
Render ==
    /\ kind = "submission"
    /\ phase # "new"
    /\ rendered = 0
    /\ rendered' = 1
    /\ UNCHANGED <<kind, phase, given>>

Answer ==
    /\ phase = "open"
    /\ kind = "submission" => rendered = 1
    /\ phase' = "answered"
    /\ UNCHANGED <<kind, given, rendered>>

Throw ==
    /\ phase \in {"new", "open"}
    /\ phase' \in {"threw", "cancelled", "broken"}
    /\ phase' = "cancelled" => given
    /\ phase' = "broken" => phase = "open" /\ ~given
    /\ UNCHANGED <<kind, given, rendered>>

Next == Open \/ GiveUp \/ Render \/ Answer \/ Throw

Spec == Init /\ [][Next]_vars

=============================================================================
