------------------------ MODULE TranscriptProcessing ------------------------
(***************************************************************************)
(* One call of DeterministicTranscriptProcessor.process: the source is     *)
(* read, two stages are reported, five prompts go one after the other to   *)
(* the AI provider, and the results become a publication, an HTML document *)
(* and, with a renderer, an artifact.  The executor's abort signal, the    *)
(* provider's answer and the request's own timeout race.                   *)
(*                                                                         *)
(* A step is what runs between two awaits.  Token counts are scaled:       *)
(* MaxSafe stands for Number.MAX_SAFE_INTEGER.                             *)
(***************************************************************************)
EXTENDS Integers, Sequences

CONSTANTS
    Providers,         \* the AI providers configured: see AllProviders
    MaxSafe,           \* the largest safe integer
    TokenCounts,       \* counts that OpenAI may report
    MockInputTokens,   \* a quarter of a prompt's length, at least 1
    MockOutputTokens   \* 80

AllProviders == {"openai", "success", "retryable-failure",
                 "permanent-failure", "timeout", "malformed-output"}

ASSUME ProcessingAssumption ==
    /\ Providers \subseteq AllProviders
    /\ MaxSafe \in Nat
    /\ TokenCounts \subseteq Int
    /\ MockInputTokens \subseteq Nat \ {0}
    /\ MockOutputTokens \in Nat

VARIABLES
    provider,  \* the provider, and the mode of the mock one
    renderer,  \* whether a publication renderer is configured
    pc,        \* the await that process is at
    stages,    \* stages reported
    aborted,   \* the executor's signal
    request,   \* the HTTP request of the prompt under way
    timer,     \* the timer of that request
    started,   \* requests sent to the provider
    usages,    \* the usage of each prompt that has been answered
    totals,    \* mergeUsageTotals of the five
    outcome    \* how the promise of process settled

vars == <<provider, renderer, pc, stages, aborted, request, timer, started,
          usages, totals, outcome>>

Prompts == <<"metadata", "keywords", "summary", "scripture", "reflections">>

NoRequest == [kind |-> "none", input |-> 0, output |-> 0]
OpenRequest == [NoRequest EXCEPT !.kind = "open"]

Usage(input, output) ==
    [input |-> input, output |-> output, total |-> input + output]

NoTotals == Usage(0, 0)

Running == [kind |-> "running", code |-> "none"]

Ended(kind, code) == [kind |-> kind, code |-> code]

Throw(kind, code) ==
    /\ pc' = "done"
    /\ outcome' = Ended(kind, code)

Cancelled == Throw("cancelled", "none")

GoTo(next) == pc' = next /\ UNCHANGED outcome

safe(n) == n \in 0 .. MaxSafe

----------------------------------------------------------------------------
(* The provider's errors and what they mean to the worker.                 *)

DefectiveContent == {"truncated", "missing", "empty", "not-json",
                     "schema-invalid"}

SdkErrors == {"connection-timeout", "user-abort", "authentication",
              "permission-denied", "bad-request", "rate-limit",
              "server-error", "connection", "status-4xx", "other"}

\* mapOpenAIError
mapOpenAIError(error) ==
    CASE error = "connection-timeout" -> "AI_TIMEOUT"
      [] error = "user-abort" -> "WORKER_CANCELLED"
      [] error \in {"authentication", "permission-denied"} ->
            "AI_AUTHENTICATION_ERROR"
      [] error \in {"bad-request", "status-4xx"} -> "AI_PERMANENT_ERROR"
      [] error = "rate-limit" -> "AI_RATE_LIMIT"
      [] OTHER -> "AI_PROVIDER_UNAVAILABLE"

\* The catch clause around aiPipeline.run.
workerError(code) ==
    IF code = "WORKER_CANCELLED" THEN Ended("cancelled", "none")
    ELSE IF code \in {"AI_PROVIDER_UNAVAILABLE", "AI_RATE_LIMIT",
                      "AI_TIMEOUT"}
         THEN Ended("retryable", code) ELSE Ended("permanent", code)

FailPrompt(code) ==
    /\ pc' = "done"
    /\ outcome' = workerError(code)
    /\ UNCHANGED <<usages, totals>>

\* parseOptionalTokenCount and checkedTokenSum: what a completion's usage is
\* refused for.
validTokens(input, output) ==
    /\ safe(input) /\ safe(output)
    /\ safe(input + output)

\* What the try block throws for an answer, "none" if it returns.
AnswerError(answer) ==
    CASE answer.kind = "refusal" -> "AI_PERMANENT_ERROR"
      [] answer.kind \in DefectiveContent -> "AI_VALIDATION_ERROR"
      [] answer.kind \in SdkErrors -> mapOpenAIError(answer.kind)
      [] answer.kind = "valid" ->
            IF validTokens(answer.input, answer.output) THEN "none"
            ELSE "AI_VALIDATION_ERROR"

----------------------------------------------------------------------------
(* The prompt runner and the pipeline.                                     *)

\* checkedAdd, which throws beyond the safe range; -1 stands for the throw.
checkedAdd(left, right) ==
    IF left >= 0 /\ right >= 0 /\ safe(left + right) THEN left + right ELSE -1

sumOf(field) ==
    LET sum[i \in 0 .. Len(Prompts)] ==
            IF i = 0 THEN 0 ELSE checkedAdd(sum[i - 1], field[i])
    IN  sum[Len(Prompts)]

\* VARIANT of mergeUsageTotals: the two sums are added unchecked.
mergeUsageTotalsUnchecked(us) ==
    LET input == sumOf([i \in 1 .. Len(us) |-> us[i].input])
        output == sumOf([i \in 1 .. Len(us) |-> us[i].output])
    IN  [input |-> input, output |-> output,
         total |-> IF input < 0 \/ output < 0 THEN -1 ELSE input + output]

\* mergeUsageTotals; a negative total is the AIValidationError it throws.
mergeUsageTotals(us) ==
    LET input == sumOf([i \in 1 .. Len(us) |-> us[i].input])
        output == sumOf([i \in 1 .. Len(us) |-> us[i].output])
    IN  [input |-> input, output |-> output,
         total |-> checkedAdd(input, output)]

\* aiUsageSchema
aiUsageSchema(u) ==
    /\ safe(u.input) /\ safe(u.output) /\ safe(u.total)
    /\ u.total = u.input + u.output

\* aiPipelineResultSchema.parse of the five executions and their totals: a
\* ZodError is no AIProviderError, so the executor takes it for an unexpected
\* error and retries.
ParseResult(us, merged) ==
    IF aiUsageSchema(merged) /\ \A i \in 1 .. Len(us) : aiUsageSchema(us[i])
    THEN /\ totals' = merged
         /\ GoTo("build")
    ELSE /\ UNCHANGED totals
         /\ Throw("retryable", "UNEXPECTED")

\* The rest of PromptRunner.run and of AIPipeline.run after an answer.
AcceptAnswer(u) ==
    LET us == Append(usages, u)
        merged == mergeUsageTotals(us)
    IN  IF ~validTokens(u.input, u.output)
        THEN FailPrompt("AI_VALIDATION_ERROR")
        ELSE IF Len(us) < Len(Prompts)
        THEN /\ usages' = us
             /\ UNCHANGED totals
             /\ GoTo("prompt")
        ELSE IF merged.total < 0
        THEN FailPrompt("AI_VALIDATION_ERROR")
        ELSE /\ usages' = us
             /\ ParseResult(us, merged)

----------------------------------------------------------------------------
(* The steps.                                                              *)

\* createAIProvider has chosen the provider.
Init ==
    /\ provider \in Providers
    /\ renderer \in BOOLEAN
    /\ aborted \in BOOLEAN
    /\ pc = "start"
    /\ stages = 0
    /\ request = NoRequest
    /\ timer = "off"
    /\ started = 0
    /\ usages = <<>>
    /\ totals = NoTotals
    /\ outcome = Running

setup == <<provider, renderer>>
ai == <<request, timer, started, usages, totals>>

\* The executor aborts the signal: shutdown, or a heartbeat that lost the lease.
Abort ==
    /\ pc # "done"
    /\ ~aborted
    /\ aborted' = TRUE
    /\ UNCHANGED <<setup, pc, stages, ai, outcome>>

Start ==
    /\ pc = "start"
    /\ IF aborted THEN Cancelled ELSE GoTo("lookup")
    /\ UNCHANGED <<setup, stages, aborted, ai>>

\* getById answers.  An error that is no worker error is retried.
LookupSource ==
    /\ pc = "lookup"
    /\ \/ GoTo("normalizing")
       \/ Throw("permanent", "SOURCE_VERSION_NOT_FOUND")
       \/ Throw("permanent", "SOURCE_PROJECT_MISMATCH")
       \/ Throw("retryable", "DATABASE")
    /\ UNCHANGED <<setup, stages, aborted, ai>>

\* reportStage answers, or throws because the lease is lost or the database
\* fails.
ReportStage(at, next) ==
    /\ pc = at
    /\ \/ stages' = stages + 1 /\ GoTo(next)
       \/ UNCHANGED stages /\ Throw("leaseLost", "none")
       \/ UNCHANGED stages /\ Throw("retryable", "DATABASE")
    /\ UNCHANGED <<setup, aborted, ai>>

ReportNormalizing == ReportStage("normalizing", "heartbeat")

\* The heartbeat that process asks for renews nothing once the signal is
\* aborted.
Heartbeat ==
    /\ pc = "heartbeat"
    /\ IF aborted THEN Cancelled ELSE GoTo("renewing")
    /\ UNCHANGED <<setup, stages, aborted, ai>>

\* The renewal answers; a lost lease aborts the signal too.
Renewal ==
    /\ pc = "renewing"
    /\ \/ /\ IF aborted THEN Cancelled ELSE GoTo("statistics")
          /\ UNCHANGED aborted
       \/ Throw("leaseLost", "none") /\ aborted' = TRUE
       \/ Throw("retryable", "DATABASE") /\ UNCHANGED aborted
    /\ UNCHANGED <<setup, stages, ai>>

ReportStatistics == ReportStage("statistics", "prompt")

\* OpenAIProvider.generate up to its await.  The timer is armed first, and left
\* armed if the signal is already aborted.
GenerateOpenAI ==
    /\ pc = "prompt"
    /\ provider = "openai"
    /\ timer' = "armed"
    /\ IF aborted
       THEN /\ Cancelled
            /\ UNCHANGED <<request, started>>
       ELSE /\ request' = OpenRequest
            /\ started' = started + 1
            /\ GoTo("request")
    /\ UNCHANGED <<setup, stages, aborted, usages, totals>>

\* deterministicUsage, for a prompt four times input long.
deterministicUsage(input) == Usage(input, MockOutputTokens)

MockError ==
    CASE provider = "timeout" -> "AI_TIMEOUT"
      [] provider = "retryable-failure" -> "AI_PROVIDER_UNAVAILABLE"
      [] provider = "permanent-failure" -> "AI_PERMANENT_ERROR"
      [] provider = "malformed-output" -> "AI_VALIDATION_ERROR"
      [] provider = "success" -> "none"

\* MockAIProvider.generate, which awaits nothing.
GenerateMock ==
    /\ pc = "prompt"
    /\ provider # "openai"
    /\ IF aborted
       THEN /\ Cancelled
            /\ UNCHANGED <<started, usages, totals>>
       ELSE /\ started' = started + 1
            /\ IF MockError = "none"
               THEN \E input \in MockInputTokens :
                       AcceptAnswer(deterministicUsage(input))
               ELSE FailPrompt(MockError)
    /\ UNCHANGED <<setup, stages, aborted, request, timer>>

\* setTimeout's callback; a timer left behind fires later.
TimerFires ==
    /\ timer = "armed"
    /\ timer' = "fired"
    /\ UNCHANGED <<setup, pc, stages, aborted, request, started, usages,
                   totals, outcome>>

Answers ==
    {[NoRequest EXCEPT !.kind = k] :
        k \in {"refusal"} \cup DefectiveContent
                          \cup (SdkErrors \ {"user-abort"})}
    \cup [kind : {"valid"}, input : TokenCounts, output : TokenCounts]

\* VARIANT of requestController: a timeout does not abort the request.
requestControllerDeaf == aborted

\* Whether requestController has aborted the request: onCallerAbort and
\* onTimeoutAbort.
requestController == aborted \/ timer = "fired"

AnswerWith(answer) ==
    /\ pc = "request"
    /\ request = OpenRequest
    /\ request' = answer
    /\ UNCHANGED <<setup, pc, stages, aborted, timer, started, usages,
                   totals, outcome>>

\* The SDK's promise settles with OpenAI's answer, or an error.
ProviderAnswers ==
    /\ ~requestController
    /\ \E answer \in Answers : AnswerWith(answer)

\* The SDK rejects a request that was aborted.
RequestAborts ==
    /\ requestController
    /\ AnswerWith([NoRequest EXCEPT !.kind = "user-abort"])

\* VARIANT of SettleRequest: the signal is not looked at after the await.
SettleRequestUnaware ==
    /\ pc = "request"
    /\ request # OpenRequest
    /\ request' = NoRequest
    /\ timer' = "off"
    /\ IF timer = "fired" THEN FailPrompt("AI_TIMEOUT")
       ELSE IF AnswerError(request) # "none"
       THEN FailPrompt(AnswerError(request))
       ELSE AcceptAnswer(Usage(request.input, request.output))
    /\ UNCHANGED <<setup, stages, aborted, started>>

\* VARIANT of SettleRequest: an SDK error is mapped before the timeout is
\* looked at.
SettleRequestMapsFirst ==
    /\ pc = "request"
    /\ request # OpenRequest
    /\ request' = NoRequest
    /\ timer' = "off"
    /\ IF aborted
       THEN Cancelled /\ UNCHANGED <<usages, totals>>
       ELSE IF AnswerError(request) # "none"
       THEN FailPrompt(AnswerError(request))
       ELSE IF timer = "fired" THEN FailPrompt("AI_TIMEOUT")
       ELSE AcceptAnswer(Usage(request.input, request.output))
    /\ UNCHANGED <<setup, stages, aborted, started>>

\* OpenAIProvider.generate after its await, the catch and finally blocks
\* included: the signal first, then the timeout, then the answer.
SettleRequest ==
    /\ pc = "request"
    /\ request # OpenRequest
    /\ request' = NoRequest
    /\ timer' = "off"
    /\ IF aborted
       THEN Cancelled /\ UNCHANGED <<usages, totals>>
       ELSE IF timer = "fired" THEN FailPrompt("AI_TIMEOUT")
       ELSE IF AnswerError(request) # "none"
       THEN FailPrompt(AnswerError(request))
       ELSE AcceptAnswer(Usage(request.input, request.output))
    /\ UNCHANGED <<setup, stages, aborted, started>>

\* publicationGenerator.build, and the catch clause around it.
BuildPublication ==
    /\ pc = "build"
    /\ IF aborted THEN Cancelled
       ELSE \/ GoTo("compose")
            \/ \E code \in {"PUBLICATION_VALIDATION_ERROR",
                            "PUBLICATION_BUILD_ERROR"} :
                  Throw("permanent", code)
    /\ UNCHANGED <<setup, stages, aborted, ai>>

HtmlErrors == {"HTML_VALIDATION_ERROR", "HTML_UNSUPPORTED_ELEMENT",
               "HTML_COMPOSITION_ERROR"}

RenderErrors == {"RENDER_VALIDATION_ERROR", "UNSUPPORTED_FORMAT",
                 "UNSUPPORTED_THEME", "INVALID_ASSET", "RENDER_FAILED"}

\* After the await of build nothing is awaited: the composer looks at the
\* signal, the renderer follows if there is one, and process returns.
ComposeAndReturn ==
    /\ pc = "compose"
    /\ IF aborted THEN Cancelled
       ELSE \/ Throw("returned", "none")
            \/ \E code \in HtmlErrors : Throw("permanent", code)
            \/ renderer /\ \E code \in RenderErrors : Throw("permanent", code)
    /\ UNCHANGED <<setup, stages, aborted, ai>>

Step ==
    \/ Start
    \/ LookupSource
    \/ ReportNormalizing
    \/ Heartbeat
    \/ Renewal
    \/ ReportStatistics
    \/ GenerateOpenAI
    \/ GenerateMock
    \/ RequestAborts
    \/ SettleRequest
    \/ BuildPublication
    \/ ComposeAndReturn

Next ==
    \/ Step
    \/ Abort
    \/ TimerFires
    \/ ProviderAnswers

\* The event loop runs what is ready, a timer that is due among it, and the
\* database answers.  OpenAI may never answer.
Fairness == WF_vars(Step) /\ WF_vars(TimerFires)

Spec == Init /\ [][Next]_vars /\ Fairness

----------------------------------------------------------------------------
(* What is checked.                                                        *)

\* The type of every variable.
TypeOK ==
    /\ provider \in Providers
    /\ renderer \in BOOLEAN
    /\ pc \in {"start", "lookup", "normalizing", "heartbeat", "renewing",
               "statistics",
               "prompt", "request", "build", "compose", "done"}
    /\ stages \in 0 .. 2
    /\ aborted \in BOOLEAN
    /\ request \in {NoRequest, OpenRequest} \cup Answers
                   \cup {[NoRequest EXCEPT !.kind = "user-abort"]}
    /\ timer \in {"off", "armed", "fired"}
    /\ started \in 0 .. Len(Prompts)
    /\ Len(usages) <= started
    /\ \A i \in 1 .. Len(usages) : aiUsageSchema(usages[i])
    /\ aiUsageSchema(totals)
    /\ outcome.kind \in {"running", "returned", "cancelled", "leaseLost",
                         "retryable", "permanent"}

\* A result carries the usage of all five prompts, and its totals are their
\* sums within the safe range: counts that add up beyond it are refused as a
\* permanent validation error, never found by the schema afterwards, whose
\* error the executor would retry.
UsageAccounted ==
    /\ outcome.code # "UNEXPECTED"
    /\ pc \in {"build", "compose"} \/ outcome.kind = "returned" =>
          LET all == 1 .. Len(Prompts)
              tokens == [i \in all |-> usages[i].input + usages[i].output]
              sum[i \in 0 .. Len(Prompts)] ==
                  IF i = 0 THEN 0 ELSE sum[i - 1] + tokens[i]
          IN  /\ DOMAIN usages = all
              /\ totals.total = sum[Len(Prompts)]
              /\ totals.total \in 0 .. MaxSafe

\* Once the signal is aborted, no further prompt is sent, and nothing that
\* happens from the first prompt on ends otherwise than as a cancellation: an
\* answer, an error or a timeout that comes with the abort is not recorded as a
\* failure of the job.
AbortHeeded ==
    aborted =>
        /\ started' = started
        /\ pc \in {"prompt", "request", "build", "compose"} /\ pc' = "done" =>
              outcome'.kind = "cancelled"
CancellationWins == [][AbortHeeded]_vars

\* process keeps the contract that the job executor relies on.
Contract == INSTANCE JobProcessor WITH ending <- outcome.kind

ImplementsJobProcessor == Contract!Spec

\* process settles even if OpenAI never answers: the request's timer cuts it
\* off.
EveryProcessingEnds == <>(pc = "done")

=============================================================================
