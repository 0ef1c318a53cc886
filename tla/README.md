# Formal models of the content engine

TLA+ models of the engine, from the HTTP request to the published document,
checked with TLC. All safety properties but three about documents are also proved
with TLAPS, for every number of workers, jobs, clients and callers.
Paths are relative to the repository; `PROJECT.json` names the lines behind
every definition.

## The system

| part | state | operations | what makes it correct |
|---|---|---|---|
| Content job queue (`content_jobs`, `job_events`) | a row per job: status, stage, attempt count, lease owner and expiry, next attempt, result, error | insert, cancel (API); acquire, renew, stage, complete, retry, fail, recover (workers) | rows move along the transition policy, no row is stranded, the log tells what happened |
| Content worker process | a polling loop, up to `WORKER_CONCURRENCY` executions with a heartbeat each, a recovery sweep, a shutdown signal | poll, execute, heartbeat, sweep, shut down | one attempt at a time, at most `WORKER_MAX_ATTEMPTS`, results of lost leases are not stored, shutdown ends |
| Transcript processor and AI pipeline | the prompt under way, its timer, usage totals | load source, report stages, run five prompts, build publication | stops when aborted, ends, errors are classified truly, usage adds up |
| Publish job queue (`publish_jobs`) | a row per job with lease, stage, remote job id, failures in a row, poll time | create, acquire, heartbeat, submit, wait, retry, complete, fail, cancel, recover | the row agrees with the remote job, waiting jobs hold no lease, late writes are refused |
| Publish worker process | loop, executions with a heartbeat per remote call, sweep | submit to, and poll, the remote engine | converges with the remote job; survives lost answers |
| Publish engine client | attempts, a request timer, a time budget | submit, get job, get download, wait | one render per submission, bounded retries and time, truthful errors |
| Access token provider | cached token, refresh in flight | get token | never hands out an expired token, one refresh at a time, everyone is served |
| API: source versions, creation of both kinds of jobs, reads | rows, unique indexes, advisory locks | create or get, get, list events | gapless versions, one row per key, answers that are true |
| Publications and HTML composition | none | build a guide, compose a document | links land, ids are unique, the table of contents is complete, nothing sound is refused |
| Rendering, themes, packaging, logging, configuration | none | pure functions | (not modelled) |

How they interact: the API inserts and cancels rows; workers, any number of
processes, acquire them through `FOR UPDATE SKIP LOCKED`, renew the lease with
heartbeats while the processor runs, and write the outcome in a statement
guarded by worker id and lease expiry. There is no other communication: a
crashed worker is noticed because its lease runs out and some worker's sweep
finds the row. A completed content job can be published; the publish worker
drives a remote engine over HTTP with tokens of the token provider.

What is hard: every guard is evaluated with a time that was sampled before the
statement was sent; the sweep and the API's cancel read and update in separate
statements at READ COMMITTED; a statement may commit and its answer be lost;
a process may die anywhere; heartbeats overlap the statements that end an
attempt; shutdown overlaps all of it. `PROJECT.json` lists these hazards at
their lines.

## Modules

Content queue

- `RetryPolicy`: the exponential delay that both workers and the client share.
- `ContentJobStore`: the `content_jobs` row, the WHERE clauses as predicates
  (`Due`, `Owned`, `Stale`), the SET clauses as functions on rows, the
  transition policy. No variables.
- `ContentWorkers`: the processes that use it. A step is one committed
  statement, or what a process does between two awaits. Variables: `clock`,
  `jobs` (table), `lastEvent` (newest log row per job), `cancels` (API cancels
  between their two statements), `proc`, `loop` (main loop and its sweep) and
  `exec` (one execution per slot) of every worker.
- `JobLifecycle`: what the queue promises, with no workers, leases or time.
  `ContentWorkers` implements it with `job` mapped to the status, attempt count,
  result and kind of failure of each row (`View`).
- `TranscriptProcessing`: one call of the processor, with the prompts, the mock
  and the OpenAI provider, the request timer and the executor's signal. It
  implements `JobProcessor`, the contract under which `ContentWorkers` runs its
  attempts.

Publish queue

- `PublishJobStore`, `PublishWorkers`, `PublishLifecycle`: as above, for
  `publish_jobs`, with the remote engine (`remote`, external) and the renewals
  that outlive their remote call (`orphans`).
- `PublishEngineClient`: one call of the HTTP client with its attempts, tokens,
  timers, bodies, pauses and waits, and an engine that may process a request
  after it was given up. It implements `RemoteCall`, which is what
  `PublishWorkers` takes a remote call to be.
- `AccessTokens`: cache, refresh window and shared refresh.

API and documents

- `Selections`: `KeepAt`, the elements of a sequence at a set of places. The passes
  of the normalisation and the deduplications of the guide are written with it,
  because what it keeps can be proved for every sequence.
- `Transcripts`: normalisation and identity of a transcript.
- `ApiRequests`: the creations and reads of source versions, content jobs and
  publish jobs, statement by statement.
- `Publications`: `publicationSchema` and the CTA guide template.
- `HtmlDocuments`: elements and `htmlDocumentSchema`.
- `HtmlComposition`: builder and composer on top of both. Trees are unfolded level
  by level, as the schema's own traversal does, up to `MaxTreeDepth`.

`MC...` modules hold TLC's instances; those of the workers also the
specifications with endless time, fairness, and the liveness properties.
The theorems are in modules named after what they are about:
`ContentWorkersProofs`, `PublishWorkersProofs`, `TranscriptProcessingProofs`,
`PublishEngineClientProofs`, `AccessTokensProofs`, `ApiRequestsProofs`,
`HtmlCompositionProofs`, and `SelectionsProofs`, which the last two use.

Definitions marked VARIANT are plausible bugs of the definition that follows
them; substituted for it, TLC finds a property violated. They are used nowhere
else.

How code and model correspond. In `ContentWorkers`, `Poll`/`AcquireNext`/
`AcquireNothing`/`AcquireThrows` are the inner loop of `WorkerLoop.run`;
`ListStale`, `SelectStale`, `UpdateStale`, `SweepThrows` are
`StaleJobRecovery.runOnce` with the two statements of `recoverStaleJob` apart;
`MarkStage`, `StartHeartbeat`, `RenewLease`, `ProcessorSucceeds`,
`ProcessorThrows`, `MarkCompleted`, `ScheduleRetry`, `MarkFailed`, `Settle` and
their `...Throws` are `JobExecutor.execute`; `RequestShutdown`,
`ShutdownTimeout`, `Exit`, `Crash` the life of the process; `Create`,
`CancelRead`, `CancelUpdate` the API. `PublishWorkers` is laid out alike, with
the remote calls of `submitRemoteJob`, `pollRemoteJob` and the download as
actions that start, answer and throw. In the other modules actions and operators
have the names of the functions they model; `PROJECT.json` has the lines.

Abstractions:

- Content results are the number of the attempt that produced them; error codes
  are reduced to the classes that are handled differently; columns no guard reads
  are left out. Worker ids are unique per process (`createWorkerId` uses pid and
  a ULID suffix), so a restarted worker is a new element of `Worker`. The sweep
  takes its list in any order; its limit is not reached by the instances.
- Each publish job has a remote job of its own. In the code the key of a
  submission is the fingerprint of the request, so that two publish jobs for one
  request share a remote job (`request-fingerprint.ts:59`); nothing says whether
  the engine should render an equal request again.
- Events of publish jobs are left out; that their insertion may fail after the
  row was changed is not.
- Requests, answers, headers and bodies of the engine and of OpenAI are classes
  of valid and invalid data.
- SHA-256 is injective. A text is a sequence of characters that the
  normalisation tells apart.
- The errors of a failed statement are those of drizzle-orm 0.45.2, the version the
  lock file pins: an error without a code, with the driver's error as its cause.
  `error-utils.ts` looks for the SQLSTATE in the outermost error only, so
  `isUniqueViolation` is false in `Recover`, and its first branch, which the code
  has, is never taken.
- An id of a document is the sequence of its words, so that derived ids
  concatenate and clashes are real; texts are their lengths where a limit applies.

## Time

The clock is an integer all processes share. A statement is evaluated with the
`now` its process sampled before sending it; `MaxLag` bounds how long it may be
under way (`StatementsOnTime` in `Tick`). Nothing in the code bounds that (no
statement timeout is configured), so `MaxLag` is a parameter: the theorems say
which results need it to be below the lease duration. The sweep's `now` is not
bounded by it: a sweep may last arbitrarily long. Skew between the clocks of
different hosts is not modelled.

`PublishWorkers` treats time alike. In `PublishEngineClient` the timer of a
request runs while `fetch` does; a token or a body takes at most `MaxLag`. In
`AccessTokens` the clock is the wall clock and may be set back.

## Runs

Most runs set `CHECK_DEADLOCK FALSE`: with a bounded clock, with workers that stop
for good, or with a single call that is over, the system may come to rest.

| run | instance | shows |
|---|---|---|
| `content_workers` | 2 workers (symmetric) with 1 slot, 1 job, 2 attempts, lease 2, lag 1, time 3; 511,262 states | types, `NoStrandedJob`, `ResultOfLastAttempt`, `AttemptBudget`, the action properties `FollowsPolicy`, `EventsTellTheTransition`, `LeaseHonoured`, and refinement of `JobLifecycle` |
| `content_endless` | 2 workers, 1 job, endless time, lag 0: statements take effect at the time they sampled | `EveryJobEnds`, `ShutdownEnds` |
| `content_two_slots` | 1 worker with 2 slots, punctual heartbeats | violation of `AttemptBudget`, see Findings |
| `processing` | both providers, all modes of the mock, token counts around the largest safe integer (scaled to 20) | `UsageAccounted`, `CancellationWins`, refinement of `JobProcessor`, `EveryProcessingEnds` |
| `publish_workers` | 2 workers, 1 job, 2 failures in a row, lossy engine; 1,197,123 states | `NoStrandedJob`, `OutcomeTruthful`, `FailureBudget`, `StageAgrees`, `FollowsPolicy`, `LeaseHonoured`, refinement of `PublishLifecycle` |
| `publish_endless` | 2 workers, endless time, lag 0 | `EveryPublishEnds` |
| `publish_shutdown` | 1 worker, no fetch aborts by itself (`SignalledSpec`) | violation of `RemoteCancelledIsTrue`, see Findings |
| `engine_client` | one call of each kind, 2 retries, timeout 4, wait 5, Retry-After up to beyond the budget | `OverInTime`, `TimeoutTruthful`, `FinalWord`, `CallEnds`, refinement of `RemoteCall` (one rendering per call; cancelled only if the caller aborted, or a fetch was broken off as an abort by itself) |
| `access_tokens` | 3 callers, tokens of every lifetime around the refresh window | `OneFlight`, `ValidTokens`, `EveryoneServed` |
| `api` | 2 clients that upload, create content jobs or create publish jobs and read each other's, each sending up to 2 requests, 1 fault, the content worker; 210,998 states | `VersionsGapless`, `SameRequestSameRow`, `AnswersTrue` (what is accepted, which keys are refused, which events are listed), `SourcesPinned`, `UnavailableExplained`, `EveryRequestAnswered` |
| `api_race` | 2 clients that send one creation with one key, no faults | violation of `UnavailableMeansFault`, see Findings |
| `composition` | 1,554 AI results with up to 3 references, built into guides, and more than 12,000 publications: every table of contents of up to 4 entries, entries for blocks that are not rendered, every order of headings in 2 sections, every block with and without citations, clashing ids of sections, blocks and references, lists and documents around their limits; 29,110 states | `AcceptedDocumentsSound` (links land, ids name one element, the navigation is the table of contents, headings are in order, citations are linked), `SoundPublicationsCompose`, `GuidesCompose`, `GuidesFaithful` |

The publish queue is checked with one job and one execution per worker: the
model of a sweep, one transaction that reads, locks and writes several rows, is
for any number of rows, but a run meets one. The theorems cover any number of
jobs, workers and slots of both queues. `TypeOK` of the modules other than
`ContentWorkers` is part of no run; that of the proved modules is a part of their
inductive invariants.

In `composition` the limits of the schemas are scaled: ids of 6 words for 120
characters, labels of 40 for 240, scripture texts of 45 for 1200, 9 children for
180, a depth of 10 for 16, documents of 93 elements for 2400. Each is met and
exceeded. `SoundPublicationsCompose` lists the reasons for which the composer may
refuse what `publicationSchema` accepts: entries of the table of contents that point
out of the body or have a parent that is not shown; ids that continue each other,
start like the composer's own, are the navigation's or those of a reference's link;
blocks that cite the same list or one too long for an id; headings that start at level 3; titles that do not fit; lists,
nesting or documents that are too large (`DocumentSize` counts the elements from the
publication); unsafe URLs and ids that no link may hold. The run shows that there is
no other reason among its publications. The limits on wording that both schemas
share, and texts that are empty once trimmed, are not part of the model.

An entry of the table of contents may name a block of the cover, which the composer
does not render. If the id is one the composer uses itself (`document-title`), the
document is accepted and the link leads to that element. `LinksLand` therefore says
of such entries only that they lead to one element, and of all others that they lead
to their section or block in the main part.

The bounds of the content runs suffice for the interesting cases: time 3 with lease 2 lets a lease
run out and the job be swept, acquired again by the other worker and finished or
exhausted while statements of its first execution are still under way; two
attempts are the least for which "retry" and "give up" are different decisions.
The theorems remove the bounds for everything but liveness and composed documents.

### Endless time and fairness

`EndlessSpec` keeps the state space finite by sliding: at `MaxTime` the clock
stands still and all stored times move one tick into the past. `w2` is a worker
that keeps running, `w1` may crash or be told to stop. Fairness: time passes, a
loop that can do something effective does it, statements under way are answered,
and a processor returns or throws. The code justifies the last by the timeouts of
the AI provider, and the loop's by its poll interval and by catching every error.
Calls that fail with no effect are left out of this specification, which says that
the database does not fail forever. No fairness is assumed of the API, crashes,
the sending of heartbeats or shutdown requests.

`publish_endless` assumes the same of the publish worker, and of
the engine that it finishes a job it has accepted, not that it accepts one. A
remote call ends because `fetch` has a timer and retries are bounded
(`engine_client` checks it as `CallEnds`). `CallEnds` needs that time passes and
that the client goes on when it can; `EveryoneServed` that the credential settles
its requests; `EveryRequestAnswered` that the API process and the database go on
with a request; `EveryProcessingEnds` that the event loop runs and timers fire:
OpenAI need not answer at all.

## Proofs

`PROJECT.json` lists the theorems. Each is about the `Spec` of the component's
module, for every value of its constants that the named ASSUMEs allow:

- numbers are what `environment/index.ts` and the constructors validate (a
  positive lease, a base delay not above the cap, at least one attempt, failure
  and slot, positive timeouts, jitter of 0 to 100 percent); `MaxTime`, `MaxLag`,
  `MaxSends` and `MaxFaults` are arbitrary;
- headers and token counts are arbitrary integers (`RetryAfterAssumption`,
  `ProcessingAssumption`);
- every client of the API makes one of the requests there are
  (`WorkloadsAssumption`), and what the tables hold at the start is what this API
  could have stored (`InitialRowsAssumption`: unique keys, versions 1 to n per
  project, references that exist, publish jobs of completed jobs). That the tables
  stay so (`WellStored`) is part of what is proved;
- an uploaded text is a sequence of strings, and an AI result is what the AI schemas
  accept (`AIResultsAssumption`): any number of keywords, references and reflections.

Attempts and budgets, of both queues, need more than that, as hypotheses of the
theorems:

- `[]NotReoffered`: no worker that is about to claim is offered a job that one of its
  own executions is still at. Nothing in `acquireNext` ensures it: the fence of every
  statement is the worker's id, so when a lease runs out under an execution, another
  slot of the same worker may claim the job, and the old execution still passes the
  guard. That is what happens in `content_two_slots`. The theorems say that nothing
  else goes wrong: whatever the concurrency, a worker that leaves its own jobs out of
  the claim, or a guard that includes the attempt, is enough. With `Concurrency = 1`,
  the default of `WORKER_CONCURRENCY` and `PUBLISH_JOB_CONCURRENCY`
  (`environment/index.ts`), who claims has no execution, and `NotReoffered` holds
  (`OneSlotNotReoffered`); the theorems for the default are corollaries.
- `MaxLag < LeaseDuration`: no statement is under way for as long as a lease lasts.

TLC separates the cases on one worker with two slots: restricted to the states with
`NotReoffered`, `AttemptBudget` holds on 119,728 states and `FailureBudget` on
151,040; without it both are violated. The instances of `content_workers` and
`publish_workers` satisfy both hypotheses.

**`ContentWorkersProofs`**: `TypeCorrect`, `NothingStranded`, `PolicyFollowed`,
`EventsTruthful`, `LeasesHonoured`, for any concurrency and any lag. The actions
are first reduced to what they write (`Writes`: one of the statements with its
guard). The first two invariants and the first two action properties need, besides
types, only that a cancel under way has read a status it may cancel
(`CancelSeen`); `LeasesHonoured` needs `Sampled`: no sampled time is in the future.

Its second part is about attempts. `LastAttemptWinsUnlessReoffered` rests on `Fenced`
(a row leased to a worker is at the attempt of that worker's executions of it), which
`NotReoffered` keeps when the job is claimed. `BudgetKeptUnlessReoffered` also needs
`MaxLag < LeaseDuration` and rests on `EndingDecision`, `SweepDecision` and
`RowBudget`. `SweepDecision` is the delicate one: between the SELECT and the UPDATE of
a sweep the row may be retried and acquired again, but then its new lease ends after
the sweep's time, because the acquisition sampled its time less than a lease ago.
`LifecycleImplementedUnlessReoffered`, under both hypotheses: every step is a step of
`JobLifecycle` on the `View` of the rows, or none. `LastAttemptWins`, `BudgetKept` and
`LifecycleImplemented` are the same for `Concurrency = 1`.

**`PublishWorkersProofs`**: `TypeCorrect`, `NothingStranded`, `OutcomesTruthful`,
`StagesAgree`, `PolicyFollowed`, `LeasesHonoured`, for any concurrency and any lag.
`OutcomeTruthful` is about rows and remote jobs, but a row is written by an
execution that asked the engine some awaits earlier. So the invariant
(`PublishInv`) says of every await what its execution has learnt (`Informed`: a
remote id, that the remote job is completed, that it has failed), and the proof
shows that nothing makes it forget: a known id stays, and a remote job that is over
stays as it is. Every step changes a row in one of eight ways (`RowBecomes`), and
each keeps the row `Sound`.

Its second part has the failure budget. `BudgetKeptUnlessReoffered` needs the fence of
the content queue, here on the number of failures (`FenceInv`). It needs no bound on
the lag, because a sweep stores the very count it decides from; a count read long ago
may set the row's back, though, and that is what `MaxLag < LeaseDuration` excludes in
`LifecycleImplementedUnlessReoffered` (`SweepInv`: claims and renewals under way are at
most `MaxLag` old, so a row that a sweep still finds stale is as the sweep has read
it). `BudgetKept` and `LifecycleImplemented` are the same for `Concurrency = 1`.

**`TranscriptProcessingProofs`**: `UsageIsAccounted`, `CancellationsWin`, and
`ProcessImplementsContract`, so that what `ContentWorkers` assumes of an attempt is
proved of the processor. The invariant counts stages and prompts at every await
(`Placed`) and says that only an abort or the timer rejects a request as aborted
(`RequestKnown`). The sum over the five prompts is a recursive function; the proof
unfolds it.

**`PublishEngineClientProofs`**: `CallsOverInTime`, `TimeoutsTruthful`,
`EngineHasFinalWord`, `ClientImplementsRemoteCall`. `Times` bounds the time spent at
each await: an attempt's limit is what is left of the request's timeout when the
attempt begins, and its timer starts after the token. That a submission is rendered
once needs `Attempts` and `Sent`: one without a key is never repeated. A call that ends
as cancelled without the caller's signal (`FetchAborts`) is the outcome `broken` of
`RemoteCall`; `PublishWorkers` has it too.

**`AccessTokensProofs`**: `RefreshesDeduplicated`, `NoExpiredToken`. `OneFlight` is
not inductive: the sender of the shared request could go on and leave somebody
waiting. `Together` says that a settled request is settled for everyone at once,
`Fresh` that the clock does not pass the expiry of a token on its way to a caller.

**`ApiRequestsProofs`**: `VersionsNumbered`, `OneRowPerRequest`, `AnswersTruthful`,
`PublishSourcesPinned`, `UnavailabilityExplained`, for any clients, requests, stored
rows and faults. What is missing in all of them is what a request knows between two
statements (`Known`): an upload under the advisory lock has seen all versions of its
project; the source of a publish job, read before the transaction, is over and cannot
change; the row that won the race for a key is there when the loser is answered, which
is what `UnavailabilityExplained` says of a 503 without a fault.
`NoRace` (insertions under way do not clash), `FreshIds`, `EventsStored` and
`AnswerTrue` (an answer given earlier is still true) complete `ApiInv`. Versions being
1 to n without gap is a fact about finite sets and their cardinality and uses
`FiniteSetTheorems`. `NormalizationIdempotent` is used by `OneRowPerRequest`: the
repository normalises a transcript and hands it to the hash, which normalises it once
more (`drizzle-source-version-repository.ts:78-84`), so two uploads with one normal
text get one hash only if the second pass changes nothing. The proof goes through the
four passes: each leaves a text in a form (no carriage returns, single spaces, two line
feeds at most, no white space at the ends) that the later ones keep, and each is the
identity on texts of all four forms.

**`SelectionsProofs`**: what `KeepAt` computes. The library's induction theorems take
the predicate as an operator, which the provers cannot instantiate; here a set of
numbers takes its place (`Induction`, from the well-foundedness of < and `WFMin`), and
the recursive function itself is shown to exist by the same induction.

**`HtmlCompositionProofs`**: `GuidesFaithfulToResults`. That a guide's publication is
the one built from its AI result is a short invariant (`GuideInv`); the property is about
the template. A reference is kept at the first place of its key (`FirstsCover`), the
second deduplication finds nothing left, and so the places of the labels increase. The
table of contents is two recursions, over the headings of a section and over the
sections: `SectionEntriesShape` shows that only the section itself is listed at the
first level, because `normalizeHeadingLevel` never yields it, and `FlattenElements`
puts the sections together.

The inductive invariants were checked with TLC on the instances of the runs
(`AttemptsInv` on all 511,262 states of `content_workers`, `PublishInv`, `FenceInv` and
`SweepInv` on the 1,197,123 of `publish_workers`, `ProcInv` on the 556,756 of
`processing`, `ClientInv` on the 55,619 of `engine_client`, `TokensInv` on the 71,684 of
`access_tokens`, `ApiInv` on the 210,998 of `api`, `GuideInv` on the 29,110 of
`composition`).

Only model-checked are

- liveness, which is beyond the prover: `EveryJobEnds`, `ShutdownEnds`,
  `EveryProcessingEnds`, `EveryPublishEnds`, `CallEnds`, `EveryoneServed`,
  `EveryRequestAnswered`;
- `AcceptedDocumentsSound`, `SoundPublicationsCompose` and `GuidesCompose`: documents
  are trees, and the properties compare the composer's recursion over the table of
  contents and the blocks, the schema's traversal and the document order of the
  finished tree, which would take induction over trees for each. `GuidesCompose` also
  needs that the decimal forms of different numbers differ, which is not known of
  `ToString`.

## Findings

1. `content_two_slots`. The statements that end an attempt are fenced by worker
   id, not by attempt. With `WORKER_CONCURRENCY` of 2 or more (the default is 1)
   and a statement that hangs for longer than the lease, a worker can acquire a job
   that another execution of the same worker still holds on to; the late
   `scheduleRetry` of the old attempt then sends the row of the last attempt back
   to `retrying`, and the job is attempted more often than `WORKER_MAX_ATTEMPTS`.
2. `publish_shutdown`. A shutdown aborts the remote call of every execution; the
   client's `PublishEngineCancelledError` is classified like a cancelled remote job,
   so the publish job is failed for good with `PUBLISH_REMOTE_JOB_CANCELLED` while
   the remote job goes on and may complete. A `fetch` that rejects as an abort for
   no reason of the client's (`http-publish-engine-client.ts:805`) ends the same way.
3. `api_race`. Of two creations of a job with one key at the same time the loser
   violates the unique index. `isUniqueViolation` does not see it, because drizzle-orm
   wraps the error, and the answer is 503 instead of the job that won, although
   `README.md:942` promises the same job record and an integration test expects it.
   Nothing is lost: the row is there, and the request, sent again, finds it
   (`UnavailableExplained`). Uploads are not affected; the advisory lock keeps them
   from racing. Looking at the error's cause as well would be enough.

Remarks that no run is about:

- `README.md:997-998` says that shutdown waits for active executions up to
  `WORKER_SHUTDOWN_TIMEOUT_MS` and aborts them after it. `WorkerLoop.run` forwards the
  shutdown signal to every execution at once (`worker-loop.ts:82`), and so does
  `RequestShutdown`; the timeout only reaches jobs acquired during the shutdown. The
  aborted jobs stay `processing` until their lease runs out.
- The timer and the listener of a request are removed when the headers arrive, and
  set only after the token (`http-publish-engine-client.ts:824`): a slow token or
  body outlasts the request timeout of `README.md:460`, and an abort is not seen
  while the body is read. `OverInTime` allows one token and one body, each of at
  most `MaxLag`, beyond the timeout.
- `waitForJob` passes its own options on to `getJob`, whose schema refuses them
  (`http-publish-engine-client.ts:487`): in the model such a wait ends with a
  protocol error. Nothing but tests calls it.
- A publish key that is reused for another request is answered with
  `PUBLISH_JOB_IDEMPOTENCY_CONFLICT`, not with the documented
  `IDEMPOTENCY_KEY_REUSED` (`drizzle-publish-job-repository.ts:156`).
- `README.md` promises ids that are unique across a publication; the schema checks
  each kind of id apart (`publication-schema.ts:275`). The composer refuses the
  clashes between sections and blocks later, as an invalid HTML document.
- The repository's `claim` and `scheduleRetry` store neither a lease nor a time of
  the next attempt: a row moved by them would be found by no query of the workers.
  Only tests call them.
- A guide with more scripture than a label of 240 characters holds is refused by
  the composer, and the job fails for good, although the AI schema allows 20
  references (`GuidesCompose` says exactly when).
- The OpenAI provider arms its timer before it looks at the signal and leaves it
  armed when that is aborted already (`openai-provider.ts:159`).
- Citations of a heading block are dropped by the composer.

## Plan

1. Done: models of both queues with their promises, the processor, the client, the
   tokens, the API and the composition of documents; proofs of every safety property
   of all of them but three of composed documents.
2. Left: a bound on the attempts without `NotReoffered` (it grows with the number of
   slots), induction over the trees of documents, and shorter proofs where two modules
   prove the same of the two queues.

## Not modelled

Rendering to markup, themes and packaging: pure functions whose result is the
wording itself. Health routes, logging, serializers and the parsing of the
configuration: no state and no order of events. Of the configuration, what the
models need is in their ASSUMEs. `claim`, `markStage`, `complete`, `scheduleRetry`
and `fail` of the content job repository: only tests call them. `listByProject` of source versions: a read without
a caller.
