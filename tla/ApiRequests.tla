----------------------------- MODULE ApiRequests -----------------------------
(***************************************************************************)
(* The HTTP API's creations and reads: source versions, content jobs and   *)
(* publish jobs, from the route to the rows.  Clients send one request     *)
(* each, again and again, whether or not they got an answer.               *)
(*                                                                         *)
(* One action is one statement of a request on the database; the           *)
(* transactions are READ COMMITTED, so a statement sees what is committed  *)
(* when it runs.  An insertion is pending until its transaction commits;   *)
(* another one with the same unique key waits for it.  A statement may     *)
(* fail, the answer to a COMMIT may be lost, and the API process may die.  *)
(*                                                                         *)
(* Cancellations are part of ContentWorkers and PublishWorkers.            *)
(***************************************************************************)
EXTENDS Integers, FiniteSets, FiniteSetsExt, Transcripts

CONSTANTS
    Client,
    NoClient,
    Workloads,      \* what the clients may be after, one request each
    InitialRows,    \* what is stored before
    MaxSends,       \* bound on the times a client sends its request
    MaxFaults       \* bound on failed statements, lost answers and crashes

Tables == {"source", "content", "publish"}

ASSUME NoClientAssumption == NoClient \notin Client
ASSUME BoundsAssumption == MaxSends \in Nat \ {0} /\ MaxFaults \in Nat

VARIABLES
    input,      \* what each client is after
    sent,       \* how often it has sent it
    pc,         \* the next statement of its request
    draft,      \* the values its request has computed so far
    pending,    \* the row its transaction has inserted
    lock,       \* the advisory locks, per tenant and project
    rows,       \* the committed rows
    created,    \* the committed creation events, per job
    answers,    \* the answers given
    faults

vars == <<input, sent, pc, draft, pending, lock, rows, created, answers, faults>>

-----------------------------------------------------------------------------
(* Requests *)

Creations == Tables
Reads == {"get-source", "get-content", "get-publish"}
Listings == {"events-content", "events-publish"}

\* The table a request is about.
Table(op) ==
    CASE op \in {"source", "get-source"} -> "source"
      [] op \in {"content", "get-content", "events-content"} -> "content"
      [] OTHER -> "publish"

\* Fresh identifiers are ULIDs; a request inserts one row at most.
Id(c) == <<c, sent[c]>>
Ids == (Client \X (1 .. MaxSends))
       \union UNION {{row.id : row \in InitialRows[t]} : t \in Tables}

NoDraft == [fingerprint |-> <<>>, number |-> 0]
NoRow == [id |-> <<>>]

Inputs == UNION {{w[c] : c \in Client} : w \in Workloads}

ASSUME WorkloadsAssumption ==
    \A w \in Workloads :
        /\ DOMAIN w = Client
        /\ \A c \in Client : /\ w[c].op \in Creations \union Reads \union Listings
                             /\ w[c].text \in Seq(STRING)

LockKeys == {<<i.tenant, i.project>> : i \in Inputs}

(* Errors and answers *)

ValidationError == [class |-> "validation", code |-> "VALIDATION_ERROR"]
NotFoundError == [class |-> "not-found", code |-> "RESOURCE_NOT_FOUND"]
ConflictError(code) == [class |-> "conflict", code |-> code]
DatabaseUnavailable == [class |-> "platform", code |-> "DATABASE_UNAVAILABLE"]

\* api-error-handler; the framework's own errors come before the handler runs.
mapError(error) ==
    CASE error.class = "too-large" -> [status |-> 413, code |-> "PAYLOAD_TOO_LARGE"]
      [] error.class = "bad-json" -> [status |-> 400, code |-> "INVALID_JSON"]
      [] error.class = "validation" -> [status |-> 400, code |-> "VALIDATION_ERROR"]
      [] error.class = "not-found" -> [status |-> 404, code |-> "RESOURCE_NOT_FOUND"]
      [] error.class = "conflict" -> [status |-> 409, code |-> error.code]
      [] OTHER -> [status |-> 503, code |-> "DATABASE_UNAVAILABLE"]

Answer(i, status, code, id, shown, fault) ==
    [input |-> i, status |-> status, code |-> code, id |-> id,
     shown |-> shown, fault |-> fault]

Created(i, id) ==
    Answer(i, IF i.op = "source" THEN 201 ELSE 202, "none", id, 0, FALSE)
Found(i, id, shown) == Answer(i, 200, "none", id, shown, FALSE)
Refused(i, error) ==
    Answer(i, mapError(error).status, mapError(error).code, <<>>, 0, FALSE)
Broken(i) == [Refused(i, DatabaseUnavailable) EXCEPT !.fault = TRUE]

Accepted == {a \in answers : a.status \in {201, 202}}

\* The normal text and the content hash of every upload; the hash is of the
\* normal text, which it normalises once more.
NormalText == [text \in {i.text : i \in Inputs} |-> normalizeTranscript(text)]
ContentHash ==
    [text \in {i.text : i \in Inputs} |-> computeTranscriptHash(NormalText[text])]

\* What stops a request before it reaches the database: the framework's parser,
\* the request and tenant contexts, the schemas of headers, parameters and body,
\* a guide without metadata, and a transcript of white space.
Stopped(i) == i.form # "ok" \/ (i.op = "source" /\ NormalText[i.text] = <<>>)

StopError(i) ==
    IF i.form \in {"too-large", "bad-json"} THEN [class |-> i.form, code |-> "none"]
    ELSE ValidationError

(* Fingerprints and rows *)

\* The job type and the request schema version have one value each.
computeRequestFingerprint(i) == <<i.tenant, i.project, i.ref>>

computePublishJobRequestFingerprint(i, job) == <<job.id, job.artifact, i.opts>>

buildRemoteSubmissionIdempotencyKey(fingerprint) == <<"submit", fingerprint>>

SourceVersionRow(c) ==
    LET i == input[c] IN
    [id |-> Id(c), tenant |-> i.tenant, project |-> i.project,
     number |-> draft[c].number, hash |-> ContentHash[i.text]]

ContentJobRow(c) ==
    LET i == input[c] IN
    [id |-> Id(c), tenant |-> i.tenant, project |-> i.project, ref |-> i.ref,
     key |-> i.key, fingerprint |-> computeRequestFingerprint(i),
     status |-> "queued", artifact |-> "none"]

PublishJobRow(c) ==
    LET i == input[c] IN
    [id |-> Id(c), tenant |-> i.tenant, project |-> i.project, ref |-> i.ref,
     key |-> i.key, fingerprint |-> draft[c].fingerprint,
     remoteKey |-> buildRemoteSubmissionIdempotencyKey(draft[c].fingerprint)]

RowOf(c) ==
    CASE input[c].op = "source" -> SourceVersionRow(c)
      [] input[c].op = "content" -> ContentJobRow(c)
      [] OTHER -> PublishJobRow(c)

\* The unique indexes of the three tables.
UniqueKeys(op, row) ==
    IF op = "source"
    THEN {<<"version", row.tenant, row.project, row.number>>,
          <<"hash", row.tenant, row.project, row.hash>>}
    ELSE {<<"key", row.tenant, row.key>>}

Clash(op, row, other) == UniqueKeys(op, row) \intersect UniqueKeys(op, other) # {}

(* What the tables hold *)

Artifacts == {"styled", "missing", "not-styled", "corrupt", "too-large"}

\* The columns of a content job that anything here reads.
JobColumns == {"id", "tenant", "project", "ref", "key", "fingerprint", "status",
               "artifact"}

\* The versions of one project.
VersionsOf(versions, tenant, project) ==
    {row \in versions : row.tenant = tenant /\ row.project = project}

Gapless(versions) ==
    \A v \in versions :
        LET siblings == VersionsOf(versions, v.tenant, v.project)
        IN  {row.number : row \in siblings} = 1 .. Cardinality(siblings)

Pinned(pub, jobs) ==
    \E job \in jobs :
        /\ job.id = pub.ref
        /\ job.tenant = pub.tenant /\ job.project = pub.project
        /\ job.status = "completed" /\ job.artifact = "styled"
        /\ pub.fingerprint[1] = job.id /\ pub.fingerprint[2] = job.artifact

\* Tables that creations have filled.
WellStored(tables) ==
    /\ DOMAIN tables = Tables
    /\ IsFiniteSet(tables["source"])
    /\ \A t \in Tables : \A row, other \in tables[t] :
          row.id = other.id \/ Clash(t, row, other) => row = other
    /\ Gapless(tables["source"])
    /\ \A job \in tables["content"] :
          /\ DOMAIN job = JobColumns
          /\ job.fingerprint = computeRequestFingerprint(job)
          /\ job.status = "completed" => job.artifact \in Artifacts
    /\ \A pub \in tables["publish"] : Pinned(pub, tables["content"])

\* The stored rows are of earlier requests.
ASSUME InitialRowsAssumption ==
    /\ WellStored(InitialRows)
    /\ \A t \in Tables : \A row \in InitialRows[t] :
          row.id \notin Client \X (1 .. MaxSends)

\* VARIANT of VersionOfContent: in all projects of the tenant.
VersionOfContentInTenant(i) ==
    {row \in rows["source"] : row.tenant = i.tenant /\ row.hash = ContentHash[i.text]}

\* findByHash.
VersionOfContent(i) ==
    {row \in rows["source"] : /\ row.tenant = i.tenant
                              /\ row.project = i.project
                              /\ row.hash = ContentHash[i.text]}

\* getByIdempotencyKey, of either table of jobs.
JobOfKey(i) == {row \in rows[i.op] : row.tenant = i.tenant /\ row.key = i.key}

Existing(i) == IF i.op = "source" THEN VersionOfContent(i) ELSE JobOfKey(i)

FingerprintOf(c) ==
    IF input[c].op = "content" THEN computeRequestFingerprint(input[c])
    ELSE draft[c].fingerprint

\* A key's second use: the same job, or a conflict.
ConflictCode(op) ==
    IF op = "content" THEN "IDEMPOTENCY_KEY_REUSED"
    ELSE "PUBLISH_JOB_IDEMPOTENCY_CONFLICT"

\* VARIANT of Replayed: whatever has the key is the job.
ReplayedUnchecked(c, row) == Created(input[c], row.id)

Replayed(c, row) ==
    IF input[c].op # "source" /\ row.fingerprint # FingerprintOf(c)
    THEN Refused(input[c], ConflictError(ConflictCode(input[c].op)))
    ELSE Created(input[c], row.id)

-----------------------------------------------------------------------------
(* The specification *)

Steps == {"eligible", "lock", "reference", "lookup", "number", "insert",
          "event", "commit", "recover", "read", "list"}
InFlight(c) == pc[c] \in Steps

TypeOK ==
    /\ input \in Workloads
    /\ sent \in [Client -> 0 .. MaxSends]
    /\ pc \in [Client -> Steps \union {"ready", "done", "lost"}]
    /\ DOMAIN draft = Client /\ DOMAIN pending = Client
    /\ \A c \in Client : DOMAIN draft[c] = DOMAIN NoDraft /\ draft[c].number \in Nat
    /\ \A c \in Client : pending[c] = NoRow \/ pending[c].id = Id(c)
    /\ lock \in [LockKeys -> Client \union {NoClient}]
    /\ DOMAIN rows = Tables
    /\ \A t \in Tables : \A row \in rows[t] : row.id \in Ids
    /\ created \in [Ids -> Nat]
    /\ \A a \in answers : a.status \in {200, 201, 202, 400, 404, 409, 413, 503}
    /\ faults \in 0 .. MaxFaults

Init ==
    /\ input \in Workloads
    /\ sent = [c \in Client |-> 0]
    /\ pc = [c \in Client |-> "ready"]
    /\ draft = [c \in Client |-> NoDraft]
    /\ pending = [c \in Client |-> NoRow]
    /\ lock = [k \in LockKeys |-> NoClient]
    /\ rows = InitialRows
    /\ created = [d \in Ids |->
          IF \E t \in {"content", "publish"} : \E row \in InitialRows[t] : row.id = d
          THEN 1 ELSE 0]
    /\ answers = {}
    /\ faults = 0

\* An advisory transaction lock ends with its transaction.
Released(c) == [k \in LockKeys |-> IF lock[k] = c THEN NoClient ELSE lock[k]]

\* VARIANT of Reply: the transaction stays open.
ReplyInTransaction(c, answer) ==
    /\ pc' = [pc EXCEPT ![c] = "done"]
    /\ draft' = [draft EXCEPT ![c] = NoDraft]
    /\ lock' = Released(c)
    /\ answers' = answers \union {answer}
    /\ UNCHANGED pending

\* The request ends, and its transaction with it.
Reply(c, answer) ==
    /\ pc' = [pc EXCEPT ![c] = "done"]
    /\ draft' = [draft EXCEPT ![c] = NoDraft]
    /\ pending' = [pending EXCEPT ![c] = NoRow]
    /\ lock' = Released(c)
    /\ answers' = answers \union {answer}

Continue(c, step) ==
    /\ pc' = [pc EXCEPT ![c] = step]
    /\ UNCHANGED answers

\* The client sends its request, for the first time or once more; the API
\* refuses it or starts on it.
Receive(c, step) ==
    /\ ~InFlight(c)
    /\ sent[c] < MaxSends
    /\ sent' = [sent EXCEPT ![c] = @ + 1]
    /\ IF Stopped(input[c])
       THEN Reply(c, Refused(input[c], StopError(input[c])))
       ELSE /\ Continue(c, step)
            /\ UNCHANGED <<draft, pending, lock>>
    /\ UNCHANGED <<input, rows, created, faults>>

PostSourceVersion(c) == input[c].op = "source" /\ Receive(c, "lock")
PostContentJob(c) == input[c].op = "content" /\ Receive(c, "reference")
PostPublishJob(c) == input[c].op = "publish" /\ Receive(c, "eligible")
GetRequest(c) == input[c].op \in Reads \union Listings /\ Receive(c, "read")

Send(c) ==
    \/ PostSourceVersion(c)
    \/ PostContentJob(c)
    \/ PostPublishJob(c)
    \/ GetRequest(c)

\* VARIANT of SourceRefusal: a job need not be completed.
SourceRefusalUnfinished(job, project) ==
    IF job.project # project THEN "PUBLISH_SOURCE_NOT_ELIGIBLE"
    ELSE IF job.artifact = "missing" THEN "PUBLISH_SOURCE_ARTIFACT_MISSING"
    ELSE IF job.artifact \in {"not-styled", "corrupt", "too-large"}
    THEN "PUBLISH_SOURCE_ARTIFACT_INVALID"
    ELSE "none"

\* createPublishSourceSnapshot: why a content job cannot be published, or none.
SourceRefusal(job, project) ==
    IF job.project # project \/ job.status # "completed"
    THEN "PUBLISH_SOURCE_NOT_ELIGIBLE"
    ELSE IF job.artifact = "missing" THEN "PUBLISH_SOURCE_ARTIFACT_MISSING"
    ELSE IF job.artifact \in {"not-styled", "corrupt", "too-large"}
    THEN "PUBLISH_SOURCE_ARTIFACT_INVALID"
    ELSE "none"

\* CreatePublishJob.execute, up to the repository's transaction.
ReadSourceJob(c) ==
    LET i == input[c]
        jobs == {job \in rows["content"] : job.id = i.ref /\ job.tenant = i.tenant}
    IN
    /\ pc[c] = "eligible"
    /\ \/ jobs = {} /\ Reply(c, Refused(i, NotFoundError))
       \/ \E job \in jobs :
             LET refusal == SourceRefusal(job, i.project) IN
             IF refusal # "none"
             THEN Reply(c, Refused(i, ConflictError(refusal)))
             ELSE /\ draft' = [draft EXCEPT ![c].fingerprint =
                                  computePublishJobRequestFingerprint(i, job)]
                  /\ Continue(c, "reference")
                  /\ UNCHANGED <<pending, lock>>
    /\ UNCHANGED <<input, sent, rows, created, faults>>

\* VARIANT of TakeLock: nobody waits for the lock.
TakeLockShared(c) ==
    LET key == <<input[c].tenant, input[c].project>> IN
    /\ pc[c] = "lock"
    /\ lock' = [lock EXCEPT ![key] = c]
    /\ Continue(c, "lookup")
    /\ UNCHANGED <<input, sent, draft, pending, rows, created, faults>>

\* pg_advisory_xact_lock.
TakeLock(c) ==
    LET key == <<input[c].tenant, input[c].project>> IN
    /\ pc[c] = "lock"
    /\ lock[key] = NoClient
    /\ lock' = [lock EXCEPT ![key] = c]
    /\ Continue(c, "lookup")
    /\ UNCHANGED <<input, sent, draft, pending, rows, created, faults>>

\* The row a job refers to, of the same tenant and project.
CheckReference(c, op, table) ==
    LET i == input[c] IN
    /\ pc[c] = "reference"
    /\ i.op = op
    /\ IF \E row \in rows[table] :
             row.id = i.ref /\ row.tenant = i.tenant /\ row.project = i.project
       THEN Continue(c, "lookup") /\ UNCHANGED <<draft, pending, lock>>
       ELSE Reply(c, Refused(i, NotFoundError))
    /\ UNCHANGED <<input, sent, rows, created, faults>>

CheckSourceVersion(c) == CheckReference(c, "content", "source")
CheckSourceJob(c) == CheckReference(c, "publish", "content")

\* What is there already is the answer; what is not is inserted.
FindExisting(c, op, step) ==
    /\ pc[c] = "lookup"
    /\ input[c].op = op
    /\ \/ \E row \in Existing(input[c]) : Reply(c, Replayed(c, row))
       \/ /\ Existing(input[c]) = {}
          /\ Continue(c, step)
          /\ UNCHANGED <<draft, pending, lock>>
    /\ UNCHANGED <<input, sent, rows, created, faults>>

FindVersion(c) == FindExisting(c, "source", "number")
FindContentJob(c) == FindExisting(c, "content", "insert")
FindPublishJob(c) == FindExisting(c, "publish", "insert")

\* VARIANT of LatestVersion: the number of the latest version of the tenant.
LatestVersionOfTenant(c) ==
    LET numbers == {row.number : row \in
                       {r \in rows["source"] : r.tenant = input[c].tenant}}
    IN
    /\ pc[c] = "number"
    /\ draft' = [draft EXCEPT ![c].number = Max(numbers \union {0}) + 1]
    /\ Continue(c, "insert")
    /\ UNCHANGED <<input, sent, pending, lock, rows, created, faults>>

\* max(version_number) + 1.
LatestVersion(c) ==
    LET numbers == {row.number : row \in
                       VersionsOf(rows["source"], input[c].tenant, input[c].project)}
    IN
    /\ pc[c] = "number"
    /\ draft' = [draft EXCEPT ![c].number = Max(numbers \union {0}) + 1]
    /\ Continue(c, "insert")
    /\ UNCHANGED <<input, sent, pending, lock, rows, created, faults>>

\* The insertion waits for a pending one with the same unique key.  On a
\* violation the transaction is rolled back and the catch clause runs.
Insert(c) ==
    LET i == input[c]
        row == RowOf(c)
    IN
    /\ pc[c] = "insert"
    /\ \A d \in Client : input[d].op = i.op /\ pending[d] # NoRow
                            => ~Clash(i.op, row, pending[d])
    /\ IF \E other \in rows[i.op] : Clash(i.op, row, other)
       THEN /\ Continue(c, "recover")
            /\ lock' = Released(c)
            /\ UNCHANGED <<draft, pending>>
       ELSE /\ pending' = [pending EXCEPT ![c] = row]
            /\ Continue(c, IF i.op = "source" THEN "commit" ELSE "event")
            /\ UNCHANGED <<draft, lock>>
    /\ UNCHANGED <<input, sent, rows, created, faults>>

\* job-created, publish-job-created.
InsertEvent(c) ==
    /\ pc[c] = "event"
    /\ Continue(c, "commit")
    /\ UNCHANGED <<input, sent, draft, pending, lock, rows, created, faults>>

Commit(c, heard) ==
    LET i == input[c] IN
    /\ pc[c] = "commit"
    /\ rows' = [rows EXCEPT ![i.op] = @ \union {pending[c]}]
    /\ created' = IF i.op = "source" THEN created
                  ELSE [created EXCEPT ![Id(c)] = @ + 1]
    /\ IF heard
       THEN Reply(c, Created(i, Id(c))) /\ UNCHANGED faults
       ELSE /\ faults < MaxFaults
            /\ faults' = faults + 1
            /\ Reply(c, Broken(i))
    /\ UNCHANGED <<input, sent>>

\* The error of the driver, pg, has the SQLSTATE as its code.  drizzle-orm, at
\* the version the lock file pins, throws an error of its own, which has no code
\* and the driver's error as its cause.
DriverError(sqlstate) == [code |-> sqlstate]
DrizzleQueryError(cause) == [cause |-> cause]

\* The code is looked for in the error itself, not in its cause.
isUniqueViolation(error) == "code" \in DOMAIN error /\ error.code = "23505"

\* The catch clause, with the violation: were it recognised, the row that was
\* there first would be the answer.
Recover(c) ==
    /\ pc[c] = "recover"
    /\ IF /\ isUniqueViolation(DrizzleQueryError(DriverError("23505")))
          /\ Existing(input[c]) # {}
       THEN \E row \in Existing(input[c]) : Reply(c, Replayed(c, row))
       ELSE Reply(c, Refused(input[c], DatabaseUnavailable))
    /\ UNCHANGED <<input, sent, rows, created, faults>>

Visible(i) == {row \in rows[Table(i.op)] : row.id = i.ref /\ row.tenant = i.tenant}

\* The reads by identifier; the listings of events read the job first.
Read(c, table) ==
    LET i == input[c] IN
    /\ pc[c] = "read"
    /\ Table(i.op) = table
    /\ \/ Visible(i) = {} /\ Reply(c, Refused(i, NotFoundError))
       \/ /\ Visible(i) # {}
          /\ IF i.op \in Listings
             THEN Continue(c, "list") /\ UNCHANGED <<draft, pending, lock>>
             ELSE Reply(c, Found(i, i.ref, 0))
    /\ UNCHANGED <<input, sent, rows, created, faults>>

GetSourceVersion(c) == Read(c, "source")
GetContentJob(c) == Read(c, "content")
GetPublishJob(c) == Read(c, "publish")

ListEvents(c, op) ==
    /\ pc[c] = "list"
    /\ input[c].op = op
    /\ Reply(c, Found(input[c], input[c].ref, created[input[c].ref]))
    /\ UNCHANGED <<input, sent, rows, created, faults>>

GetContentJobEvents(c) == ListEvents(c, "events-content")
GetPublishJobEvents(c) == ListEvents(c, "events-publish")

\* A statement fails; the transaction is rolled back.
Fail(c) ==
    /\ InFlight(c)
    /\ faults < MaxFaults
    /\ faults' = faults + 1
    /\ Reply(c, Broken(input[c]))
    /\ UNCHANGED <<input, sent, rows, created>>

\* The API process dies; the database rolls its transactions back.
Crash ==
    /\ \E c \in Client : InFlight(c)
    /\ faults < MaxFaults
    /\ faults' = faults + 1
    /\ pc' = [c \in Client |-> IF InFlight(c) THEN "lost" ELSE pc[c]]
    /\ draft' = [c \in Client |-> NoDraft]
    /\ pending' = [c \in Client |-> NoRow]
    /\ lock' = [k \in LockKeys |-> NoClient]
    /\ UNCHANGED <<input, sent, rows, created, answers>>

\* The content worker ends a job (ContentWorkers), with what its result holds.
JobEnds(job, status, artifact) ==
    /\ job.status = "queued"
    /\ rows' = [rows EXCEPT !["content"] =
          (@ \ {job}) \union {[job EXCEPT !.status = status, !.artifact = artifact]}]
    /\ UNCHANGED <<input, sent, pc, draft, pending, lock, created, answers, faults>>

WorkerNext ==
    \E job \in rows["content"] :
        \/ \E artifact \in Artifacts : JobEnds(job, "completed", artifact)
        \/ JobEnds(job, "failed", "none")

Step(c) ==
    \/ ReadSourceJob(c)
    \/ TakeLock(c)
    \/ CheckSourceVersion(c)
    \/ CheckSourceJob(c)
    \/ FindVersion(c)
    \/ FindContentJob(c)
    \/ FindPublishJob(c)
    \/ LatestVersion(c)
    \/ Insert(c)
    \/ InsertEvent(c)
    \/ Commit(c, TRUE)
    \/ Recover(c)
    \/ GetSourceVersion(c)
    \/ GetContentJob(c)
    \/ GetPublishJob(c)
    \/ GetContentJobEvents(c)
    \/ GetPublishJobEvents(c)

Next ==
    \/ \E c \in Client : Send(c) \/ Step(c) \/ Commit(c, FALSE) \/ Fail(c)
    \/ Crash
    \/ WorkerNext

\* The process and the database go on with a request they have.
Spec == Init /\ [][Next]_vars /\ \A c \in Client : WF_vars(Step(c))

-----------------------------------------------------------------------------
(* Properties *)

\* However uploads interleave, fail or are sent twice, the versions of a
\* project are numbered 1, 2, 3 ... with no gap and no number twice
\* (DrizzleSourceVersionRepository.create under its advisory lock).
VersionsGapless == Gapless(rows["source"])

\* Two accepted creations get one row exactly when they are the same: for
\* uploads to a project, when the texts differ in white space only as far as
\* normalizeTranscript ignores it; for jobs, when the tenant's key is the same.
SameRequestSameRow ==
    \A a, b \in Accepted :
        a.input.op = b.input.op /\ a.input.tenant = b.input.tenant =>
            (a.id = b.id <=>
                IF a.input.op = "source"
                THEN /\ a.input.project = b.input.project
                     /\ NormalText[a.input.text] = NormalText[b.input.text]
                ELSE a.input.key = b.input.key)

\* What the fingerprint of a request is, now that its source is stored.
StoredFingerprint(i) ==
    IF i.op = "content" THEN {computeRequestFingerprint(i)}
    ELSE {computePublishJobRequestFingerprint(i, job) :
             job \in {j \in rows["content"] : j.id = i.ref}}

\* An answer that accepts or shows something names a committed row of the
\* caller's tenant, for a creation one of its project that was made for this
\* very request.
SuccessesTrue ==
    \A a \in answers : a.status \in {200, 201, 202} =>
        \E row \in rows[Table(a.input.op)] :
            /\ row.id = a.id
            /\ row.tenant = a.input.tenant
            /\ a.input.op \in Creations => row.project = a.input.project
            /\ a.input.op \in {"content", "publish"} =>
                  row.fingerprint \in StoredFingerprint(a.input)

\* A key is refused only if the tenant has used it for another request.
ConflictsJustified ==
    \A a \in answers :
        a.code \in {ConflictCode("content"), ConflictCode("publish")} =>
            \E row \in rows[a.input.op] :
                /\ row.tenant = a.input.tenant
                /\ row.key = a.input.key
                /\ row.fingerprint \notin StoredFingerprint(a.input)

\* Whoever is shown a job's events sees its creation.
EventsShown ==
    \A a \in answers : a.status = 200 /\ a.input.op \in Listings => a.shown = 1

\* What the API answers is so, however requests race, fail and are repeated:
\* what it accepts or shows, the keys it refuses and the events it lists.
AnswersTrue == SuccessesTrue /\ ConflictsJustified /\ EventsShown

\* The API says that the database is unavailable to a request that a fault has
\* hit, and besides only to the creation of a job that lost the race for its key
\* (isUniqueViolation does not recognise the violation): the row that won is
\* committed, so the same request, sent again, finds it.  An upload never is
\* told so: the advisory lock keeps it from the race.
UnavailableExplained ==
    \A a \in answers : a.status = 503 /\ ~a.fault =>
        a.input.op \in {"content", "publish"} /\ JobOfKey(a.input) # {}

\* A publish job stands for a completed content job of its tenant and project
\* and for the styled artifact that job has, although the artifact was read
\* before the transaction that inserts the job.
SourcesPinned ==
    \A pub \in rows["publish"] : Pinned(pub, rows["content"])

\* No request waits for ever for a lock, for another's insertion or for a row.
EveryRequestAnswered ==
    \A c \in Client : InFlight(c) ~> ~InFlight(c)

=============================================================================
