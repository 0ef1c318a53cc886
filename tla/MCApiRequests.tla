---------------------------- MODULE MCApiRequests ----------------------------
(***************************************************************************)
(* An instance of ApiRequests for TLC: two clients upload, create content  *)
(* jobs or create publish jobs, and read what the other one has made.      *)
(***************************************************************************)
EXTENDS ApiRequests, TLC

CONSTANTS c1, c2, t1, t2, p1, p2

Clients == {c1, c2}

Request(op, tenant, project, text, ref, key, opts, form) ==
    [op |-> op, tenant |-> tenant, project |-> project, text |-> text,
     ref |-> ref, key |-> key, opts |-> opts, form |-> form]

\* Uploads: one text in two spellings, another text, another project.
Upload(tenant, project, text) ==
    Request("source", tenant, project, text, <<>>, "none", "none", "ok")

Uploads ==
    {Upload(t1, p1, <<"a", " ", "b">>),
     Upload(t1, p1, <<" ", "a", "tab", " ", "b", "cr", "lf">>),
     Upload(t1, p1, <<"a", "cr", "b">>),
     Upload(t1, p2, <<"a", " ", "b">>)}

\* A version of each of two projects, and one of another tenant.
Version(n, tenant, project) ==
    [id |-> <<"version", n>>, tenant |-> tenant, project |-> project,
     number |-> 1, hash |-> <<"a">>]

ContentJob(tenant, project, n, key, form) ==
    Request("content", tenant, project, <<>>, <<"version", n>>, key, "none", form)

\* One key with two requests, another key, a version of another project or
\* tenant, another tenant's use of the key, one refused by the parser, and an
\* upload of white space.
ContentJobs ==
    {ContentJob(t1, p1, 1, "k1", "ok"), ContentJob(t1, p2, 2, "k1", "ok"),
     ContentJob(t1, p1, 1, "k2", "ok"), ContentJob(t1, p1, 2, "k1", "ok"),
     ContentJob(t2, p1, 3, "k1", "ok"), ContentJob(t1, p1, 1, "k1", "bad-json"),
     Upload(t1, p1, <<" ", "tab", "lf">>),
     Request("events-content", t1, p1, <<>>, <<c1, 1>>, "none", "none", "ok"),
     Request("get-content", t2, p1, <<>>, <<c1, 1>>, "none", "none", "ok")}

\* A job that is still to end, and one that has ended.
Stored(n, status, artifact) ==
    [id |-> <<"job", n>>, tenant |-> t1, project |-> p1, ref |-> <<"version", 1>>,
     key |-> "stored" \o ToString(n), fingerprint |-> <<t1, p1, <<"version", 1>>>>,
     status |-> status, artifact |-> artifact]

MCInitialRows ==
    [source |-> {Version(1, t1, p1), Version(2, t1, p2), Version(3, t2, p1)},
     content |-> {Stored(1, "completed", "styled"), Stored(2, "queued", "none")},
     publish |-> {}]

PublishJob(tenant, project, n, key, opts, form) ==
    Request("publish", tenant, project, <<>>, <<"job", n>>, key, opts, form)

PublishJobs ==
    {PublishJob(t1, p1, 1, "k1", "pdf", "ok"), PublishJob(t1, p1, 1, "k1", "epub", "ok"),
     PublishJob(t1, p1, 2, "k1", "pdf", "ok"), PublishJob(t1, p1, 1, "k2", "pdf", "ok"),
     PublishJob(t1, p2, 1, "k1", "pdf", "ok"), PublishJob(t2, p1, 1, "k1", "pdf", "ok"),
     Request("events-publish", t1, p1, <<>>, <<c1, 1>>, "none", "none", "ok"),
     Request("get-publish", t2, p1, <<>>, <<c1, 1>>, "none", "none", "ok"),
     PublishJob(t1, p1, 1, "k1", "pdf", "guide-without-metadata"),
     Request("get-source", t1, p1, <<>>, <<"version", 1>>, "none", "none", "ok")}

\* One client is after one of the first requests of a kind, the other one after
\* any request of that kind.
Together(firsts, all) == {(c1 :> x) @@ (c2 :> y) : x \in firsts, y \in all}

MCWorkloads ==
    Together({Upload(t1, p1, <<"a", " ", "b">>)}, Uploads)
    \cup Together({ContentJob(t1, p1, 1, "k1", "ok")}, ContentJobs)
    \cup Together({PublishJob(t1, p1, n, "k1", "pdf", "ok") : n \in 1 .. 2},
                  PublishJobs)

\* Two clients that make the same first use of a key.
RaceWorkloads ==
    Together({ContentJob(t1, p1, 1, "k1", "ok")}, {ContentJob(t1, p1, 1, "k1", "ok")})

\* The same key with the same request returns the same job record (README.md,
\* Idempotency Behavior), also to two submissions at the same time: no creation
\* that no fault has hit is told that the database is unavailable.
UnavailableMeansFault ==
    \A a \in answers : a.status = 503 => a.fault

=============================================================================
