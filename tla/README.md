# Verification of ucenik

TLA+ models, TLC runs and TLAPS proofs about **ucenik**, a tutoring backend
(FastAPI, Celery, MongoDB, Redis, Chroma, S3, an LLM proxy and an embedding
service) with a Next.js front end. Paths below are relative to
`src/src/ucenik/` unless they start with `frontend/` or `tests/`.

To check a run: `tlc -config <cfg> <module>`; to check the proofs of a module:
`tlapm <module>.tla`. `PROJECT.json` lists every run, mutant, mapped definition,
finding, hazard and theorem.

| module | what it is |
| --- | --- |
| `PlannerLecture` | one planner lecture: its document, versions, API handlers and Celery jobs |
| `VersionHistory` | abstract specification: what a lecture's version history promises |
| `PlannerLectureProofs` | proofs about `PlannerLecture`, its refinement of `VersionHistory` included, and `MCPlannerHistory` |
| `DocumentStore` | uploads, background ingests and deletes over Mongo, S3, Chroma and Redis |
| `TutorAnswers` | answers of the Tutor, their cache and the BM25 index, composed with `DocumentStore` |
| `TutorAnswersProofs` | proofs about `DocumentStore`, and about `TutorAnswers` on top of them |
| `AnswerStream` | streamed and plain calls to the LLM proxy, its relay, and the circuit breaker |
| `AnswerStreamProofs` | proofs about `AnswerStream` |
| `RateLimits` | the fixed windows of one address and the blocklist, over Redis |
| `TokenQuota` | the daily tokens of one user, and everything that is charged to them |
| `LimitsProofs` | proofs about `RateLimits` and `TokenQuota` |
| `AuthSessions` | logins, refreshes and revocations, on the server and in a browser |
| `AuthSessionsProofs` | proofs about `AuthSessions` |
| `PlannerFeed` | how the page of a plan follows its jobs over pub/sub and a WebSocket |
| `PlannerFeedProofs` | proofs about `PlannerFeed` |
| `IngestText` | what an ingest makes of a document: text, OCR, chunks, contexts, vectors |
| `IngestTextProofs` | proofs about `IngestText` |
| `CourseTree` | subjects, enrollments, plans, lectures and chat sessions as a tree of rows, and who may change it |
| `CourseTreeProofs` | proofs about `CourseTree` |
| `MCPlannerHistory` | `PlannerLecture` with a history variable, for a teacher who never overlaps requests |
| `MC*` | the small instances for TLC, and the claim of a docstring that a run refutes |

## 1. Inventory

### Components, their state and operations

**Planner lectures** (`services/lectures.py`, `workers/planner_tasks.py`,
`models/lectures.py`, `models/lecture_versions.py`, `api/lectures.py`).
State: one Mongo document per lecture (`status`, `current_version`,
`last_refine_transform`), append-only `lecture_versions` rows with a unique index
on `(lecture_id, version)`, the Celery queue. Operations: create, manual edit,
refine, retry, rollback and delete as HTTP handlers; generate and refine as jobs
with Celery retries. Every handler and job loads the whole document, awaits, and
saves the whole document back (Beanie's `save` is an upsert of all fields), so
two of them on one lecture lose updates. It is correct when the history is
numbered 1, 2, 3, ..., only grows, the current version exists, a retry does not
write twice and a generating lecture is never stuck.

**Planner plans** (`services/plans.py`), **subjects and enrollments** (`services/subjects.py`)
and **chat sessions** (`services/chat.py`), behind the checks of `core/permissions.py`. State: a tree of
rows without foreign keys: subjects, their enrollments, plans, lectures, versions, sessions, messages.
Operations: create, update (a save of the whole document) and delete (which cascades, one write after
another), enroll, unenroll, ask and title. Correct when a delete leaves nothing behind but what overtook
it, a delete that stops half-way can be finished, and nobody changes what is another's.

**Planner progress feed** (`core/pubsub.py`, `api/ws.py`, `services/planner_ws.py`,
`services/ws_tickets.py`, `frontend/src/lib/planner/use-planner-socket.ts`).
State: Redis channels without replay, single-use tickets, open sockets, the page's
queries. Correct when no fetch shows an older state after a newer event, a connected
page ends up showing what was saved, and one that reconnects catches up.

**Documents and ingest** (`services/documents.py`, `rag/ingest.py`,
`rag/vector_store.py`, `core/storage.py`). State: `Document` rows with a unique
index on `(subject_id, file_hash)`, one S3 object per content hash shared by all
rows with that content, chunks in one Chroma collection per subject, a content
version per subject in Redis. Operations: upload, ingest (a background task of
the API process), delete. Correct when content is not duplicated, a row has its
object, an object has a row, no row waits for an ingest that does not exist, and
what is searchable is what is ready.

**Tutor chat** (`services/chat.py`, `cache/chat_cache.py`, `rag/retriever.py`).
State: sessions and messages in Mongo, an answer cache in Redis keyed on the
subject's content version, a BM25 index per subject in the process, cached under
the same version. Correct when a cached answer is grounded in the documents as
they are and does not carry one student's history to another.

**LLM client and breaker** (`llm/proxy_client.py`, `core/resilience.py`) and the
**LLM proxy relay** (`llm_proxy/main.py`). State: a failure counter and an opening
time per process, the attempt a call is at, the upstream the relay is at, the
chunks on the wire. Correct when a reader sees one answer, a truncated answer is
not taken for a whole one, and the circuit opens on failures in a row only.

**Quota** (`core/quota.py`): one counter per user and day in Redis, checked before and
recorded after every call to a model by chat, titles, planner jobs and ingests. Correct
when what was used counts until midnight, the overshoot has a bound, and a retried job
is paid once.

**Rate limit and IP blocklist** (`core/rate_limit.py`, `services/ip_blocklist.py`):
counters with a time to live per address, a stricter one for logins, blocked addresses.
Correct when bursts are bounded, a `Retry-After` is honest and a throttle ends.

**Login, refresh and revocation** (`services/auth.py`, `services/users.py`,
`core/security.py`, `frontend/src/lib/api/client.ts`, `.../auth/token-storage.ts`,
`.../auth/auth-context.tsx`). State: accounts and auth sessions in Mongo, tokens in the
browser, one refresh in flight per tab. Correct when the row of an ended session stays ended, a
session that works is dropped for a reason only, and no request waits for ever.

**Extraction, chunks and embedding cache** (`rag/extractor.py`, `rag/chunker.py`,
`rag/contextualizer.py`, `rag/embedder.py`, `cache/ai_cache.py`). State: the pages to OCR,
the misses of a batch, vectors cached for all documents. Correct when each page is read in
its best form, and every stored chunk is found by its own vector.

**Prompts and formatting**, the **embedding service**, **configuration and error mapping**, the
**browser views**, **deployment and backup**: no protocol of their own, or
stateless; see section 13.

### How they interact

* API handlers and Celery workers share Mongo documents without transactions or
  locks; the only arbiters are the unique indexes.
* A lecture job calls retrieval, the quota, the LLM proxy and the embedding
  service; the model sees their outcomes (success, transient error, other error).
* An upload starts its ingest in the same process; an ingest and a delete bump
  the subject's content version, by which the answer cache and the BM25 index
  decide what is current. `TutorAnswers` EXTENDS `DocumentStore` for this.
* Every call to a model in one process goes through one circuit breaker, and is charged
  to its user's quota.
* A job's saves and its events are separate: Mongo first, then Redis pub/sub. The page
  fetches what it hears of, and cancels the fetch before.
* Tabs of one browser share the stored tokens and nothing else; each has its own refresh.
* All ingests share one embedding cache, across documents, subjects and users.

### What is hard here

Lost updates of whole-document saves, and saves that bring back a deleted
document; steps of several actors between two awaits; jobs acknowledged before
they run, background tasks that die with their process; retries of something
that was half done; a cache stamped with a version read at another moment than
its content; an error in the middle of a stream; a check and its charge with a call in
between; an answer that arrives after a logout; an event that nobody was subscribed for. `PROJECT.json` lists each one
at its line under `hazards`, with the properties that would catch it.

## 2. The planner: `PlannerLecture`

One lecture, `Calls` HTTP requests each served once, `Workers` Celery workers of
one process slot each. A step runs from one await to the next. The variables:

| variable | code |
| --- | --- |
| `present`, `lec` | the `Lecture` document: is it in Mongo, and its fields |
| `rows` | its `LectureVersion` rows |
| `queue` | the jobs in the broker, retries in their countdown included |
| `pc`, `snap` | where each call and worker is, and the copy it has loaded |
| `job`, `num` | the job a worker runs, the version number it has computed |
| `crashes`, `purged` | deaths so far (bounded by `MaxCrashes`); a delete removed the rows |

Actions, in the code's order: `CreateInsert`, `CreateDispatch`; `Load` (the route's
first dependency); `EditInsert`, `EditSave`; `RefineDispatch`; `RetryDispatch`;
`RollbackFind`, `RollbackInsert`, `RollbackSave`; `DeleteVersions`, `DeleteDoc`;
for the jobs `Start`, `MarkGenerating`, `FindCurrent`, `Complete`,
`NextVersionNumber`, `InsertVersion`, `SaveReady`, `PublishReady`,
`TransientError` (queue the next attempt, or give up), `OtherError`, `MarkFailed`;
and `CallStops`, `WorkerStops` for a death or an exception nobody catches. The
order of insert, save and publish, and which awaits are inside the `try` block,
are the code's.

What runs while a worker is at `llm` (quota, retrieval, completion, usage) is one
step with the outcomes it can have. Content and error texts are left out.

Properties: `VersionsNumbered`, `CurrentVersionExists`, `OneVersionPerRequest`,
`GeneratingHasJob`, the refinement `ImplementsHistory` of `VersionHistory` (append the next
number, select an existing one, delete), `LandsReadyOrFailed` under fairness, and for a
teacher who never overlaps requests `NewestIsCurrent`.

A delete ends what these promise: a handler or job that holds a copy of a deleted
lecture still inserts its row and saves its copy, which brings the document back
without its versions (`Save` sets `present` in the model as the upsert does in
Mongo). The properties say "until a delete" (`~purged`) for this reason.

The model shows three more behaviours that no property forbids. A generate job whose final publish fails marks its
lecture failed although it has a version: `retry_lecture` then finds no refinement to replay and
refuses, in the branch its comment (`services/lectures.py:101-103`) expects not to be reached. A
worker that dies after Celery acknowledged its job leaves the lecture generating for ever, as far as the
jobs go: a retry is for failed lectures, and a refinement for those that are not generating; only an edit, a rollback or a
delete gets it out. With overlapping requests a save of an older copy may leave `current_version` behind the
newest row.

## 3. The documents: `DocumentStore`

`Requests`, each an upload with its ingest, a delete of a document or a delete of a
subject. State: `subjects`, `rows`, `objects`, `chunks`, `version` are what Mongo, S3,
Chroma and Redis hold; `pc`, `doc`, `hashes`, `doomed` are what each request holds; `stops`
bounds deaths. An upload's own name is the id of its row. Actions:
`Upload`, `FindExisting`, `FileExists`, `UploadFile`, `InsertRow`, then the ingest
`IngestLoad`, `MarkProcessing`, `Download`, `Prepare`, `ClearChunks`, `UpsertChunks`,
`IngestBump`, `IngestError`, `SaveOutcome`; `Delete`, `DeleteChunks`, `DeleteBump`, `DeleteRow`,
`CheckRemaining`, `DeleteFile`, `CheckedAll`; `DeleteSubject`, `ListDocuments`,
`DeleteCollection`, `DeleteRows`, the same checks, `RemoveSubject`; `RequestStops`.
Saves of an ingest upsert: a deleted row comes back, unless the unique index
refuses it. The text, its chunks and embeddings are one unit per document.

Properties: `UniqueContent`, `ProcessingHasIngest`, `NoStrandedObject`.

## 4. The Tutor's answers: `TutorAnswers`

`Asks` of one question in `Sessions`, composed with every step of the documents. State:
`at`, `ask` (where an ask is and what it has read so far), `said` (messages), `cache`
(Redis), `index` (the process's BM25 index per subject), and two history variables,
`overtaken` and `raced`. An answer is the set of documents its corpus came from, and
whether earlier messages were in its prompt. Actions follow `prepare_answer_stream`,
`_stream_answer_events`, `retrieve` and `set_cached_answer` await by await; `AskStops` is any
error, a spent quota or a reader who leaves.

`DocumentsMove` is any step of `DocumentStore`, recording whom it overtakes. The
initial version is 0 (key absent) or 2 (documents came and went before).

Properties: `StaleOnlyWhenOvertaken`, `IndexIsCurrent`, `CachedAlone`. The first two
speak of a subject at rest (`Settled`): no request running, every searchable
document ready, and past the first bump. That bump invalidates nothing: `INCR` makes it 1,
which is what an absent key reads as (`cache/chat_cache.py`). An answer is stamped with
the version at the time it is stored, so one that an ingest overtook is cached as current:
this is the case `StaleOnlyWhenOvertaken` names as its only exception.

## 5. Streams and the breaker: `AnswerStream`

`Streams` are calls of `stream_complete`, `Plains` calls of `complete`, all of one process with
one breaker. State: `pc`, `attempt` per call; `relay`, `up`, `sent`, `wire`, `got` per stream
(what `_relay_stream` does, at which upstream, how far, the chunks on the way, the tokens
yielded); `failures`, `opened`, `cooled` (the breaker); `cut`, `log` (history). An
upstream may refuse, accept, stream, break off between two lines or within one, and end its
response anywhere, with `[DONE]` (`RelayDone`) or without (`UpstreamEnds`); a connection may drop at any moment with what is on the wire; a reader may leave; the
cooldown may elapse. A retry opens a new request, before the first token only.

A token is identified by attempt, upstream and position, so that a repeated or mixed
token is visible. The failure count is capped at `Threshold`: the code compares it
with `>=` only.

Properties: `OneAnswer`, `CompleteUnlessCut`, `OpenedByFailures`. The client takes any end of a
response for the end of the answer and skips an error that comes as a chunk, so an answer that
an upstream `cut` short counts as complete: `CutAnswer.cfg` shows it. `CompleteUnlessCut` says
that this is the only way: no drop, retry, fallback or broken line shortens an answer unnoticed.

Two more things the model does as the code does and that its docs do not say: after the
cooldown every concurrent call is let through, not one trial; and the late success
of a call that began before the circuit opened closes it.

## 6. Limits: `RateLimits` and `TokenQuota`

`RateLimits` is one address. `block`, `count`, `life` (the times to live) are its keys in Redis; `stage`, `key`, `login`
say where each of the `Arrivals`, its requests, is. Actions: `BlockIp`, `UnblockIp`, `Arrive` (the blocklist lookup), and
`Incr`, `SetExpiry`, `Refuse` for the three commands of `_check_and_increment`, first for the global
window and then, for a login, for the login window; `Waited`, `Abandon` (the request dies), and `TimePasses`, by which
keys end and a client waits. `passed` (the admissions of the last `n` ticks, for each `n` up to a window), `over` and `orphan` are history. A
count above the maximum is kept at one above it, since nothing tells such counts apart. `BurstBounded`, `RetryAfterHonest` and `ThrottleEnds` are
its properties; `ThrottleEnds` has one exception, `orphan`: a request that dies between INCR and
EXPIRE leaves a counter without an end, which throttles its address for good.

`TokenQuota` is one user. `used` and `ttl` are today's key, `at` the step of each caller, `attempt` and
`left` the retries of a job and the chunks an ingest has left; `charged` and `paid` are history.
Actions: `Ask`, `StartJob`, `StartIngest`, then `CheckQuota`, `Answered` or `CallFails`, `RetryJob`; the two commands
of `record_usage`, `Record` and `Expire`; `Store`, `Die` and `Tick`. Keys are per day, so at midnight
another key is read, a call that began before it is charged to the new day, and an EXPIRE may be for
a key of the day before (`today` holds the callers for whom it is not). The bound of
`OvershootBounded`, one call per caller, is what the code gives: it reserves nothing. A stream that
its reader leaves is not charged at all, and an ingest dearer than a day's limit fails in the middle
each time it is tried.

## 7. Sessions: `AuthSessions`

Server state: `accounts`, the `session` rows and their `owner`; `revoking` and `deleting` are handlers between
two awaits. Browser state: `access` and `refresh` (localStorage, shared by tabs), per tab its `login`,
`logout` and `slot` (`refreshPromise`), and each `request`. A session stands for its refresh token and for
any access token minted from it; tokens may be refused at any time, which covers expiry. Actions follow
`delete_user`, `update_user`, `login`, `logout`, `refresh_access_token` and `revoke_refresh_token` await by await, and
`authorizedRequest`, `refreshAccessToken`, `AuthProvider` and its `pagehide` handler between fetches. Any answer may be
an error or be lost, and that of a refresh may be lost after its status line (`RefreshUnreadable`). A
logout posts through the same client as any request, so a 401 makes it wait for a refresh too
(`LogoutAwaits`); it clears the tokens in the end whatever comes of it (`LogoutGoesOn`), and
without a refresh token it asks nobody (`LogoutLocally`).

Saves upsert: `UpdateUser` may bring a deleted account back, and `RevokeSave` a deleted session, revoked.
`EndedStaysEnded` holds in spite of both. It is about the row: an access token minted before, or by a refresh that had
found the row still valid, opens requests until it expires (`Succeeds` asks for no row, as `get_current_user` does not). A login that overlaps `delete_user` may insert its session after the others were deleted; its
refreshes then fail because the user is gone. `WaitsEnd` is about the single flight of a tab.
`DropsJustified` lists all the ways a session that works is dropped, which are more than the
client's comments admit: any answer that is not 2xx counts as a rejection, a late rejection clears
tokens of a newer login (`Stale`), and a page that loads clears them for any error but one: the comment
at `frontend/src/lib/auth/auth-context.tsx:44-53` means to spare a session from a connection lost for a moment, but recognises only a
refresh without an answer: neither a `GET /auth/me` without one nor a refresh whose answer cannot be read (`BootMisled`; 
`BootBlip.cfg` shows it). A reload fires `pagehide`, which revokes the token the page that comes next will use; and a
refresh that is answered after a logout stores an access token again.

## 8. The feed: `PlannerFeed`

One page of one plan. What is saved is a number that every save of a lecture of the plan increases;
the page shows the number it last fetched. `todo` and `pending` are the jobs (a save, then its publish), `ticket`, `sock`
and `inbox` the connection, `seen` and `fetch` the query of the page, `heard` a history variable: since
the last save the page has been told to fetch. Actions: `Post`, `PostAnswered`; `JobStep`, `PublishFails`; `TicketIssued`,
`TicketFails`, `TicketExpires`, `Consume`, `Accept`, `Subscribe`, `Deliver`, `Drop`, `Reconnect`; `FetchRead`, `FetchArrives`,
`FetchFails`. The query cache is external: `invalidateQueries` restarts a fetch of a query that has data, and lets
the first fetch of all go on.

`HeardIsShown`: a fetch that read an older state never replaces what an event announced. `ShownWhileLive` and
`CatchesUp` are liveness. What no property promises, because the code does not: the connection
is accepted before the server subscribes, and the page fetches before it reconnects, so events in either gap are
lost until the next one; `waitUntilOpen` gives up after five seconds and its answer is not looked
at; a ticket that cannot be had closes the feed for good; the right to see the plan is checked once.

## 9. The text of an ingest: `IngestText`

Documents of several units (pages, paragraphs, slides, sheets), each with the passage it says, its text
`layer` and what OCR makes of it (`scan`), on a host with or without `tesseract`. A page is rendered before the program is called, so that on a host without
it a page that cannot be rendered ends the ingest and one without an image reads as empty; only another shows
that the program is missing. `job` is the ingest of each
document, `cache` the embedding cache by raw chunk text, `index` what Chroma holds. A vector is the text it
was computed from. Actions: `Read`, which notes the pages to scan in `todo`, `OcrPage`, which takes the first of them,
`Extracted`, which joins the units that say something in their order (`Joined`); pass 1 with `Look` and `Contextualise`; pass 2 with `Embed` and `Keep`;
`DeleteOld`, `Upsert`; `CallFails`, `Again` (deleted and uploaded again), `Expire`.

`TextIsBest`, `RefusedOnlyIfUnreadable` and `VectorsAligned` are its properties. The last says as much as is true: a chunk
found in the cache is stored without a context beside a vector that was computed with one, perhaps of
another document, so that the cache is not the "pure efficiency" its docstring calls it.

## 10. The tree of rows: `CourseTree`

`rows` are the documents of four collections (subjects, plans, lectures, sessions), `filled` the lectures with versions
and the sessions with messages, `enrolled` the enrollments; `born` keeps ids from being given out twice. A row's id
fixes its parent and its owner, which no code ever changes. A request is one call of `Calls` (a route, a caller and the
ids of the path), and `at` says which await it is before; `listed` and `held` are what its handler holds. The
dependencies of a route come first, in FastAPI's order: `FindLecture`, `FindPlan`, `FindOwnSubject`, or `FindSubject`,
`FindEnrollment`, `FindSession`. Then the handlers, await by await, in the order of the code; `TakeJob`, `MarkGenerating`,
`InsertVersion`, `JobError`, `Land` are a job, as far as rows go. `GiveUp` ends anything anywhere: a refusal, an error
of the model, a reader who leaves, a process that dies. Nothing is ever undone.

`overtaken` is history: what was written below a row that was gone, or that a delete had begun to remove, and is still
there. `OrphansWereOvertaken` says of what the delete of its parent removes (a plan's lectures, a lecture's versions, a session's
messages, a subject's enrollments) that there are no other orphans; in particular a delete that dies leaves none,
so that deleting again finishes it. It does not say that a delete removes all there is below: `delete_subject` removes neither
plans nor chat sessions, which stay behind out of reach of every route; `SubjectLeaves.cfg` shows it. The four kinds of orphans do occur: a lecture created while `delete_plan` runs, a
version of a job whose lecture was deleted, a message of an answer that streams on, an enrollment in a subject
that is going. `OwnersOnly` is about the chain of lookups by which a path is checked, `TitleKept` about the whole-document
saves of a session, which do lose a generated title to an ask that had read the session before.

The module assumes of its constants that ids of different collections differ (Mongo gives each its own), that nothing
starts below a row that is not there, and that each call has the ids its route needs: `Collection` says where the last
one is looked up, since an id that names nothing there ends in a 404 at once.

One thing the code does and no property forbids: a save of a subject, plan or session that was deleted meanwhile brings it back.

## 11. The runs

| run | instance | shows |
| --- | --- | --- |
| `planner` | 4 calls, 2 workers, 1 retry, 1 death | numbering, current version, one version per request, generating has a job, refinement |
| `planner_lands` | 3 calls, 2 workers, 1 retry, fair | pending or generating ends in ready, failed or deleted; newest is current when nothing overlapped |
| `documents` | 4 requests, 2 subjects, 1 file, 1 death | unique content, processing has an ingest, no leaked object |
| `document_object_race` | 3 requests | violation: `DocumentHasObject` |
| `tutor` | 2 asks, 2 sessions, 2 requests, 1 subject | stale only when overtaken, index current, cached alone |
| `stream` | 2 streams, 2 plain calls, 2 attempts, 2 upstreams, 2 tokens, threshold 2 | one answer, complete unless cut, circuit opened by failures |
| `rate_limits` | 2 requests, window of 2 ticks, maxima 2 and 1, fair | bursts bounded, Retry-After honest, throttles end |
| `token_quota` | 2 requests, 1 job with 1 retry, 1 ingest of 2 chunks, days of 3 ticks, limit 3 | overshoot bounded, usage kept, a job paid once |
| `auth` | 1 user, 2 logins, 1 tab, 2 requests | rows of ended sessions stay ended, waits end, drops justified |
| `feed` | 2 jobs, 1 fault, fair | heard is shown, shown while live, catches up |
| `ingest_text` | a document of 2 units and one that repeats a unit | text is best, refused only if unreadable, vectors aligned |
| `course_tree` | 3 requests, 1 worker, 3 users, 2 subjects and a new one, 2 plans, 2 lectures, 2 sessions | orphans of what deletes remove were overtaken, owners only, generated titles kept |

**Why the bounds are enough.** The planner's races need a create whose job is still
running, another job and two handlers: 4 calls and 2 workers, and one retry is
both "a retry" and "the last one". The documents' races are between two uploads of
one content, a delete and its effect on a resurrecting ingest: 4 requests and one
file; two subjects because an object is shared across subjects. The Tutor needs two
asks (same or different session) and two requests (an upload, then a delete or a second
upload). The breaker needs calls that overlap the opening, and a threshold above 1; the
relay needs a second upstream and a second token. A rate limit needs a request that counts between
another's INCR and EXPIRE, in a window of more than one tick; requests are used again, so two make as many as one likes. The quota
needs calls of several kinds in flight at the limit and at midnight, a key that outlives a day
(4 ticks for 3), and a cost above 1. Sessions need a second login beside the first one's late answers, and two
requests that share a refresh; two tabs share only the storage, which one tab's pagehide and next page exercise
as well. The feed needs one job's event while another's save is being fetched; the extra events of
retried jobs are more of the same kind. An ingest needs a hit between misses, which two documents with a
common passage and a second upload give, and both orders of a readable and an unreadable page. The tree needs a delete, a
writer that overtakes it and a third request to see the outcome or delete again; a second subject and its owner for paths
whose ids do not belong together, and one id of each kind to create.
What the bounds leave out the theorems below cover for the properties they prove.

**Symmetry** is used in safety runs only, over requests, workers, calls, sessions and
files, none of which is named in an action or property.

**Deadlock checking is off** where every request is served once and the model ends (planner, documents,
tutor, stream, feed, ingest, course tree); it is on for the limits and the sessions, which go on for ever.

**Fairness.** `planner_lands`: weak fairness of each accepted handler (asyncio runs a task whose await has
completed; Mongo, Redis and the broker answer or raise) and of each worker (a worker keeps consuming its
queue, and its calls time out). Which requests arrive is not fair, and neither are deaths; in this run nothing dies.
`rate_limits`: time passes, and Redis answers. `feed`: jobs go on, an event sent over a connection that lasts
arrives, and the timer and the handshake go on; and strong fairness of a fetch that arrives, since each event cancels and restarts
it: a job publishes three events at most, and a page that cannot connect restarts its fetch every 15 s, far
more than a fetch takes.

**Types.** Every module states its type invariant, and all of them are proved. Those of the planner, the documents, the
Tutor, the streams, the quota and the sessions are part of their runs as well; `FeedTypeOK`, `TreeTypeOK`, `RateTypeOK` and
`IngestTypeOK` are not, to leave the runs to what types do not say.

**Mutants.** Each property of a passing run has a mutant: a definition of the model
changed the way a plausible bug would change the code (`\* Mutant:` in the modules, just
above the definition it replaces), under which TLC finds the property violated.

### Findings

* `document_object_race`: a docstring says that the raw object is there whatever the ingest
  does; a delete may remove it from under a row that appears between its check and its
  `delete_file`.

Three more disagreements need no properties of their own in the runs, whose properties name them as exceptions. Each has a
configuration, to be run by hand, under which TLC finds a claim of the code's comments (stated in the MC module) violated:

* `tlc -config CutAnswer.cfg MCAnswerStream` (`CutAnswersFail`): stream_complete's docstring says that "the moment a single token
  has been yielded to the caller, any further failure propagates immediately as LLMProxyError" (`llm/proxy_client.py:189-191`). An upstream
  that stops in the middle of an answer is no failure to the client. Where its response ends without `[DONE]`, `_relay_stream`
  returns (`llm_proxy/main.py:163-165`), the loop over the lines ends with the response and `record_success` follows
  (`llm/proxy_client.py:243-263`), as in the trace; where the connection is lost, the error chunk and `[DONE]` of the relay come to the same. This is
  the `cut` of `CompleteUnlessCut`.
* `tlc -config BootBlip.cfg MCAuthSessions` (`OnlyInvalidClears`): "only "invalid" should ever clear stored tokens"
  (`lib/api/client.ts:21`). `res.json()` (`client.ts:49`) stands outside the `try`: where the answer to a refresh breaks off after its status
  line, the waiting request fails with an error that is no `ApiError` of status 0, and a page that was loading clears a session
  that works (`lib/auth/auth-context.tsx:54-56`). This is the `BootMisled` of `DropsJustified`.
* `tlc -config SubjectLeaves.cfg MCCourseTree` (`SubjectIdsResolve`): a comment in `delete_subject` gives as the reason of its cascade that
  rows would otherwise be "orphaned forever (the subject_id they point at no longer resolves to anything)"
  (`services/subjects.py:47-49`). It removes neither plans nor chat sessions, which hold that id too: one undisturbed delete leaves
  both. These are the kinds that `Orphans` leaves out.

## 12. The proofs

All for any values of the constants that satisfy the modules' named assumptions (disjoint
sets of actors and of ids, bounds that are natural numbers, "no value" constants outside their sets), and
none needs fairness.

**`PlannerLectureProofs`** (about `Spec`)
* `TypeCorrect`: `TypeOK`, inductive as it stands, one step per action.
* `HistorySafe`: `VersionsNumbered` and `CurrentVersionExists` (on its own in `ContentIsThere`). Neither is
  inductive, because the next step writes what a copy holds. `HistoryInv` says of the document, of *every private
  copy* and of every number about to be inserted that all versions up to it (one less for
  the number) have their rows (`Backed`). Rows are only added until a delete, so copies stay
  backed however stale they are; the unique index keeps the numbers distinct.
* `HistoryGrows`: the rows only grow until a delete (`HistoryAppendOnly`, which `ImplementsHistory` implies in the runs).
* `Refinement`: `ImplementsHistory`. `StepShape` reduces a step to three kinds: a row added and the
  document unchanged, the document saved and the rows unchanged, a delete; each maps to a step of
  `VersionHistory` or to a stutter, using `HistoryInv` for "the next number" and "an existing one".
* `GeneratingIsOwned`: `GeneratingHasJob`, strengthened (`GeneratingInv`) by what is about to be
  saved as ready saying so.
* `RequestsWriteOnce`: `OneVersionPerRequest`, from `OnceInv`: a request is in one place at a time (its handler, the
  broker, one worker) and has written nothing before it is past its insert. A retry is queued from before the insert only.
* `NothingIsRolledBack` (about `HistorySpec`): `NewestIsCurrent`. `NewestInv` says of requests that do not
  overlap that the copy held by the one that is active is as new as the newest row, and so is the document unless that one is
  about to save it. Without it a save could move the pointer back; with overlapping requests it does.

**`TutorAnswersProofs`**, the documents (about `DocSpec`)
* `TypeCorrect`: `DocTypeOK`.
* `OneRowPerContent` and `ProcessingIsOwned`: `UniqueContent` and `ProcessingHasIngest` together with
  `RowsOwned`: a row belongs to the upload whose id it has, and while the ingest runs the row has the
  subject and content the ingest knows. This is what makes a resurrecting save safe.
* `NoObjectLeaks`: `NoStrandedObject`, which speaks of states at rest, from `ObjectsOwned`, which
  names for every intermediate state the request that `Holds` an unreferenced object: an upload
  before its insert, a delete before its check or removal. It needs `DeletesAgree`: a delete's
  handle has the content of the row it is about to remove, even if an ingest re-inserts it.

**`TutorAnswersProofs`**, the answers (about `TutorSpec`)
* `TutorKeepsDocs`: every step is a step of the documents or leaves them alone, so what is proved of them holds here too.
* `TutorTypeCorrect`: `TutorTypeOK`.
* `OnlyFirstAnswersAreCached`: `CachedAlone`, from `AloneInv`: two busy asks of one session are both in `raced`, and
  one that is not has seen the messages as they are.
* `IndexIsNeverStale` and `CachedAnswersAreFresh`: `IndexIsCurrent` and `StaleOnlyWhenOvertaken`. Both speak of a subject
  at rest and say nothing of the states before. `FreshInv` does, with one notion for what an ask holds, what the process has
  indexed and what Redis has cached: `Stands(s, v, X)`, the corpus `X` is what version `v` of the subject stands for. If `v` is the
  current version, `X` is what Chroma holds now, or there is an *excuse* for the difference: a
  death, a subject that is gone, chunks whose ingest has not bumped the version, a delete between its change of the chunks and
  its bump. `ExcusesKept` is the heart of it: an excuse lasts until the version moves, because every request that
  changes chunks still has the bump before it; and versions never come back (`VersionCounts`). At rest there is
  no excuse (`NoExcuseAtRest`). For the cache, an ask that was not overtaken has read the version it stamps.

**`AnswerStreamProofs`** (about `Spec`)
* `TypeCorrect`: `TypeOK`, in four parts (calls, streams, relay, breaker), because the breaker's part
  depends on `OnSuccess` and `OnFailure` only.
* `AlwaysDelivers` and `OneAnswerOnly`: `OneAnswer`, from `Delivers`: what was read and what is on the wire are in this
  order the tokens of the *current* attempt and upstream, tokens come before marks, and both are
  empty whenever the call may still retry or the relay may still fall back.
* `WholeOrCut`: `CompleteUnlessCut`, from `Delivers` and `Whole`: the first mark on the wire stands behind all that the relay has
  sent (`MarkAtEnd`), an answered call has read all of it, and a relay that is done has sent the whole answer, unless the history
  variable `cut` has the call: its upstreams stopped before the last token in the current attempt.
* `CircuitOpensOnFailures`: `OpenedByFailures`, from `BreakerCounts`: the count is of the log's last
  entries, all failures, and it is full while the breaker is open.

**`LimitsProofs`**, the windows (about `RateSpec`)
* `RateTypeCorrect`: `RateTypeOK`, for any number of requests, any maxima and any length of a window.
* `BurstsAreBounded`: `BurstBounded`. It speaks of the stretch of one window that ends now, and how much that admitted depends on how
  much of it lies in the window that runs. `WindowInv` says it for every stretch that ends now: one since the window's EXPIRE has admitted
  no more than the window has counted, a longer one at most a maximum more. When a window ends, what all shorter stretches
  hold is at most one maximum, which is what the next window may add one to. A counter without an expiry, whose request is yet to set it or has
  died, only grows and admits less.
* `RetryAfterIsHonest`: `RetryAfterHonest`, from `ClockInv`: `ToldInv`, what a client has still to wait is what is left of the window that
  refused it, and, so that nobody sets an expiry anew, `ExpiryInv`: a request on its way to EXPIRE is the only one for its key, and the
  key has no expiry yet. The second rests on the fact that a counter that is above zero is not the first again until its key ends.

**`LimitsProofs`**, the quota (about `Spec`)
* `TypeCorrect`: `QuotaTypeOK`, with `JobsInv`: a job is charged on its way to store its answer and at no other place,
  which also gives `OnePayment` (`JobPaidOnce`).
* `UsageCounts`: `UsageKept`, from `KeyLives`: a key that will expire has at least the rest of the day to live.
* `OvershootIsBounded`: `OvershootBounded` is inductive with the types: a call let through raises the number of
  calls in flight only below the limit, a charge lowers it by one for at most `MaxCost`.

**`AuthSessionsProofs`** (about `Spec`)
* `TypeCorrect`: `AuthTypeOK`.
* `EndedForGood` (`EndedStaysEnded`) and `NobodyWaitsInVain` (`WaitsEnd`), from `AuthInv`: tokens in a browser are those of
  sessions that were opened, a refusal is about a session that is over, a request or a logout that waits has its tab's slot
  (`WaitersServed`, `LogoutsServed`). `EndedForGood` is about rows, not about access tokens. `SessionsAge`
  is the fact behind it: no save, delete or login takes a session back to what it was before.
* `DropsAreJustified`: `DropsJustified`, an action property, by going through every step that clears the storage, the
  logouts and the unreadable answers at boot among them.

**`PlannerFeedProofs`** (about `Spec`)
* `NothingStaleIsShown`: `HeardIsShown`, with what makes it inductive: a fetch that has its answer has one no older than what is shown, and
  an event that was heard has asked for a fetch (`HeardIsComing`).
* `TypeCorrect`: `FeedTypeOK`. That saves stay within `MaxSaved` is a counting argument: `Counted` adds up what each
  job has behind it, and no step saves without moving a job on.

**`CourseTreeProofs`** (about `Spec`)
* `TypeCorrect`: `TreeTypeOK`.
* `OwnersAlone` (`OwnersOnly`) and `TitlesKept` (`TitleKept`), from `PlaceInv`: for every await of every handler, what the
  lookups before it have established about the ids of the path. Rows may go meanwhile; whose they were does not change.
* `NoOtherOrphans`: `OrphansWereOvertaken`, from `LeaveInv`: at each step of a delete, what is left below the rows it
  still has to remove, but for what has overtaken it. This is why a delete that dies can be done again. The plans and sessions of a
  subject are no step of its delete, and the theorem is silent about them.

**`IngestTextProofs`** (about `Spec`), for any documents, of any length
* `IngestTypeCorrect`: `IngestTypeOK`; `IngestInvariant`: `IngestInv`, from which the other three follow.
* `TheTextIsBest` (`TextIsBest`) and `RefusalIsRight` (`RefusedOnlyIfUnreadable`), from `TextInv`: while OCR runs, the pages that are no longer in
  `todo` are in their best form and the others in their text layer, and a host found to have no program has recovered none.
* `VectorsStayAligned`: `VectorsAligned`, from `BatchInv`: at every place of the lists of the two passes there is a text of that chunk, and a
  vector aligned with it or a miss that is *awaited*, still to be embedded or kept; so no place is empty when the chunks are stored.
  `CacheInv` says that a vector is cached under its own chunk, whichever ingest kept it there.
* `OrderExists`, the lemma behind `Joined`: any places of a text can be put in order. It is an induction on numbers, done by the least
  counterexample (`WFMin`), since the induction theorems take an operator as a parameter.

**Only model-checked**, and why: liveness (`LandsReadyOrFailed`, `ThrottleEnds`,
`ShownWhileLive`, `CatchesUp`), which is out of the prover's reach, as is anything about ENABLED. Every safety and action property
that a passing run checks is proved. No module of the project declares a RECURSIVE operator.

## 13. What is not modelled, and why

* In `CourseTree`: the documents of a subject (in `DocumentStore`), changes of accounts and roles (in
  `AuthSessions`), and lists, which only read. `get_current_user` and the role it returns are part of the call.
* The ranking of chunks, how the chunker cuts a text, prompts, formatting, translation: stateless text
  work, whose outcomes are inputs of the models.
* The embedding service: a stateless computation behind HTTP.
* Creating a user: one insert behind a unique index. Listing the blocklist and reading the quota only read.
* In `PlannerFeed`, who may open the socket (one outcome of the handshake) and the connections of other pages;
  in `AuthSessions`, signatures and password hashes.
* Rendering in the browser, deployment files, backups, logging, error wording.

Abstractions a reader should know: Mongo, Redis, S3 and Chroma operations are atomic, and their
failure is a death of the caller or an outcome of its step; one process serves each Celery worker;
Celery redelivers nothing beyond its own retries (early acknowledgement); the answer cache may
lose an entry at any time (`Lookup` may miss), which stands for its expiry.

## 14. Plan

Done in this order: planner (most of the program's own protocol), documents, Tutor answers on top
of them, streams and breaker; then limits, sessions, the feed, the text of an ingest and the tree of rows; then
proofs of every safety property the runs check. Next, in order of importance:

1. What a deleted subject may leave behind of its documents, as `OrphansWereOvertaken` says of its enrollments.
2. How ranks of vectors and BM25 are fused (`rag/retriever.py`), against a reference definition.
3. How many calls the breaker lets through after a cooldown.
