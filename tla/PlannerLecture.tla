--------------------------- MODULE PlannerLecture ---------------------------
(***************************************************************************)
(* One planner lecture: its Mongo document, its version rows, the API      *)
(* handlers of services/lectures.py and the Celery jobs of                 *)
(* workers/planner_tasks.py that work on it at the same time.              *)
(*                                                                         *)
(* Every handler and every job loads the whole document, awaits, and then  *)
(* saves the whole document back (Beanie's save is an upsert of all the    *)
(* fields), so each keeps a private copy `snap` of the document.  A step   *)
(* of the model runs from one await to the next.                           *)
(*                                                                         *)
(* A call is one HTTP request and is used once; its id also names the job  *)
(* it dispatches, through all of that job's Celery retries.                *)
(***************************************************************************)
EXTENDS Integers

CONSTANTS
  Calls,       \* HTTP requests on the lecture, each served once
  Workers,     \* solo Celery worker processes
  Transforms,  \* refine transforms (with their target language)
  NoJob,       \* an idle worker's job
  MaxRetries,  \* _MAX_RETRIES: Celery retries of one job
  MaxCrashes   \* bound: handlers and workers that may die

ASSUME ActorsAssumption     == Calls \cap Workers = {}
ASSUME TransformsAssumption == "none" \notin Transforms
ASSUME BoundsAssumption     == MaxRetries \in Nat /\ MaxCrashes \in Nat

VARIABLES
  present,  \* the lecture's document is in Mongo
  lec,      \* that document (what it last was, when it is not)
  rows,     \* the lecture_versions rows of this lecture
  queue,    \* jobs in the broker, a retry waiting for its countdown included
  pc,       \* where each call and each worker is
  snap,     \* the document each call and each worker holds in memory
  job,      \* the job each worker runs
  num,      \* the version number each worker is about to insert
  crashes,  \* handlers and workers that died so far
  purged    \* history: a delete has removed the version rows

vars == <<present, lec, rows, queue, pc, snap, job, num, crashes, purged>>

-----------------------------------------------------------------------------
(* The data. *)

Actors  == Calls \cup Workers
Status  == {"pending", "generating", "ready", "failed"}
Source  == {"ai_generated", "ai_refined", "manual_edit", "rollback"}
Lecture == [status : Status, cur : Nat, refine : Transforms \cup {"none"}]
Version == [version : Nat \ {0}, source : Source, by : Calls]
Job     == [id : Calls, kind : {"generate", "refine"},
            transform : Transforms \cup {"none"}, attempt : 0..MaxRetries]

CallPC   == {"idle", "dispatch", "edit", "editSave", "refine", "retry",
             "rollback", "rollbackInsert", "rollbackSave",
             "deleteVersions", "deleteDoc", "done"}
WorkerPC == {"idle", "mark", "find", "llm", "number", "insert", "save",
             "publish", "fail"}

Task(id, kind, transform, attempt) ==
  [id |-> id, kind |-> kind, transform |-> transform, attempt |-> attempt]

GenerateJob(c)  == Task(c, "generate", "none", 0)
RefineJob(c, t) == Task(c, "refine", t, 0)
\* The same job, queued by Celery for its next attempt.
Retried(j)      == Task(j.id, j.kind, j.transform, j.attempt + 1)

Numbers == {r.version : r \in rows}

\* The row current_version points at is there: what get_current_content reads.
HasRow(n) == n \in Numbers

\* A document in another status, with another current version or refine.
With(status, cur, refine) == [status |-> status, cur |-> cur, refine |-> refine]

NewLecture == With("pending", 0, "none")

\* Mutants: the pointer one too far; the pointer not moved.
ReadyOffByOne(doc, n) == With("ready", n + 1, doc.refine)
ReadyForgetsCurrent(doc, n) == With("ready", doc.cur, doc.refine)

\* The document once version n is its current one.
Ready(doc, n) == With("ready", n, doc.refine)

\* Mutant: no unique index.
NeverTaken(n) == FALSE

\* The unique index on (lecture_id, version) refuses a number already taken.
Taken(n) == n \in Numbers

InsertRow(n, source, id) ==
  rows' = rows \cup {[version |-> n, source |-> source, by |-> id]}

\* Lecture.save(): every field is written, and an absent document re-inserted.
Save(doc) == present' = TRUE /\ lec' = doc

-----------------------------------------------------------------------------
(* API handlers. *)

Goto(a, label) == pc' = [pc EXCEPT ![a] = label]

\* A handler that has answered holds nothing.
Answer(c) == Goto(c, "done") /\ snap' = [snap EXCEPT ![c] = NewLecture]

\* create_lecture inserts the pending document ...
CreateInsert(c) ==
  /\ \A a \in Actors : pc[a] = "idle"   \* nobody knows the id before
  /\ present' = TRUE
  /\ lec' = NewLecture
  /\ Goto(c, "dispatch")
  /\ UNCHANGED <<rows, queue, snap, job, num, crashes, purged>>

\* ... and only then queues the generate job.
CreateDispatch(c) ==
  /\ pc[c] = "dispatch"
  /\ queue' = queue \cup {GenerateJob(c)}
  /\ Answer(c)
  /\ UNCHANGED <<present, lec, rows, job, num, crashes, purged>>

\* get_lecture_or_404, the first dependency of every route on a lecture.
Load(c, label) ==
  /\ pc[c] = "idle"
  /\ present
  /\ label \in {"edit", "refine", "retry", "rollback", "deleteVersions"}
  /\ snap' = [snap EXCEPT ![c] = lec]
  /\ Goto(c, label)
  /\ UNCHANGED <<present, lec, rows, queue, job, num, crashes, purged>>

\* manual_edit_lecture and rollback_lecture_version number their row from the
\* loaded copy, insert it and change the copy ...
AppendRow(c, source, label) ==
  LET next == snap[c].cur + 1 IN
  \/ /\ ~Taken(next)
     /\ InsertRow(next, source, c)
     /\ snap' = [snap EXCEPT ![c] = Ready(@, next)]
     /\ Goto(c, label)
     /\ UNCHANGED <<present, lec, queue, job, num, crashes, purged>>
  \/ /\ Taken(next)                                  \* DuplicateKeyError: 500
     /\ Answer(c)
     /\ UNCHANGED <<present, lec, rows, queue, job, num, crashes, purged>>

\* ... and then save the copy.
SaveCopy(c) ==
  /\ Save(snap[c])
  /\ Answer(c)
  /\ UNCHANGED <<rows, queue, job, num, crashes, purged>>

\* Mutant: an edit replaces the current version's row.
EditInPlace(c) ==
  /\ pc[c] = "edit"
  /\ rows' = {r \in rows : r.version # snap[c].cur} \cup
       {[version |-> snap[c].cur + 1, source |-> "manual_edit", by |-> c]}
  /\ snap' = [snap EXCEPT ![c] = Ready(@, @.cur + 1)]
  /\ Goto(c, "editSave")
  /\ UNCHANGED <<present, lec, queue, job, num, crashes, purged>>

EditInsert(c) == pc[c] = "edit" /\ AppendRow(c, "manual_edit", "editSave")

EditSave(c) == pc[c] = "editSave" /\ SaveCopy(c)

RefineDispatch(c) ==
  /\ pc[c] = "refine"
  /\ \/ /\ snap[c].cur # 0
        /\ snap[c].status # "generating"
        /\ \E t \in Transforms : queue' = queue \cup {RefineJob(c, t)}
     \/ /\ snap[c].cur = 0 \/ snap[c].status = "generating"
        /\ UNCHANGED queue
  /\ Answer(c)
  /\ UNCHANGED <<present, lec, rows, job, num, crashes, purged>>

\* The job retry_lecture replays for a failed document, if it has one.
Replay(c, doc) ==
  IF doc.cur = 0 THEN {GenerateJob(c)}
  ELSE IF doc.refine # "none" THEN {RefineJob(c, doc.refine)}
  ELSE {}

RetryDispatch(c) ==
  /\ pc[c] = "retry"
  /\ queue' = queue \cup
       (IF snap[c].status = "failed" THEN Replay(c, snap[c]) ELSE {})
  /\ Answer(c)
  /\ UNCHANGED <<present, lec, rows, job, num, crashes, purged>>

\* rollback looks its target up (any version number may be asked for) ...
RollbackFind(c) ==
  /\ pc[c] = "rollback"
  /\ \/ rows # {} /\ Goto(c, "rollbackInsert") /\ UNCHANGED snap
     \/ Answer(c)                                            \* NotFoundError
  /\ UNCHANGED <<present, lec, rows, queue, job, num, crashes, purged>>

RollbackInsert(c) ==
  pc[c] = "rollbackInsert" /\ AppendRow(c, "rollback", "rollbackSave")

RollbackSave(c) == pc[c] = "rollbackSave" /\ SaveCopy(c)

\* delete_lecture: the rows first, then the document.
DeleteVersions(c) ==
  /\ pc[c] = "deleteVersions"
  /\ rows' = {}
  /\ purged' = TRUE
  /\ Goto(c, "deleteDoc")
  /\ UNCHANGED <<present, lec, queue, snap, job, num, crashes>>

DeleteDoc(c) ==
  /\ pc[c] = "deleteDoc"
  /\ present' = FALSE
  /\ Answer(c)
  /\ UNCHANGED <<lec, rows, queue, job, num, crashes, purged>>

\* The API process dies, or a database error ends the handler, at any await.
CallStops(c) ==
  /\ pc[c] \notin {"idle", "done"}
  /\ crashes < MaxCrashes
  /\ crashes' = crashes + 1
  /\ Answer(c)
  /\ UNCHANGED <<present, lec, rows, queue, job, num, purged>>

-----------------------------------------------------------------------------
(* Celery workers. *)

\* A worker with nothing to do holds nothing.
Release(w) ==
  /\ Goto(w, "idle")
  /\ snap' = [snap EXCEPT ![w] = NewLecture]
  /\ job' = [job EXCEPT ![w] = NoJob]
  /\ num' = [num EXCEPT ![w] = 0]

\* The broker hands over a job (acknowledged here: Celery's default) and the
\* job loads the lecture; without one it only logs.
Start(w, j) ==
  /\ pc[w] = "idle"
  /\ j \in queue
  /\ queue' = queue \ {j}
  /\ \/ /\ present
        /\ snap' = [snap EXCEPT ![w] = lec]
        /\ job' = [job EXCEPT ![w] = j]
        /\ Goto(w, "mark")
        /\ UNCHANGED num
     \/ ~present /\ Release(w)
  /\ UNCHANGED <<present, lec, rows, crashes, purged>>

\* The copy a job saves before it works.
Marked(doc, j) ==
  With("generating", doc.cur,
       IF j.kind = "generate" THEN doc.refine ELSE j.transform)

MarkGenerating(w) ==
  /\ pc[w] = "mark"
  /\ snap' = [snap EXCEPT ![w] = Marked(@, job[w])]
  /\ Save(Marked(snap[w], job[w]))
  /\ Goto(w, IF job[w].kind = "generate" THEN "llm" ELSE "find")
  /\ UNCHANGED <<rows, queue, job, num, crashes, purged>>

\* A refine reads the version to transform.
FindCurrent(w) ==
  /\ pc[w] = "find"
  /\ Goto(w, IF HasRow(snap[w].cur) THEN "llm" ELSE "fail")   \* ValueError
  /\ UNCHANGED <<present, lec, rows, queue, snap, job, num, crashes, purged>>

\* check_quota, retrieve, the LLM call and record_usage all succeed.  A
\* generated version is always number 1.
Complete(w) ==
  /\ pc[w] = "llm"
  /\ \/ /\ job[w].kind = "generate"
        /\ num' = [num EXCEPT ![w] = 1]
        /\ Goto(w, "insert")
     \/ /\ job[w].kind = "refine"
        /\ Goto(w, "number")
        /\ UNCHANGED num
  /\ UNCHANGED <<present, lec, rows, queue, snap, job, crashes, purged>>

\* Mutant: a number is skipped.
NextVersionSkips(w) ==
  /\ pc[w] = "number"
  /\ \E latest \in rows :
       /\ \A r \in rows : r.version <= latest.version
       /\ num' = [num EXCEPT ![w] = latest.version + 2]
  /\ Goto(w, "insert")
  /\ UNCHANGED <<present, lec, rows, queue, snap, job, crashes, purged>>

\* _next_version_number: one more than the highest row at this moment.
NextVersionNumber(w) ==
  /\ pc[w] = "number"
  /\ \/ rows = {} /\ num' = [num EXCEPT ![w] = 1]
     \/ \E latest \in rows :
          /\ \A r \in rows : r.version <= latest.version
          /\ num' = [num EXCEPT ![w] = latest.version + 1]
  /\ Goto(w, "insert")
  /\ UNCHANGED <<present, lec, rows, queue, snap, job, crashes, purged>>

JobSource(j) == IF j.kind = "generate" THEN "ai_generated" ELSE "ai_refined"

InsertVersion(w) ==
  /\ pc[w] = "insert"
  /\ \/ /\ ~Taken(num[w])
        /\ InsertRow(num[w], JobSource(job[w]), job[w].id)
        /\ snap' = [snap EXCEPT ![w] = Ready(@, num[w])]
        /\ Goto(w, "save")
     \/ /\ Taken(num[w])                             \* DuplicateKeyError
        /\ Goto(w, "fail")
        /\ UNCHANGED <<rows, snap>>
  /\ UNCHANGED <<present, lec, queue, job, num, crashes, purged>>

SaveReady(w) ==
  /\ pc[w] = "save"
  /\ Save(snap[w])
  /\ Goto(w, "publish")
  /\ UNCHANGED <<rows, queue, snap, job, num, crashes, purged>>

\* lecture.ready is published and the job ends.
PublishReady(w) ==
  /\ pc[w] = "publish"
  /\ Release(w)
  /\ UNCHANGED <<present, lec, rows, queue, crashes, purged>>

\* Mutants: one retry too many; a failed save is retried like a failed call.
RetryOnceMore(w) ==
  /\ pc[w] = "llm"
  /\ job[w].attempt <= MaxRetries
  /\ queue' = queue \cup {Retried(job[w])}
  /\ Release(w)
  /\ UNCHANGED <<present, lec, rows, crashes, purged>>
RetrySaveToo(w) ==
  /\ pc[w] \in {"llm", "save"}
  /\ job[w].attempt < MaxRetries
  /\ queue' = queue \cup {Retried(job[w])}
  /\ Release(w)
  /\ UNCHANGED <<present, lec, rows, crashes, purged>>

\* LLMProxyError or EmbeddingServiceError: the task is queued again while
\* retries remain, given up otherwise.
TransientError(w) ==
  /\ pc[w] = "llm"
  /\ \/ /\ job[w].attempt < MaxRetries
        /\ queue' = queue \cup {Retried(job[w])}
        /\ Release(w)
     \/ /\ job[w].attempt = MaxRetries
        /\ Goto(w, "fail")
        /\ UNCHANGED <<queue, snap, job, num>>
  /\ UNCHANGED <<present, lec, rows, crashes, purged>>

\* Mutant: the exception is only logged.
ErrorOnlyLogged(w) ==
  /\ pc[w] \in {"find", "llm", "number", "insert", "save", "publish"}
  /\ Release(w)
  /\ UNCHANGED <<present, lec, rows, queue, crashes, purged>>

\* Any other exception inside the try block: the quota is exceeded, the
\* database or the final publish fails, ...
OtherError(w) ==
  /\ pc[w] \in {"find", "llm", "number", "insert", "save", "publish"}
  /\ Goto(w, "fail")
  /\ UNCHANGED <<present, lec, rows, queue, snap, job, num, crashes, purged>>

\* _mark_failed saves the copy the job still holds, whatever it says.
MarkFailed(w) ==
  /\ pc[w] = "fail"
  /\ Save(With("failed", snap[w].cur, snap[w].refine))
  /\ Release(w)
  /\ UNCHANGED <<rows, queue, crashes, purged>>

\* The worker process dies, or an exception outside the try block (the first
\* save and publish, the retrying publish) ends the job: the job is gone.
WorkerStops(w) ==
  /\ pc[w] # "idle"
  /\ crashes < MaxCrashes
  /\ crashes' = crashes + 1
  /\ Release(w)
  /\ UNCHANGED <<present, lec, rows, queue, purged>>

-----------------------------------------------------------------------------
Init ==
  /\ present = FALSE
  /\ lec = NewLecture
  /\ rows = {}
  /\ queue = {}
  /\ pc = [a \in Actors |-> "idle"]
  /\ snap = [a \in Actors |-> NewLecture]
  /\ job = [w \in Workers |-> NoJob]
  /\ num = [w \in Workers |-> 0]
  /\ crashes = 0
  /\ purged = FALSE

\* A handler that has been accepted goes on; which requests come is open.
CallStep(c) ==
  \/ CreateDispatch(c)
  \/ EditInsert(c) \/ EditSave(c)
  \/ RefineDispatch(c) \/ RetryDispatch(c)
  \/ RollbackFind(c) \/ RollbackInsert(c) \/ RollbackSave(c)
  \/ DeleteVersions(c) \/ DeleteDoc(c)

WorkerStep(w) ==
  \/ \E j \in queue : Start(w, j)
  \/ MarkGenerating(w) \/ FindCurrent(w) \/ Complete(w)
  \/ NextVersionNumber(w) \/ InsertVersion(w) \/ SaveReady(w)
  \/ PublishReady(w) \/ TransientError(w) \/ OtherError(w) \/ MarkFailed(w)

Next ==
  \/ \E c \in Calls :
       \/ CreateInsert(c)
       \/ \E label \in CallPC : Load(c, label)
       \/ CallStep(c)
       \/ CallStops(c)
  \/ \E w \in Workers : WorkerStep(w) \/ WorkerStops(w)

Spec == Init /\ [][Next]_vars

\* asyncio runs an accepted handler on, a worker keeps consuming its queue.
Fairness ==
  /\ \A c \in Calls : WF_vars(CallStep(c))
  /\ \A w \in Workers : WF_vars(WorkerStep(w))

FairSpec == Spec /\ Fairness
-----------------------------------------------------------------------------
(* Properties. *)

\* Types, and what a busy worker holds.
TypeOK ==
  /\ present \in BOOLEAN
  /\ lec \in Lecture
  /\ rows \subseteq Version
  /\ queue \subseteq Job
  /\ pc \in [Actors -> CallPC \cup WorkerPC]
  /\ \A c \in Calls : pc[c] \in CallPC
  /\ \A w \in Workers : pc[w] \in WorkerPC
  /\ snap \in [Actors -> Lecture]
  /\ job \in [Workers -> Job \cup {NoJob}]
  /\ \A w \in Workers : pc[w] # "idle" => job[w] \in Job
  /\ num \in [Workers -> Nat]
  /\ \A w \in Workers : pc[w] \in {"insert", "save", "publish"} => num[w] # 0
  /\ crashes \in 0..MaxCrashes
  /\ purged \in BOOLEAN

\* However handlers and jobs overlap, no two rows of a lecture share a number
\* and, until a delete, the numbers are 1, 2, 3, ... without a gap
\* (lecture_versions.py: "1, 2, 3, ... monotonically increasing").
VersionsNumbered ==
  /\ \A r, s \in rows : r.version = s.version => r = s
  /\ ~purged => \A r \in rows : \A k \in 1..r.version : HasRow(k)

\* Until a delete, a lecture that is ready or names a current version has that
\* version's row, so get_current_content finds content: the row is always
\* inserted before any document that points at it is saved, by anyone.
CurrentVersionExists ==
  present /\ ~purged /\ (lec.status = "ready" \/ lec.cur # 0)
    => HasRow(lec.cur)

\* A request adds at most one version, however often its job is retried.
OneVersionPerRequest == \A r, s \in rows : r.by = s.by => r = s

\* A job on its way to saving ready or failed, or to its next attempt.
Owns(w) == pc[w] \notin {"idle", "publish"}

\* While nothing died, a lecture shown as generating has a job that will
\* end that: it is running, or waiting in the broker.
GeneratingHasJob ==
  crashes = 0 /\ present /\ lec.status = "generating"
    => queue # {} \/ \E w \in Workers : Owns(w)

\* Rows are "never deleted or overwritten, only appended to" while the lecture
\* is not deleted, whatever fails or overlaps.
HistoryAppendOnly == [][purged' \/ rows \subseteq rows']_rows

\* The abstract history: until a delete, the rows and the current version.
History == INSTANCE VersionHistory WITH
  Entry <- Version,
  history <- IF purged THEN {} ELSE rows,
  current <- IF purged THEN 0 ELSE lec.cur,
  deleted <- purged

\* Handlers and jobs, however they overlap, fail or die, implement it.
ImplementsHistory == History!Spec

\* What the module docstring of services/lectures.py says of a dispatched job:
\* it "eventually lands the lecture back in `ready` or `failed`".
LandsReadyOrFailed ==
  (present /\ lec.status \in {"pending", "generating"})
    ~> (~present \/ lec.status \in {"ready", "failed"})
=============================================================================
