----------------------------- MODULE CourseTree -----------------------------
(***************************************************************************)
(* The rows a course is made of, in MongoDB: subjects with their           *)
(* enrollments, plans with their lectures and versions, chat sessions with *)
(* their messages; and the handlers of services/subjects.py, plans.py,     *)
(* lectures.py and chat.py that insert, save and delete them, one await at *)
(* a time, behind the checks of core/permissions.py.  MongoDB has no       *)
(* transaction around a handler and no foreign key: what keeps the tree    *)
(* whole is the order in which a handler reads and removes.                *)
(*                                                                         *)
(* A row's id fixes what an update never changes: the row it belongs to    *)
(* (Parent) and the user it belongs to (Keeper).  Version numbers and      *)
(* lecture statuses are in PlannerLecture, answers in TutorAnswers, the    *)
(* documents of a subject in DocumentStore; accounts do not change here.   *)
(***************************************************************************)

CONSTANTS
  Users,
  Subjects, Plans, Lectures, Sessions,   \* ids, each inserted at most once
  Role,      \* user -> "admin", "teacher" or "student"
  Parent,    \* plan and session -> subject, lecture -> plan
  Keeper,    \* subject -> teacher_id, session -> user_id
  Calls,     \* the HTTP calls that may be made
  Requests,  \* HTTP requests, each served once
  Workers,   \* Celery worker processes
  Start,     \* the rows there are at first, all of them filled
  Enrolled,  \* the enrollments there are at first
  None

Nodes  == Subjects \cup Plans \cup Lectures \cup Sessions
Filled == Lectures \cup Sessions   \* what has versions, what has messages
Pairs  == Subjects \X Users

\* The versions or messages below a lecture or a session, as one thing.
Content(x) == <<"content", x>>
Contents   == {Content(x) : x \in Filled}

ASSUME IdsAssumption ==
  /\ Subjects \cap (Plans \cup Lectures \cup Sessions) = {}
  /\ Plans \cap Filled = {}
  /\ Lectures \cap Sessions = {}
  /\ None \notin Nodes \cup Users
  /\ Requests \cap Workers = {}
  /\ Nodes \cap (Pairs \cup Contents) = {} /\ Pairs \cap Contents = {}

ASSUME TreeAssumption ==
  /\ Role \in [Users -> {"admin", "teacher", "student"}]
  /\ \A x \in Plans \cup Sessions : Parent[x] \in Subjects
  /\ \A l \in Lectures : Parent[l] \in Plans
  /\ \A x \in Subjects \cup Sessions : Keeper[x] \in Users

ASSUME StartAssumption ==
  /\ Start \subseteq Nodes
  /\ \A x \in Start \ Subjects : Parent[x] \in Start
  /\ Enrolled \subseteq {e \in Pairs : e[1] \in Start /\ Role[e[2]] = "student"}

VARIABLES
  rows,       \* the documents of the four collections
  born,       \* ids that have been given out
  filled,     \* lectures with version rows, sessions with message rows
  enrolled,   \* the rows of the enrollments collection
  title,      \* what the title of each session came from
  queue,      \* lectures with a job in the broker
  call,       \* the call each request serves
  at,         \* where each request and each worker is
  listed,     \* the lectures delete_plan listed
  held,       \* the title in each request's copy of its session
  job,        \* the lecture each worker is on
  overtaken   \* history: things written while what they belong to was going

tree == <<rows, born, filled, enrolled, title, queue>>
ctl  == <<call, listed, held, job>>
vars == <<tree, ctl, at, overtaken>>

-----------------------------------------------------------------------------
(* The calls and the tree. *)

LectureOps == {"editLecture", "queueJob", "deleteLecture"}
PlanOps    == {"updatePlan", "deletePlan", "createLecture"} \cup LectureOps
ChatOps    == {"createSession", "ask", "generateTitle", "deleteSession"}
SubjectOps == {"updateSubject", "deleteSubject", "enroll", "unenroll",
               "createPlan"}
Ops        == {"createSubject"} \cup SubjectOps \cup PlanOps \cup ChatOps

\* A route and the ids in its path; `on` is the last one.
Call == [op : Ops, user : Users, subject : Subjects \cup {None},
         plan : Plans \cup {None}, on : Nodes \cup Users \cup {None}]

\* Where a route looks its last id up; an id of nothing there is a 404.
Collection(op) ==
  CASE op \in LectureOps                            -> Lectures
    [] op \in {"ask", "generateTitle", "deleteSession"} -> Sessions
    [] op \in {"enroll", "unenroll"}                -> Users
    [] OTHER                                        -> {None}

ASSUME CallsAssumption ==
  /\ Calls \subseteq Call
  /\ \A c \in Calls : /\ c.op # "createSubject" => c.subject \in Subjects
                      /\ c.op \in PlanOps => c.plan \in Plans
                      /\ c.on \in Collection(c.op)

NoCall == [op |-> "createSubject", user |-> None, subject |-> None,
           plan |-> None, on |-> None]

Titles == {"none", "question", "generated"}

User(r)    == call[r].user
Subject(r) == call[r].subject
Plan(r)    == call[r].plan
On(r)      == call[r].on

LecturesOf(p) == {l \in Lectures : Parent[l] = p}

\* What a delete that has begun is about to remove.
Doomed(r) ==
  CASE at[r] = "subjectRow" -> {Subject(r)}
    [] at[r] \in {"planVersions", "planLectures", "planRow"} ->
         {Plan(r)} \cup LecturesOf(Plan(r))
    [] at[r] \in {"lectureRow", "sessionRow"} -> {On(r)}
    [] OTHER -> {}

\* The row is gone, or going.
Going(x) == x \notin rows \/ \E r \in Requests : x \in Doomed(r)

\* A thing was written below x; things were removed.
Wrote(thing, x) ==
  overtaken' = IF Going(x) THEN overtaken \cup {thing} ELSE overtaken
Removed(things) == overtaken' = overtaken \ things

-----------------------------------------------------------------------------
(* The steps handlers are made of: the one actor a, from label to next. *)

Moves(a, label, next) == at[a] = label /\ at' = [at EXCEPT ![a] = next]

\* A dependency or a lookup: a 404, 403 or 409 ends the request.
Checks(r, label, passes, next) ==
  /\ Moves(r, label, IF passes THEN next ELSE "done")
  /\ UNCHANGED <<tree, call, listed, job, overtaken>>

\* A row with a new id.
Inserts(r, label, S) ==
  /\ Moves(r, label, "done")
  /\ \E x \in S \ born : rows' = rows \cup {x} /\ born' = born \cup {x}
  /\ UNCHANGED <<filled, enrolled, title, queue, ctl, overtaken>>

\* Beanie's save() writes the whole document, and re-inserts one that is gone.
Saves(a, label, x, next) ==
  /\ Moves(a, label, next)
  /\ rows' = rows \cup {x}
  /\ IF x \in Lectures THEN Wrote(x, x) ELSE UNCHANGED overtaken
  /\ UNCHANGED <<born, filled, enrolled, queue, call, listed, job>>

Deletes(r, label, S, next) ==
  /\ Moves(r, label, next)
  /\ rows' = rows \ S
  /\ Removed(S)
  /\ UNCHANGED <<born, filled, enrolled, title, queue, ctl>>

\* A version of a lecture, a message of a session; and all of those of S gone.
Fills(a, label, x, next) ==
  /\ Moves(a, label, next)
  /\ filled' = filled \cup {x}
  /\ Wrote(Content(x), x)
  /\ UNCHANGED <<rows, born, enrolled, title, queue, ctl>>

Empties(r, label, S, next) ==
  /\ Moves(r, label, next)
  /\ filled' = filled \ S
  /\ Removed({Content(x) : x \in S})
  /\ UNCHANGED <<rows, born, enrolled, title, queue, ctl>>

Unenrolls(r, label, S, next) ==
  /\ Moves(r, label, next)
  /\ enrolled' = enrolled \ S
  /\ Removed(S)
  /\ UNCHANGED <<rows, born, filled, title, queue, ctl>>

-----------------------------------------------------------------------------
(* core/permissions.py and the get_..._or_404 of the services. *)

\* The dependency a route resolves first.
FirstCheck(op) ==
  CASE op = "createSubject"        -> "createSubject"
    [] op \in LectureOps           -> "lecture"
    [] op \in PlanOps \ LectureOps -> "plan"
    [] OTHER                       -> "subject"

Arrive(r) ==
  \E c \in Calls :
    /\ Moves(r, "idle", FirstCheck(c.op))
    /\ call' = [call EXCEPT ![r] = c]
    /\ UNCHANGED <<tree, listed, held, job, overtaken>>

\* Mutant: any row will do, whichever path it is under.
AnyBelow(x, parent) == x \in rows

\* The row is there and belongs to the row the path puts it under.
Below(x, parent) == x \in rows /\ Parent[x] = parent

FindLecture(r) ==
  Checks(r, "lecture", Below(On(r), Plan(r)), "plan") /\ UNCHANGED held

FindPlan(r) ==
  Checks(r, "plan", Below(Plan(r), Subject(r)), "subject") /\ UNCHANGED held

\* is_subject_owner
Owns(u, s) == Role[u] = "admin" \/ Keeper[s] = u

\* get_subject with require_subject_owner ...
FindOwnSubject(r) ==
  /\ call[r].op \notin ChatOps
  /\ Checks(r, "subject",
            Subject(r) \in rows /\ Owns(User(r), Subject(r)), call[r].op)
  /\ UNCHANGED held

\* What a chat route does once its caller has access to the subject.
Admitted(op) == IF op = "createSession" THEN op ELSE "session"

\* ... or with require_subject_access, which may have to ask for an enrollment.
FindSubject(r) ==
  LET owns == Owns(User(r), Subject(r)) IN
  /\ call[r].op \in ChatOps
  /\ Checks(r, "subject",
            Subject(r) \in rows /\ (owns \/ Role[User(r)] = "student"),
            IF owns THEN Admitted(call[r].op) ELSE "enrollment")
  /\ UNCHANGED held

FindEnrollment(r) ==
  /\ Checks(r, "enrollment", <<Subject(r), User(r)>> \in enrolled,
            Admitted(call[r].op))
  /\ UNCHANGED held

\* get_own_chat_session: the copy the handler will save.
FindSession(r) ==
  /\ Checks(r, "session",
            Below(On(r), Subject(r)) /\ Keeper[On(r)] = User(r), call[r].op)
  /\ held' = [held EXCEPT ![r] = title[On(r)]]

-----------------------------------------------------------------------------
(* services/subjects.py *)

CreateSubject(r) ==
  /\ Inserts(r, "createSubject", {s \in Subjects : Keeper[s] = User(r)})
  /\ Role[User(r)] = "teacher"                    \* require_role(TEACHER)

UpdateSubject(r) ==
  Saves(r, "updateSubject", Subject(r), "done") /\ UNCHANGED <<title, held>>

\* delete_subject, after its documents: the enrollments, then the subject.
DeleteEnrollments(r) ==
  Unenrolls(r, "deleteSubject", {e \in Pairs : e[1] = Subject(r)}, "subjectRow")

DeleteSubjectRow(r) == Deletes(r, "subjectRow", {Subject(r)}, "done")

\* enroll_student: User.get and its role, then the insert, which the unique
\* index refuses when the pair is already there.
FindStudent(r) ==
  Checks(r, "enroll", Role[On(r)] = "student", "enrollInsert") /\ UNCHANGED held

Enroll(r) ==
  LET pair == <<Subject(r), On(r)>> IN
  /\ Moves(r, "enrollInsert", "done")
  /\ enrolled' = enrolled \cup {pair}
  /\ IF pair \in enrolled THEN UNCHANGED overtaken ELSE Wrote(pair, Subject(r))
  /\ UNCHANGED <<rows, born, filled, title, queue, ctl>>

FindEnrolled(r) ==
  /\ Checks(r, "unenroll", <<Subject(r), On(r)>> \in enrolled, "unenrollDelete")
  /\ UNCHANGED held

Unenroll(r) == Unenrolls(r, "unenrollDelete", {<<Subject(r), On(r)>>}, "done")

-----------------------------------------------------------------------------
(* services/plans.py, services/lectures.py and the jobs on a lecture. *)

CreatePlan(r) ==
  Inserts(r, "createPlan", {p \in Plans : Parent[p] = Subject(r)})

UpdatePlan(r) ==
  Saves(r, "updatePlan", Plan(r), "done") /\ UNCHANGED <<title, held>>

\* delete_plan lists the lectures; when there are any it deletes the versions
\* of those it listed, then the lectures the plan has by then; then the plan.
ListLectures(r) ==
  LET ids == LecturesOf(Plan(r)) \cap rows IN
  /\ Moves(r, "deletePlan", IF ids # {} THEN "planVersions" ELSE "planRow")
  /\ listed' = [listed EXCEPT ![r] = ids]
  /\ UNCHANGED <<tree, call, held, job, overtaken>>

\* Mutant: the lectures go, their versions stay.
KeepVersions(r) == Empties(r, "planVersions", {}, "planLectures")

DeletePlanVersions(r) == Empties(r, "planVersions", listed[r], "planLectures")

DeletePlanLectures(r) ==
  Deletes(r, "planLectures", LecturesOf(Plan(r)), "planRow")

DeletePlanRow(r) == Deletes(r, "planRow", {Plan(r)}, "done")

CreateLecture(r) ==
  /\ Moves(r, "createLecture", "queueJob")
  /\ \E l \in LecturesOf(Plan(r)) \ born :
       /\ rows' = rows \cup {l} /\ born' = born \cup {l}
       /\ Wrote(l, Plan(r))
       /\ call' = [call EXCEPT ![r].on = l]
  /\ UNCHANGED <<filled, enrolled, title, queue, listed, held, job>>

\* The .delay of create_lecture, refine_lecture and retry_lecture.
QueueJob(r) ==
  /\ Moves(r, "queueJob", "done")
  /\ queue' = queue \cup {On(r)}
  /\ UNCHANGED <<rows, born, filled, enrolled, title, ctl, overtaken>>

\* manual_edit_lecture and rollback_lecture_version: the version, then the save.
EditLecture(r) == Fills(r, "editLecture", On(r), "lectureSave")
SaveEdit(r) ==
  Saves(r, "lectureSave", On(r), "done") /\ UNCHANGED <<title, held>>

DeleteVersions(r)   == Empties(r, "deleteLecture", {On(r)}, "lectureRow")
DeleteLectureRow(r) == Deletes(r, "lectureRow", {On(r)}, "done")

\* A job finds its lecture, or ends; marks it generating; inserts a version and
\* saves the lecture, or only saves it as failed, or is queued once more.
TakeJob(w) ==
  /\ \E l \in queue :
       /\ Moves(w, "idle", IF l \in rows THEN "mark" ELSE "idle")
       /\ queue' = queue \ {l}
       /\ job' = [job EXCEPT ![w] = l]
  /\ UNCHANGED <<rows, born, filled, enrolled, title, call, listed, held,
                 overtaken>>

MarkGenerating(w) ==
  Saves(w, "mark", job[w], "llm") /\ UNCHANGED <<title, held>>

InsertVersion(w) == Fills(w, "llm", job[w], "land")

JobError(w) ==
  /\ \/ Moves(w, "llm", "land") /\ UNCHANGED queue
     \/ Moves(w, "llm", "idle") /\ queue' = queue \cup {job[w]}
  /\ UNCHANGED <<rows, born, filled, enrolled, title, ctl, overtaken>>

Land(w) == Saves(w, "land", job[w], "idle") /\ UNCHANGED <<title, held>>

-----------------------------------------------------------------------------
(* services/chat.py *)

CreateSession(r) ==
  Inserts(r, "createSession",
          {c \in Sessions : Parent[c] = Subject(r) /\ Keeper[c] = User(r)})

\* session.save() writes the title of the copy with everything else.
SavesSession(r, label, t, next) ==
  /\ Saves(r, label, On(r), next)
  /\ title' = [title EXCEPT ![On(r)] = t]
  /\ held' = [held EXCEPT ![r] = t]

\* Mutant: every question becomes the title.
AlwaysQuestion(t) == "question"

\* The title an ask leaves: the question's, when the copy has none.
TitleOrQuestion(t) == IF t = "none" THEN "question" ELSE t

\* _stream_answer_events: the question, the session, the answer, the session.
AskQuestion(r)  == Fills(r, "ask", On(r), "askSave")
SaveQuestion(r) == SavesSession(r, "askSave", TitleOrQuestion(held[r]), "answer")
StoreAnswer(r)  == Fills(r, "answer", On(r), "answerSave")
SaveAnswer(r)   == SavesSession(r, "answerSave", held[r], "done")

\* generate_session_title: a 409 without a question; the model may answer with
\* an empty title, and the question stands in.
FindQuestion(r) ==
  Checks(r, "generateTitle", On(r) \in filled, "titleSave") /\ UNCHANGED held

SaveTitle(r) ==
  \E t \in {"generated", "question"} : SavesSession(r, "titleSave", t, "done")

DeleteMessages(r)   == Empties(r, "deleteSession", {On(r)}, "sessionRow")
DeleteSessionRow(r) == Deletes(r, "sessionRow", {On(r)}, "done")

-----------------------------------------------------------------------------
(* A request or a job that ends early, and the specification. *)

\* A refusal (quota, a taken version number), an error of the model, a client
\* that leaves, a process that dies: nothing is undone.
GiveUp(a) ==
  /\ at[a] \notin {"idle", "done"}
  /\ Moves(a, at[a], IF a \in Workers THEN "idle" ELSE "done")
  /\ UNCHANGED <<tree, ctl, overtaken>>

Init ==
  /\ rows = Start
  /\ born = Start
  /\ filled = Start \cap Filled
  /\ enrolled = Enrolled
  /\ title = [c \in Sessions |-> IF c \in Start THEN "question" ELSE "none"]
  /\ queue = {}
  /\ call = [r \in Requests |-> NoCall]
  /\ at = [a \in Requests \cup Workers |-> "idle"]
  /\ listed = [r \in Requests |-> {}]
  /\ held = [r \in Requests |-> "none"]
  /\ job = [w \in Workers |-> None]
  /\ overtaken = {}

CheckStep(r) ==
  \/ FindLecture(r) \/ FindPlan(r) \/ FindOwnSubject(r)
  \/ FindSubject(r) \/ FindEnrollment(r) \/ FindSession(r)

SubjectStep(r) ==
  \/ CreateSubject(r) \/ UpdateSubject(r)
  \/ DeleteEnrollments(r) \/ DeleteSubjectRow(r)
  \/ FindStudent(r) \/ Enroll(r) \/ FindEnrolled(r) \/ Unenroll(r)

PlanStep(r) ==
  \/ CreatePlan(r) \/ UpdatePlan(r)
  \/ ListLectures(r) \/ DeletePlanVersions(r)
  \/ DeletePlanLectures(r) \/ DeletePlanRow(r)
  \/ CreateLecture(r) \/ QueueJob(r) \/ EditLecture(r) \/ SaveEdit(r)
  \/ DeleteVersions(r) \/ DeleteLectureRow(r)

JobStep(w) ==
  TakeJob(w) \/ MarkGenerating(w) \/ InsertVersion(w) \/ JobError(w) \/ Land(w)

ChatStep(r) ==
  \/ CreateSession(r) \/ AskQuestion(r) \/ SaveQuestion(r)
  \/ StoreAnswer(r) \/ SaveAnswer(r) \/ FindQuestion(r) \/ SaveTitle(r)
  \/ DeleteMessages(r) \/ DeleteSessionRow(r)

Next ==
  \/ \E r \in Requests : \/ Arrive(r) \/ CheckStep(r) \/ SubjectStep(r)
                         \/ PlanStep(r) \/ ChatStep(r)
  \/ \E w \in Workers : JobStep(w)
  \/ \E a \in Requests \cup Workers : GiveUp(a)

Spec == Init /\ [][Next]_vars

-----------------------------------------------------------------------------
(* Properties. *)

Labels == {"idle", "done", "lecture", "plan", "subject", "enrollment",
           "session", "subjectRow", "enrollInsert", "unenrollDelete",
           "planVersions", "planLectures", "planRow", "lectureSave",
           "lectureRow", "askSave", "answer", "answerSave", "titleSave",
           "sessionRow", "mark", "llm", "land"} \cup Ops

\* Every variable has its type; a job is only ever on a lecture.
TreeTypeOK ==
  /\ rows \subseteq born /\ born \subseteq Nodes
  /\ filled \subseteq Filled
  /\ enrolled \subseteq Pairs
  /\ title \in [Sessions -> Titles]
  /\ queue \subseteq Lectures
  /\ call \in [Requests -> Call \cup {NoCall}]
  /\ at \in [Requests \cup Workers -> Labels]
  /\ listed \in [Requests -> SUBSET Lectures]
  /\ held \in [Requests -> Titles]
  /\ job \in [Workers -> Lectures \cup {None}]
  /\ overtaken \subseteq Lectures \cup Pairs \cup Contents

\* Things whose parent is gone, of the kinds that the delete of their parent
\* removes: lectures without a plan, versions and messages without their lecture
\* or session, enrollments in no subject.  Plans and sessions are not among
\* them: delete_subject leaves those of its subject behind.
Orphans ==
  {l \in Lectures \cap rows : Parent[l] \notin rows}
    \cup {Content(x) : x \in filled \ rows}
    \cup {e \in enrolled : e[1] \notin rows}

\* A delete takes with it what its handler removes, a plan its lectures, a
\* lecture its versions, a session its messages and a subject its enrollments:
\* an orphan of these kinds is only ever something written while the delete was
\* under way, or after it by a request or a job that had read its parent before.
\* A delete that stops half-way leaves none of its own, because every delete
\* removes these children first.  Of the plans and sessions of a subject that
\* is deleted this says nothing.
OrphansWereOvertaken == Orphans \subseteq overtaken

\* Who may change a row, what is below it, or the enrollments of a subject.
SubjectOf(x) == CASE x \in Subjects -> x
                  [] x \in Lectures -> Parent[Parent[x]]
                  [] OTHER          -> Parent[x]
MayChange(u, x) ==
  IF x \in Sessions THEN Keeper[x] = u ELSE Owns(u, SubjectOf(x))

Changed(S, T) == (S \ T) \cup (T \ S)

\* A request changes only what its caller owns: the subject's teacher or an
\* admin the subject, its enrollments and its planner, however the ids of the
\* path are combined, and a session nobody but the user who opened it.
OwnersOnly ==
  [][\A r \in Requests : at'[r] # at[r] =>
       /\ \A x \in Changed(rows, rows') \cup Changed(filled, filled')
                     \cup Changed(queue, queue') : MayChange(User(r), x)
       /\ \A e \in Changed(enrolled, enrolled') : Owns(User(r), e[1])]_vars

\* A generated title is replaced only by another title request, by a delete of
\* the session, or by a question whose request had read the session before.
TitleKept ==
  [][\A r \in Requests :
       /\ at'[r] # at[r]
       /\ call[r].op = "ask"
       /\ title[On(r)] = "generated"
       /\ title'[On(r)] # "generated"
       => held[r] # "generated"]_vars
=============================================================================
