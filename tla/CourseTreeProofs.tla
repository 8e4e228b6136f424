--------------------------- MODULE CourseTreeProofs ---------------------------
(***************************************************************************)
(* Proofs about CourseTree, for any users, ids, tree, calls, requests and  *)
(* workers.  First where a request can be and what it has checked by then, *)
(* from which who may change what; then what each kind of step does to the *)
(* rows, from which what a delete leaves.                                  *)
(***************************************************************************)
EXTENDS CourseTree, TLAPS

-----------------------------------------------------------------------------
(* Where a request is, and what it has checked. *)

OnSession == ChatOps \ {"createSession"}

\* Its call has the ids its route takes.
Routed(r) ==
  LET c == call[r] IN
  at[r] # "idle" =>
    /\ c.user \in Users
    /\ c.op # "createSubject" => c.subject \in Subjects
    /\ c.op \in PlanOps => c.plan \in Plans
    /\ c.op \in LectureOps => c.on \in Lectures
    /\ c.op \in OnSession => c.on \in Sessions
    /\ c.op \in {"enroll", "unenroll"} => c.on \in Users

\* It is at a step of the operation it serves.
Serves(r) ==
  LET op == call[r].op IN
  /\ at[r] \in Ops => op = at[r] \/ (at[r] = "queueJob" /\ op = "createLecture")
  /\ at[r] = "lecture" => op \in LectureOps
  /\ at[r] = "plan" => op \in PlanOps
  /\ at[r] = "subject" => op # "createSubject"
  /\ at[r] = "enrollment" => op \in ChatOps
  /\ at[r] = "session" => op \in OnSession
  /\ at[r] = "subjectRow" => op = "deleteSubject"
  /\ at[r] = "enrollInsert" => op = "enroll"
  /\ at[r] = "unenrollDelete" => op = "unenroll"
  /\ at[r] \in {"planVersions", "planLectures", "planRow"} => op = "deletePlan"
  /\ at[r] = "lectureSave" => op = "editLecture"
  /\ at[r] = "lectureRow" => op = "deleteLecture"
  /\ at[r] \in {"askSave", "answer", "answerSave"} => op = "ask"
  /\ at[r] = "titleSave" => op = "generateTitle"
  /\ at[r] = "sessionRow" => op = "deleteSession"

\* The checks that are behind it hold: they are about what no step changes.
Checked(r) ==
  LET op == call[r].op IN
  /\ op \in LectureOps /\ at[r] \notin {"idle", "done", "lecture"}
       => On(r) \in born /\ Parent[On(r)] = Plan(r)
  /\ op \in PlanOps /\ at[r] \notin {"idle", "done", "lecture", "plan"}
       => Plan(r) \in born /\ Parent[Plan(r)] = Subject(r)
  /\ op \in SubjectOps \cup PlanOps /\ at[r] \notin {"idle", "done", "lecture", "plan", "subject"}
       => Subject(r) \in born /\ Owns(User(r), Subject(r))
  /\ op \in OnSession /\ at[r] \notin {"idle", "done", "subject", "enrollment", "session"}
       => On(r) \in born /\ Keeper[On(r)] = User(r)
  /\ at[r] = "queueJob" => On(r) \in born \cap LecturesOf(Plan(r))
  /\ at[r] = "planVersions" => listed[r] \subseteq LecturesOf(Plan(r))

Placed(r) == Routed(r) /\ Serves(r) /\ Checked(r)

\* A worker is on a lecture that was inserted, as are those that are queued.
JobsKnown ==
  /\ queue \subseteq born
  /\ \A w \in Workers : at[w] \in {"idle", "mark", "llm", "land"}
                        /\ (at[w] # "idle" => job[w] \in Lectures \cap born)

PlaceInv == JobsKnown /\ \A r \in Requests : Placed(r)

-----------------------------------------------------------------------------
(* Every step keeps requests where their checks allow. *)

USE IdsAssumption, TreeAssumption

\* A request that another actor's step leaves alone.
LEMMA OthersPlaced ==
  ASSUME NEW q \in Requests, Placed(q), born \subseteq born',
         at'[q] = at[q], call'[q] = call[q], listed'[q] = listed[q]
  PROVE  Placed(q)'
BY DEF Placed, Routed, Serves, Checked, On, Plan, Subject, User

\* Only the actor a moves, and ids stay given out.
OnlyMoves(a) ==
  /\ born \subseteq born'
  /\ \A b \in (Requests \cup Workers) \ {a} : at'[b] = at[b]
  /\ \A q \in Requests \ {a} : call'[q] = call[q] /\ listed'[q] = listed[q]
  /\ \A w \in Workers \ {a} : job'[w] = job[w]

USE DEF Moves, Checks, Inserts, Saves, Deletes, Fills, Empties, Unenrolls,
        tree, ctl, Ops, SubjectOps, PlanOps, LectureOps, ChatOps, OnSession

LEMMA ArrivePlaced ==
  ASSUME TreeTypeOK, NEW r \in Requests, Arrive(r)
  PROVE  OnlyMoves(r) /\ Placed(r)' /\ UNCHANGED queue
<1>1. PICK c \in Calls : /\ at' = [at EXCEPT ![r] = FirstCheck(c.op)]
                         /\ call' = [call EXCEPT ![r] = c]
  BY DEF Arrive
<1>2. at'[r] = FirstCheck(c.op) /\ call'[r] = c
  BY <1>1 DEF TreeTypeOK
<1>3. c \in Call
  BY CallsAssumption
<1>4. Routed(r)'
  <2>1. /\ c.op \in LectureOps => c.on \in Lectures
        /\ c.op \in OnSession => c.on \in Sessions
        /\ c.op \in {"enroll", "unenroll"} => c.on \in Users
    BY CallsAssumption DEF Collection
  <2>2. c.user \in Users
    BY <1>3 DEF Call
  <2> QED
    BY <1>2, <2>1, <2>2, CallsAssumption DEF Routed
<1>5. Serves(r)'
  BY <1>2, <1>3 DEF Serves, FirstCheck, Call
<1>6. Checked(r)'
  <2>1. \/ at'[r] = "createSubject" /\ call'[r].op = "createSubject"
        \/ at'[r] = "lecture" /\ call'[r].op \in LectureOps
        \/ at'[r] = "plan" /\ call'[r].op \in PlanOps \ LectureOps
        \/ at'[r] = "subject" /\ call'[r].op \notin PlanOps
    BY <1>2, <1>3 DEF FirstCheck, Call
  <2> QED
    BY <2>1 DEF Checked
<1>7. OnlyMoves(r) /\ UNCHANGED queue
  BY DEF Arrive, OnlyMoves, TreeTypeOK
<1> QED
  BY <1>4, <1>5, <1>6, <1>7 DEF Placed

LEMMA CheckPlaced ==
  ASSUME TreeTypeOK, NEW r \in Requests, Placed(r), CheckStep(r)
  PROVE  OnlyMoves(r) /\ Placed(r)' /\ UNCHANGED queue
<1>1. OnlyMoves(r) /\ UNCHANGED <<queue, born, call, listed>>
  BY DEF CheckStep, FindLecture, FindPlan, FindOwnSubject, FindSubject,
         FindEnrollment, FindSession, OnlyMoves, TreeTypeOK
<1>2. at[r] # "idle" /\ call[r].op \in Ops
  BY DEF CheckStep, FindLecture, FindPlan, FindOwnSubject, FindSubject,
         FindEnrollment, FindSession, TreeTypeOK, Call, NoCall
<1>3. Routed(r)'
  BY <1>1, <1>2 DEF Placed, Routed
<1> USE <1>1, <1>2 DEF Placed, Serves, Checked, On, Plan, Subject, User, TreeTypeOK
<1>4. CASE FindLecture(r)
  BY <1>3, <1>4 DEF FindLecture, Below
<1>5. CASE FindPlan(r)
  BY <1>3, <1>5 DEF FindPlan, Below
<1>6. CASE FindOwnSubject(r)
  <2>1. \/ at'[r] = "done"
        \/ /\ at'[r] = call[r].op /\ call[r].op \in (SubjectOps \cup PlanOps)
           /\ Subject(r) \in rows /\ Owns(User(r), Subject(r))
    BY <1>6 DEF FindOwnSubject
  <2>2. CASE at'[r] = "done"
    BY <1>3, <2>2
  <2>3. CASE at'[r] = call[r].op /\ call[r].op = "queueJob"
    BY <1>3, <1>6, <2>1, <2>3 DEF FindOwnSubject, Routed, LecturesOf
  <2>4. CASE at'[r] = call[r].op /\ call[r].op # "queueJob"
    BY <1>3, <1>6, <2>1, <2>4 DEF FindOwnSubject
  <2> QED
    BY <2>1, <2>2, <2>3, <2>4
<1>7. CASE FindSubject(r)
  BY <1>3, <1>7 DEF FindSubject, Admitted
<1>8. CASE FindEnrollment(r)
  BY <1>3, <1>8 DEF FindEnrollment, Admitted
<1>9. CASE FindSession(r)
  BY <1>3, <1>9 DEF FindSession, Below
<1> QED
  BY <1>1, <1>4, <1>5, <1>6, <1>7, <1>8, <1>9 DEF CheckStep

\* A request that ends.
LEMMA DonePlaced ==
  ASSUME NEW r \in Requests, Placed(r), at[r] # "idle",
         call'[r] = call[r], at'[r] = "done"
  PROVE  Placed(r)'
BY DEF Placed, Routed, Serves, Checked

LEMMA SubjectPlaced ==
  ASSUME TreeTypeOK, NEW r \in Requests, Placed(r), SubjectStep(r)
  PROVE  OnlyMoves(r) /\ Placed(r)' /\ UNCHANGED queue
<1>1. OnlyMoves(r) /\ UNCHANGED <<queue, call, listed>> /\ at[r] # "idle"
  BY DEF SubjectStep, CreateSubject, UpdateSubject, DeleteEnrollments,
         DeleteSubjectRow, FindStudent, Enroll, FindEnrolled, Unenroll,
         OnlyMoves, TreeTypeOK
<1>2. \/ at'[r] = "done"
      \/ at[r] = "deleteSubject" /\ at'[r] = "subjectRow"
      \/ at[r] = "enroll" /\ at'[r] = "enrollInsert"
      \/ at[r] = "unenroll" /\ at'[r] = "unenrollDelete"
  BY DEF SubjectStep, CreateSubject, UpdateSubject, DeleteEnrollments,
         DeleteSubjectRow, FindStudent, Enroll, FindEnrolled, Unenroll,
         TreeTypeOK
<1>3. CASE at'[r] # "done"
  BY <1>1, <1>2, <1>3
  DEF Placed, Routed, Serves, Checked, On, Plan, Subject, User, OnlyMoves
<1> QED
  BY <1>1, <1>3, DonePlaced

LEMMA PlanPlaced ==
  ASSUME TreeTypeOK, NEW r \in Requests, Placed(r), PlanStep(r)
  PROVE  /\ OnlyMoves(r) /\ Placed(r)'
         /\ queue' \subseteq queue \cup (Lectures \cap born')
<1>1. OnlyMoves(r) /\ at[r] # "idle"
  BY DEF PlanStep, CreatePlan, UpdatePlan, ListLectures, DeletePlanVersions,
         DeletePlanLectures, DeletePlanRow, CreateLecture, QueueJob,
         EditLecture, SaveEdit, DeleteVersions, DeleteLectureRow, OnlyMoves,
         TreeTypeOK
<1>2. CASE ListLectures(r)
  <2>1. /\ at[r] = "deletePlan" /\ at'[r] \in {"planVersions", "planRow"}
        /\ listed'[r] \subseteq LecturesOf(Plan(r))
        /\ UNCHANGED <<call, born, queue>>
    BY <1>2 DEF ListLectures, TreeTypeOK
  <2> QED
    BY <1>1, <2>1
    DEF Placed, Routed, Serves, Checked, On, Plan, Subject, User
<1>3. CASE CreateLecture(r)
  <2>1. PICK l \in LecturesOf(Plan(r)) :
          /\ born' = born \cup {l}
          /\ call' = [call EXCEPT ![r].on = l]
    BY <1>3 DEF CreateLecture
  <2>2. /\ call'[r].on = l /\ call'[r].op = call[r].op
        /\ call'[r].user = call[r].user /\ call'[r].subject = call[r].subject
        /\ call'[r].plan = call[r].plan
    BY <2>1 DEF TreeTypeOK, Call, NoCall
  <2>3. at[r] = "createLecture" /\ at'[r] = "queueJob" /\ UNCHANGED queue
    BY <1>3 DEF CreateLecture, TreeTypeOK
  <2>4. call[r].op = "createLecture"
    BY <2>3 DEF Placed, Serves
  <2> QED
    BY <1>1, <2>1, <2>2, <2>3, <2>4
    DEF Placed, Routed, Serves, Checked, On, Plan, Subject, User, LecturesOf
<1>4. CASE QueueJob(r)
  <2>1. On(r) \in Lectures \cap born
    BY <1>4 DEF QueueJob, Placed, Checked, LecturesOf
  <2>2. at'[r] = "done" /\ queue' = queue \cup {On(r)} /\ UNCHANGED <<call, born>>
    BY <1>4 DEF QueueJob, TreeTypeOK
  <2> QED
    BY <1>1, <2>1, <2>2, DonePlaced
<1>5. CASE ~(ListLectures(r) \/ CreateLecture(r) \/ QueueJob(r))
  <2>1. UNCHANGED <<queue, call, listed>>
    BY <1>5 DEF PlanStep, CreatePlan, UpdatePlan, DeletePlanVersions,
         DeletePlanLectures, DeletePlanRow, EditLecture, SaveEdit,
         DeleteVersions, DeleteLectureRow
  <2>2. \/ at'[r] = "done"
        \/ at[r] = "planVersions" /\ at'[r] = "planLectures"
        \/ at[r] = "planLectures" /\ at'[r] = "planRow"
        \/ at[r] = "editLecture" /\ at'[r] = "lectureSave"
        \/ at[r] = "deleteLecture" /\ at'[r] = "lectureRow"
    BY <1>5 DEF PlanStep, CreatePlan, UpdatePlan, DeletePlanVersions,
         DeletePlanLectures, DeletePlanRow, EditLecture, SaveEdit,
         DeleteVersions, DeleteLectureRow, TreeTypeOK
  <2>3. CASE at'[r] # "done"
    BY <1>1, <2>1, <2>2, <2>3
    DEF Placed, Routed, Serves, Checked, On, Plan, Subject, User, OnlyMoves
  <2> QED
    BY <1>1, <2>1, <2>3, DonePlaced
<1> QED
  BY <1>2, <1>3, <1>4, <1>5

LEMMA ChatPlaced ==
  ASSUME TreeTypeOK, NEW r \in Requests, Placed(r), ChatStep(r)
  PROVE  OnlyMoves(r) /\ Placed(r)' /\ UNCHANGED queue
<1>1. OnlyMoves(r) /\ UNCHANGED <<queue, call, listed>> /\ at[r] # "idle"
  BY DEF ChatStep, CreateSession, AskQuestion, SaveQuestion, StoreAnswer,
         SaveAnswer, FindQuestion, SaveTitle, DeleteMessages, DeleteSessionRow,
         SavesSession, OnlyMoves, TreeTypeOK
<1>2. \/ at'[r] = "done"
      \/ at[r] = "ask" /\ at'[r] = "askSave"
      \/ at[r] = "askSave" /\ at'[r] = "answer"
      \/ at[r] = "answer" /\ at'[r] = "answerSave"
      \/ at[r] = "generateTitle" /\ at'[r] = "titleSave"
      \/ at[r] = "deleteSession" /\ at'[r] = "sessionRow"
  BY DEF ChatStep, CreateSession, AskQuestion, SaveQuestion, StoreAnswer,
         SaveAnswer, FindQuestion, SaveTitle, DeleteMessages, DeleteSessionRow,
         SavesSession, TreeTypeOK
<1>3. CASE at'[r] # "done"
  BY <1>1, <1>2, <1>3
  DEF Placed, Routed, Serves, Checked, On, Plan, Subject, User, OnlyMoves
<1> QED
  BY <1>1, <1>3, DonePlaced

\* A worker takes only what is queued, and queues only what it has.
LEMMA JobPlaced ==
  ASSUME TreeTypeOK, NEW w \in Workers, JobsKnown, JobStep(w)
  PROVE  OnlyMoves(w) /\ JobsKnown'
<1>1. OnlyMoves(w) /\ UNCHANGED born
  BY DEF JobStep, TakeJob, MarkGenerating, InsertVersion, JobError, Land,
         OnlyMoves, TreeTypeOK
<1> USE DEF JobsKnown, TreeTypeOK
<1>2. CASE TakeJob(w)  BY <1>1, <1>2 DEF TakeJob
<1>3. CASE MarkGenerating(w)  BY <1>1, <1>3 DEF MarkGenerating
<1>4. CASE InsertVersion(w)  BY <1>1, <1>4 DEF InsertVersion
<1>5. CASE JobError(w)  BY <1>1, <1>5 DEF JobError
<1>6. CASE Land(w)  BY <1>1, <1>6 DEF Land
<1> QED
  BY <1>1, <1>2, <1>3, <1>4, <1>5, <1>6 DEF JobStep

LEMMA StepPlaced ==
  ASSUME TreeTypeOK, PlaceInv, [Next]_vars
  PROVE  PlaceInv'
<1>1. ASSUME NEW r \in Requests,
             Arrive(r) \/ CheckStep(r) \/ SubjectStep(r) \/ PlanStep(r) \/ ChatStep(r)
      PROVE  PlaceInv'
  <2>1. /\ OnlyMoves(r) /\ Placed(r)'
        /\ queue' \subseteq queue \cup (Lectures \cap born')
    BY <1>1, ArrivePlaced, CheckPlaced, SubjectPlaced, PlanPlaced, ChatPlaced
    DEF PlaceInv
  <2>2. JobsKnown'
    BY <2>1 DEF PlaceInv, JobsKnown, OnlyMoves
  <2>3. \A q \in Requests : Placed(q)'
    BY <2>1, OthersPlaced DEF PlaceInv, OnlyMoves
  <2> QED
    BY <2>2, <2>3 DEF PlaceInv
<1>2. ASSUME NEW w \in Workers, JobStep(w) PROVE PlaceInv'
  <2>1. OnlyMoves(w) /\ JobsKnown'
    BY <1>2, JobPlaced DEF PlaceInv
  <2>2. \A q \in Requests : Placed(q)'
    BY <2>1, OthersPlaced DEF PlaceInv, OnlyMoves
  <2> QED
    BY <2>1, <2>2 DEF PlaceInv
<1>3. ASSUME NEW a \in Requests \cup Workers, GiveUp(a) PROVE PlaceInv'
  <2>1. OnlyMoves(a) /\ UNCHANGED <<queue, call, listed, job, born>>
    BY <1>3 DEF GiveUp, OnlyMoves, TreeTypeOK
  <2>2. /\ a \in Workers => at'[a] = "idle"
        /\ a \in Requests => at'[a] = "done" /\ at[a] # "idle"
    BY <1>3 DEF GiveUp, TreeTypeOK
  <2>3. JobsKnown'
    BY <2>1, <2>2 DEF PlaceInv, JobsKnown, OnlyMoves
  <2>4. \A q \in Requests : Placed(q)'
    BY <2>1, <2>2, OthersPlaced, DonePlaced DEF PlaceInv, OnlyMoves
  <2> QED
    BY <2>3, <2>4 DEF PlaceInv
<1>4. CASE UNCHANGED vars
  BY <1>4, OthersPlaced DEF vars, PlaceInv, JobsKnown
<1> QED
  BY <1>1, <1>2, <1>3, <1>4 DEF Next

-----------------------------------------------------------------------------
(* Types. *)

\* Where actors are and what they hold.
ActorTypes ==
  /\ call \in [Requests -> Call \cup {NoCall}]
  /\ at \in [Requests \cup Workers -> Labels]
  /\ listed \in [Requests -> SUBSET Lectures]
  /\ held \in [Requests -> Titles]
  /\ job \in [Workers -> Lectures \cup {None}]

\* What is stored.
RowTypes ==
  /\ rows \subseteq born /\ born \subseteq Nodes
  /\ filled \subseteq Filled
  /\ enrolled \subseteq Pairs
  /\ title \in [Sessions -> Titles]
  /\ queue \subseteq Lectures
  /\ overtaken \subseteq Lectures \cup Pairs \cup Contents

LEMMA TypeParts ==
  /\ TreeTypeOK <=> ActorTypes /\ RowTypes
  /\ TreeTypeOK' <=> ActorTypes' /\ RowTypes'
BY DEF TreeTypeOK, ActorTypes, RowTypes

LEMMA InitTree == Init => TreeTypeOK /\ PlaceInv
<1> SUFFICES ASSUME Init PROVE TreeTypeOK /\ PlaceInv
  OBVIOUS
<1> USE StartAssumption DEF Init
<1>1. ActorTypes
  BY DEF ActorTypes, Labels, Titles
<1>2. RowTypes
  BY DEF RowTypes, Titles, Nodes, Filled
<1>3. PlaceInv
  BY DEF PlaceInv, JobsKnown, Placed, Routed, Serves, Checked, NoCall, On,
         Plan, Subject, User
<1> QED
  BY <1>1, <1>2, <1>3, TypeParts

LEMMA ArriveTypes ==
  ASSUME TreeTypeOK, NEW r \in Requests, Arrive(r) PROVE TreeTypeOK'
<1>1. FirstCheck(call'[r].op) \in Labels
  BY DEF FirstCheck, Labels
<1>2. ActorTypes'
  BY TypeParts, CallsAssumption DEF Arrive, ActorTypes, FirstCheck, Labels
<1>3. RowTypes'
  BY TypeParts DEF Arrive, RowTypes
<1> QED
  BY <1>2, <1>3, TypeParts

LEMMA CheckTypes ==
  ASSUME TreeTypeOK, NEW r \in Requests, Placed(r), CheckStep(r)
  PROVE  TreeTypeOK'
<1> USE TypeParts
<1>1. RowTypes'
  BY DEF CheckStep, FindLecture, FindPlan, FindOwnSubject, FindSubject,
         FindEnrollment, FindSession, RowTypes
<1>2. \E l \in Labels : at' = [at EXCEPT ![r] = l]
  BY DEF CheckStep, FindLecture, FindPlan, FindOwnSubject, FindSubject,
         FindEnrollment, FindSession, Admitted, Labels, ActorTypes, Call, NoCall
<1>3. UNCHANGED <<call, listed, job>>
  BY DEF CheckStep, FindLecture, FindPlan, FindOwnSubject, FindSubject,
         FindEnrollment, FindSession
<1>4. held' \in [Requests -> Titles]
  <2>1. CASE FindSession(r)
    <3>1. On(r) \in Sessions
      BY <2>1 DEF FindSession, Placed, Routed, Serves, On
    <3> QED
      BY <2>1, <3>1 DEF FindSession, ActorTypes, RowTypes
  <2> QED
    BY <2>1 DEF CheckStep, FindLecture, FindPlan, FindOwnSubject, FindSubject,
                FindEnrollment, ActorTypes
<1> QED
  BY <1>1, <1>2, <1>3, <1>4 DEF ActorTypes

\* What is written below a row is a thing of the kinds that are counted.
LEMMA WroteType ==
  ASSUME RowTypes, NEW thing \in Lectures \cup Pairs \cup Contents, NEW x,
         Wrote(thing, x)
  PROVE  overtaken' \subseteq Lectures \cup Pairs \cup Contents
BY DEF RowTypes, Wrote

LEMMA SubjectTypes ==
  ASSUME TreeTypeOK, NEW r \in Requests, Placed(r), SubjectStep(r)
  PROVE  TreeTypeOK'
<1> USE TypeParts
<1>1. ActorTypes'
  <2>1. UNCHANGED <<call, listed, held, job>>
    BY DEF SubjectStep, CreateSubject, UpdateSubject, DeleteEnrollments,
           DeleteSubjectRow, FindStudent, Enroll, FindEnrolled, Unenroll
  <2>2. \E l \in Labels : at' = [at EXCEPT ![r] = l]
    BY DEF SubjectStep, CreateSubject, UpdateSubject, DeleteEnrollments,
           DeleteSubjectRow, FindStudent, Enroll, FindEnrolled, Unenroll, Labels
  <2> QED
    BY <2>1, <2>2 DEF ActorTypes
<1>2. RowTypes'
  <2> USE DEF RowTypes
  <2>1. CASE CreateSubject(r)  BY <2>1 DEF CreateSubject, Nodes
  <2>2. CASE UpdateSubject(r)
    <3>1. Subject(r) \in born /\ Subject(r) \notin Lectures
      BY <2>2 DEF UpdateSubject, Placed, Routed, Serves, Checked, Subject
    <3> QED
      BY <2>2, <3>1 DEF UpdateSubject
  <2>3. CASE DeleteEnrollments(r)  BY <2>3 DEF DeleteEnrollments, Removed
  <2>4. CASE DeleteSubjectRow(r)  BY <2>4 DEF DeleteSubjectRow, Removed
  <2>5. CASE FindStudent(r)  BY <2>5 DEF FindStudent
  <2>6. CASE Enroll(r)
    <3>1. <<Subject(r), On(r)>> \in Pairs
      BY <2>6 DEF Enroll, Placed, Routed, Serves, Subject, On, Pairs
    <3> QED
      BY <2>6, <3>1, WroteType DEF Enroll
  <2>7. CASE FindEnrolled(r)  BY <2>7 DEF FindEnrolled
  <2>8. CASE Unenroll(r)  BY <2>8 DEF Unenroll, Removed
  <2> QED
    BY <2>1, <2>2, <2>3, <2>4, <2>5, <2>6, <2>7, <2>8 DEF SubjectStep
<1> QED
  BY <1>1, <1>2

LEMMA PlanTypes ==
  ASSUME TreeTypeOK, NEW r \in Requests, Placed(r), PlanStep(r)
  PROVE  TreeTypeOK'
<1> USE TypeParts
<1>1. ActorTypes'
  <2>1. \E l \in Labels : at' = [at EXCEPT ![r] = l]
    BY DEF PlanStep, CreatePlan, UpdatePlan, ListLectures, DeletePlanVersions,
           DeletePlanLectures, DeletePlanRow, CreateLecture, QueueJob,
           EditLecture, SaveEdit, DeleteVersions, DeleteLectureRow, Labels
  <2>2. UNCHANGED <<held, job>>
    BY DEF PlanStep, CreatePlan, UpdatePlan, ListLectures, DeletePlanVersions,
           DeletePlanLectures, DeletePlanRow, CreateLecture, QueueJob,
           EditLecture, SaveEdit, DeleteVersions, DeleteLectureRow
  <2>3. listed' \in [Requests -> SUBSET Lectures]
    <3>1. CASE ListLectures(r)
      BY <3>1 DEF ListLectures, ActorTypes, LecturesOf
    <3> QED
      BY <3>1 DEF PlanStep, CreatePlan, UpdatePlan, DeletePlanVersions,
           DeletePlanLectures, DeletePlanRow, CreateLecture, QueueJob,
           EditLecture, SaveEdit, DeleteVersions, DeleteLectureRow, ActorTypes
  <2>4. call' \in [Requests -> Call \cup {NoCall}]
    <3>1. CASE CreateLecture(r)
      <4>1. PICK l \in Lectures : call' = [call EXCEPT ![r].on = l]
        BY <3>1 DEF CreateLecture, LecturesOf
      <4>2. call[r] \in Call
        BY <3>1 DEF CreateLecture, Placed, Serves, ActorTypes, NoCall
      <4>3. [call[r] EXCEPT !.on = l] \in Call
        BY <4>2 DEF Call, Nodes
      <4> QED
        BY <4>1, <4>3 DEF ActorTypes
    <3> QED
      BY <3>1 DEF PlanStep, CreatePlan, UpdatePlan, ListLectures, DeletePlanVersions,
           DeletePlanLectures, DeletePlanRow, QueueJob,
           EditLecture, SaveEdit, DeleteVersions, DeleteLectureRow, ActorTypes
  <2> QED
    BY <2>1, <2>2, <2>3, <2>4 DEF ActorTypes
<1>2. RowTypes'
  <2> USE DEF RowTypes
  <2>1. /\ at[r] \in {"updatePlan", "planRow"} => Plan(r) \in born /\ Plan(r) \notin Lectures
        /\ at[r] \in {"queueJob", "editLecture", "lectureSave"} => On(r) \in Lectures \cap born
    BY DEF Placed, Routed, Serves, Checked, Plan, On, LecturesOf, Filled
  <2>2. CASE CreatePlan(r)  BY <2>2 DEF CreatePlan, Nodes
  <2>3. CASE UpdatePlan(r)  BY <2>1, <2>3 DEF UpdatePlan
  <2>4. CASE ListLectures(r)  BY <2>4 DEF ListLectures
  <2>5. CASE DeletePlanVersions(r)  BY <2>5 DEF DeletePlanVersions, Removed
  <2>6. CASE DeletePlanLectures(r)  BY <2>6 DEF DeletePlanLectures, Removed
  <2>7. CASE DeletePlanRow(r)  BY <2>7 DEF DeletePlanRow, Removed
  <2>8. CASE CreateLecture(r)
    BY <2>8, WroteType DEF CreateLecture, LecturesOf, Nodes
  <2>9. CASE QueueJob(r)  BY <2>1, <2>9 DEF QueueJob
  <2>10. CASE EditLecture(r)
    <3>1. On(r) \in Filled /\ Content(On(r)) \in Contents
      BY <2>1, <2>10 DEF EditLecture, Filled, Contents
    <3> QED
      BY <2>10, <3>1, WroteType DEF EditLecture
  <2>11. CASE SaveEdit(r)  BY <2>1, <2>11, WroteType DEF SaveEdit
  <2>12. CASE DeleteVersions(r)  BY <2>12 DEF DeleteVersions, Removed
  <2>13. CASE DeleteLectureRow(r)  BY <2>13 DEF DeleteLectureRow, Removed
  <2> QED
    BY <2>2, <2>3, <2>4, <2>5, <2>6, <2>7, <2>8, <2>9, <2>10, <2>11, <2>12,
       <2>13 DEF PlanStep
<1> QED
  BY <1>1, <1>2

LEMMA ChatTypes ==
  ASSUME TreeTypeOK, NEW r \in Requests, Placed(r), ChatStep(r)
  PROVE  TreeTypeOK'
<1> USE TypeParts
<1>1. TitleOrQuestion(held[r]) \in Titles /\ held[r] \in Titles
  BY DEF TitleOrQuestion, ActorTypes, Titles
<1>2. ActorTypes'
  <2>1. UNCHANGED <<call, listed, job>>
    BY DEF ChatStep, CreateSession, AskQuestion, SaveQuestion, StoreAnswer,
           SaveAnswer, FindQuestion, SaveTitle, DeleteMessages,
           DeleteSessionRow, SavesSession
  <2>2. \E l \in Labels : at' = [at EXCEPT ![r] = l]
    BY DEF ChatStep, CreateSession, AskQuestion, SaveQuestion, StoreAnswer,
           SaveAnswer, FindQuestion, SaveTitle, DeleteMessages,
           DeleteSessionRow, SavesSession, Labels
  <2>3. UNCHANGED held \/ \E t \in Titles : held' = [held EXCEPT ![r] = t]
    BY <1>1 DEF ChatStep, CreateSession, AskQuestion, SaveQuestion,
           StoreAnswer, SaveAnswer, FindQuestion, SaveTitle, DeleteMessages,
           DeleteSessionRow, SavesSession, Titles
  <2> QED
    BY <2>1, <2>2, <2>3 DEF ActorTypes
<1>3. RowTypes'
  <2> USE DEF RowTypes
  <2>1. at[r] \in {"ask", "askSave", "answer", "answerSave", "titleSave"} =>
          On(r) \in Sessions \cap born /\ On(r) \notin Lectures
    BY DEF Placed, Routed, Serves, Checked, On
  <2>2. On(r) \in Sessions => On(r) \in Filled /\ Content(On(r)) \in Contents
    BY DEF Filled, Contents
  <2>3. CASE CreateSession(r)  BY <2>3 DEF CreateSession, Nodes
  <2>4. CASE AskQuestion(r)
    BY <2>1, <2>2, <2>4, WroteType DEF AskQuestion
  <2>5. CASE SaveQuestion(r)
    BY <1>1, <2>1, <2>5 DEF SaveQuestion, SavesSession
  <2>6. CASE StoreAnswer(r)
    BY <2>1, <2>2, <2>6, WroteType DEF StoreAnswer
  <2>7. CASE SaveAnswer(r)
    BY <1>1, <2>1, <2>7 DEF SaveAnswer, SavesSession
  <2>8. CASE FindQuestion(r)  BY <2>8 DEF FindQuestion
  <2>9. CASE SaveTitle(r)  BY <2>1, <2>9 DEF SaveTitle, SavesSession, Titles
  <2>10. CASE DeleteMessages(r)  BY <2>10 DEF DeleteMessages, Removed
  <2>11. CASE DeleteSessionRow(r)  BY <2>11 DEF DeleteSessionRow, Removed
  <2> QED
    BY <2>3, <2>4, <2>5, <2>6, <2>7, <2>8, <2>9, <2>10, <2>11 DEF ChatStep
<1> QED
  BY <1>2, <1>3

LEMMA JobTypes ==
  ASSUME TreeTypeOK, JobsKnown, NEW w \in Workers, JobStep(w)
  PROVE  TreeTypeOK'
<1> USE TypeParts
<1>1. at[w] # "idle" => job[w] \in Lectures \cap born
  BY DEF JobsKnown
<1>2. ActorTypes'
  <2>1. UNCHANGED <<call, listed, held>>
    BY DEF JobStep, TakeJob, MarkGenerating, InsertVersion, JobError, Land
  <2>2. \E l \in Labels : at' = [at EXCEPT ![w] = l]
    BY DEF JobStep, TakeJob, MarkGenerating, InsertVersion, JobError, Land, Labels
  <2>3. UNCHANGED job \/ \E l \in Lectures : job' = [job EXCEPT ![w] = l]
    BY DEF JobStep, TakeJob, MarkGenerating, InsertVersion, JobError, Land, RowTypes
  <2> QED
    BY <2>1, <2>2, <2>3 DEF ActorTypes
<1>3. RowTypes'
  <2> USE DEF RowTypes
  <2>1. CASE TakeJob(w)  BY <2>1 DEF TakeJob
  <2>2. CASE MarkGenerating(w)  BY <1>1, <2>2, WroteType DEF MarkGenerating
  <2>3. CASE InsertVersion(w)
    <3>1. job[w] \in Filled /\ Content(job[w]) \in Contents
      BY <1>1, <2>3 DEF InsertVersion, Filled, Contents
    <3> QED
      BY <2>3, <3>1, WroteType DEF InsertVersion
  <2>4. CASE JobError(w)  BY <1>1, <2>4 DEF JobError
  <2>5. CASE Land(w)  BY <1>1, <2>5, WroteType DEF Land
  <2> QED
    BY <2>1, <2>2, <2>3, <2>4, <2>5 DEF JobStep
<1> QED
  BY <1>2, <1>3

LEMMA StepTypes == ASSUME TreeTypeOK, PlaceInv, [Next]_vars PROVE TreeTypeOK'
<1>1. ASSUME NEW a \in Requests \cup Workers, GiveUp(a) PROVE TreeTypeOK'
  BY <1>1 DEF GiveUp, TreeTypeOK, Labels
<1>2. CASE UNCHANGED vars
  BY <1>2 DEF vars, TreeTypeOK
<1> QED
  BY <1>1, <1>2, ArriveTypes, CheckTypes, SubjectTypes, PlanTypes, ChatTypes,
     JobTypes DEF Next, PlaceInv

LEMMA Places == Spec => [](TreeTypeOK /\ PlaceInv)
BY InitTree, StepTypes, StepPlaced, PTL DEF Spec

\* The model's data stay within their types; in particular what a save may
\* bring back is only ever a row that was inserted once.
THEOREM TypeCorrect == Spec => []TreeTypeOK
BY Places, PTL

-----------------------------------------------------------------------------
(* Who changes what. *)

\* The owner of a subject may change everything of its planner.
LEMMA OwnedBelow ==
  ASSUME NEW u, NEW s \in Subjects, Owns(u, s)
  PROVE  /\ MayChange(u, s)
         /\ \A p \in Plans : Parent[p] = s =>
              MayChange(u, p) /\ \A l \in LecturesOf(p) : MayChange(u, l)
<1>1. MayChange(u, s)
  BY DEF MayChange, SubjectOf
<1>2. ASSUME NEW p \in Plans, Parent[p] = s PROVE MayChange(u, p)
  BY <1>2 DEF MayChange, SubjectOf, Filled
<1>3. ASSUME NEW p \in Plans, Parent[p] = s, NEW l \in LecturesOf(p)
      PROVE  MayChange(u, l)
  BY <1>3 DEF MayChange, SubjectOf, LecturesOf, Filled
<1> QED
  BY <1>1, <1>2, <1>3

\* What a request changes, of the rows and of the enrollments.
ByOwner(r) ==
  /\ \A x \in Changed(rows, rows') \cup Changed(filled, filled')
                \cup Changed(queue, queue') : MayChange(User(r), x)
  /\ \A e \in Changed(enrolled, enrolled') : Owns(User(r), e[1])

LEMMA SubjectOwners ==
  ASSUME TreeTypeOK, NEW r \in Requests, Placed(r), SubjectStep(r)
  PROVE  ByOwner(r)
<1> USE DEF ByOwner, Changed, Placed, Routed, Serves, Checked
<1>1. CASE CreateSubject(r)
  BY <1>1 DEF CreateSubject, MayChange, SubjectOf, Owns
<1>2. CASE UpdateSubject(r)
  BY <1>2, OwnedBelow DEF UpdateSubject, Subject
<1>3. CASE DeleteEnrollments(r)
  BY <1>3 DEF DeleteEnrollments, Subject
<1>4. CASE DeleteSubjectRow(r)
  BY <1>4, OwnedBelow DEF DeleteSubjectRow, Subject
<1>5. CASE Enroll(r)
  BY <1>5 DEF Enroll, Subject
<1>6. CASE Unenroll(r)
  BY <1>6 DEF Unenroll, Subject
<1>7. CASE FindStudent(r) \/ FindEnrolled(r)
  BY <1>7 DEF FindStudent, FindEnrolled
<1> QED
  BY <1>1, <1>2, <1>3, <1>4, <1>5, <1>6, <1>7 DEF SubjectStep

LEMMA PlanOwners ==
  ASSUME TreeTypeOK, NEW r \in Requests, Placed(r), PlanStep(r)
  PROVE  ByOwner(r)
<1> USE DEF ByOwner, Changed
<1>1. at[r] # "createPlan" => call[r].op \in PlanOps
  BY DEF Placed, Serves, PlanStep, CreatePlan, UpdatePlan, ListLectures,
         DeletePlanVersions, DeletePlanLectures, DeletePlanRow, CreateLecture,
         QueueJob, EditLecture, SaveEdit, DeleteVersions, DeleteLectureRow
<1>2. Subject(r) \in Subjects /\ Owns(User(r), Subject(r))
  BY <1>1 DEF Placed, Routed, Serves, Checked, Subject, PlanStep, CreatePlan,
         UpdatePlan, ListLectures, DeletePlanVersions, DeletePlanLectures,
         DeletePlanRow, CreateLecture, QueueJob, EditLecture, SaveEdit,
         DeleteVersions, DeleteLectureRow
<1>3. at[r] # "createPlan" =>
        /\ MayChange(User(r), Plan(r))
        /\ \A l \in LecturesOf(Plan(r)) : MayChange(User(r), l)
  BY <1>1, <1>2, OwnedBelow
  DEF Placed, Routed, Checked, Plan, Subject, PlanStep, CreatePlan,
      UpdatePlan, ListLectures, DeletePlanVersions, DeletePlanLectures,
      DeletePlanRow, CreateLecture, QueueJob, EditLecture, SaveEdit,
      DeleteVersions, DeleteLectureRow
<1>4. at[r] \in {"queueJob", "editLecture", "lectureSave", "deleteLecture", "lectureRow"}
        => On(r) \in LecturesOf(Plan(r))
  BY DEF Placed, Routed, Serves, Checked, On, Plan, LecturesOf
<1>5. at[r] = "planVersions" => listed[r] \subseteq LecturesOf(Plan(r))
  BY DEF Placed, Checked
<1>6. CASE CreatePlan(r)  BY <1>2, <1>6, OwnedBelow DEF CreatePlan
<1>7. CASE UpdatePlan(r) \/ DeletePlanRow(r)
  BY <1>3, <1>7 DEF UpdatePlan, DeletePlanRow
<1>8. CASE ListLectures(r)  BY <1>8 DEF ListLectures
<1>9. CASE DeletePlanVersions(r)  BY <1>3, <1>5, <1>9 DEF DeletePlanVersions
<1>10. CASE DeletePlanLectures(r)  BY <1>3, <1>10 DEF DeletePlanLectures
<1>11. CASE CreateLecture(r)  BY <1>3, <1>11 DEF CreateLecture
<1>12. CASE QueueJob(r)  BY <1>3, <1>4, <1>12 DEF QueueJob
<1>13. CASE EditLecture(r) \/ SaveEdit(r)
  BY <1>3, <1>4, <1>13 DEF EditLecture, SaveEdit
<1>14. CASE DeleteVersions(r) \/ DeleteLectureRow(r)
  BY <1>3, <1>4, <1>14 DEF DeleteVersions, DeleteLectureRow
<1> QED
  BY <1>6, <1>7, <1>8, <1>9, <1>10, <1>11, <1>12, <1>13, <1>14 DEF PlanStep

LEMMA ChatOwners ==
  ASSUME TreeTypeOK, NEW r \in Requests, Placed(r), ChatStep(r)
  PROVE  ByOwner(r)
<1> USE DEF ByOwner, Changed
<1>1. CASE CreateSession(r)
  BY <1>1 DEF CreateSession, MayChange
<1>2. CASE ~CreateSession(r)
  <2>1. call[r].op \in OnSession /\ at[r] \notin {"idle", "done", "subject", "enrollment", "session"}
    BY <1>2 DEF Placed, Serves, ChatStep, AskQuestion, SaveQuestion,
           StoreAnswer, SaveAnswer, FindQuestion, SaveTitle, DeleteMessages,
           DeleteSessionRow, SavesSession
  <2>2. MayChange(User(r), On(r))
    BY <2>1 DEF Placed, Routed, Checked, MayChange, On, User
  <2>3. /\ Changed(rows, rows') \cup Changed(filled, filled') \subseteq {On(r)}
        /\ UNCHANGED <<enrolled, queue>>
    BY <1>2 DEF ChatStep, AskQuestion, SaveQuestion, StoreAnswer, SaveAnswer,
           FindQuestion, SaveTitle, DeleteMessages, DeleteSessionRow,
           SavesSession
  <2> QED
    BY <2>2, <2>3
<1> QED
  BY <1>1, <1>2

\* A request moves by a step of its own, and by no other.
LEMMA OwnStep ==
  ASSUME TreeTypeOK, PlaceInv, Next, NEW r \in Requests, at'[r] # at[r]
  PROVE  \/ Arrive(r) \/ CheckStep(r) \/ SubjectStep(r) \/ PlanStep(r)
         \/ ChatStep(r) \/ GiveUp(r)
<1>1. ASSUME NEW q \in Requests,
             Arrive(q) \/ CheckStep(q) \/ SubjectStep(q) \/ PlanStep(q) \/ ChatStep(q)
      PROVE  q = r
  BY <1>1, ArrivePlaced, CheckPlaced, SubjectPlaced, PlanPlaced, ChatPlaced
  DEF PlaceInv, OnlyMoves
<1>2. ASSUME NEW w \in Workers, JobStep(w) PROVE FALSE
  BY <1>2, JobPlaced DEF PlaceInv, OnlyMoves
<1>3. ASSUME NEW a \in Requests \cup Workers, GiveUp(a) PROVE a = r
  BY <1>3 DEF GiveUp, TreeTypeOK
<1> QED
  BY <1>1, <1>2, <1>3 DEF Next

\* A request changes only what its caller owns, however the ids of the path are
\* combined: the rows its checks have read are tied to each other by what no
\* step changes, so that what was owned when it was checked still is.
THEOREM OwnersAlone == Spec => OwnersOnly
<1>1. ASSUME TreeTypeOK, PlaceInv, Next, NEW r \in Requests, at'[r] # at[r]
      PROVE  ByOwner(r)
  <2>1. CASE Arrive(r) \/ CheckStep(r) \/ GiveUp(r)
    BY <2>1 DEF Arrive, CheckStep, FindLecture, FindPlan, FindOwnSubject,
           FindSubject, FindEnrollment, FindSession, GiveUp, ByOwner, Changed
  <2> QED
    BY <1>1, <2>1, OwnStep, SubjectOwners, PlanOwners, ChatOwners DEF PlaceInv
<1>2. TreeTypeOK /\ PlaceInv /\ [Next]_vars
        => [\A r \in Requests : at'[r] # at[r] => ByOwner(r)]_vars
  BY <1>1
<1> QED
  BY <1>2, Places, PTL DEF Spec, OwnersOnly, ByOwner

\* A generated title gives way to an ask only when the ask had read the session
\* before: an ask writes back the title of its copy, or the question where the
\* copy had none.
THEOREM TitlesKept == Spec => TitleKept
<1>1. ASSUME TreeTypeOK, PlaceInv, Next, NEW r \in Requests, at'[r] # at[r],
             call[r].op = "ask", title[On(r)] = "generated",
             title'[On(r)] # "generated"
      PROVE  held[r] # "generated"
  <2>1. CASE SaveQuestion(r) \/ SaveAnswer(r)
    BY <1>1, <2>1
    DEF SaveQuestion, SaveAnswer, SavesSession, TitleOrQuestion, TreeTypeOK
  <2>2. ~SaveTitle(r)
    BY <1>1 DEF SaveTitle, SavesSession, PlaceInv, Placed, Serves
  <2>3. ChatStep(r)
    <3>1. CASE Arrive(r) \/ CheckStep(r) \/ GiveUp(r)
      BY <1>1, <3>1 DEF Arrive, CheckStep, FindLecture, FindPlan,
             FindOwnSubject, FindSubject, FindEnrollment, FindSession, GiveUp
    <3>2. CASE SubjectStep(r)
      BY <1>1, <3>2 DEF SubjectStep, CreateSubject, UpdateSubject,
             DeleteEnrollments, DeleteSubjectRow, FindStudent, Enroll,
             FindEnrolled, Unenroll
    <3>3. CASE PlanStep(r)
      BY <1>1, <3>3 DEF PlanStep, CreatePlan, UpdatePlan, ListLectures,
             DeletePlanVersions, DeletePlanLectures, DeletePlanRow,
             CreateLecture, QueueJob, EditLecture, SaveEdit, DeleteVersions,
             DeleteLectureRow
    <3> QED
      BY <1>1, <3>1, <3>2, <3>3, OwnStep
  <2> QED
    BY <1>1, <2>1, <2>2, <2>3
    DEF ChatStep, CreateSession, AskQuestion, StoreAnswer, FindQuestion,
        DeleteMessages, DeleteSessionRow
<1>2. TreeTypeOK /\ PlaceInv /\ [Next]_vars
        => [\A r \in Requests :
              /\ at'[r] # at[r]
              /\ call[r].op = "ask"
              /\ title[On(r)] = "generated"
              /\ title'[On(r)] # "generated"
              => held[r] # "generated"]_vars
  BY <1>1
<1> QED
  BY <1>2, Places, PTL DEF Spec, TitleKept

-----------------------------------------------------------------------------
(* What a delete is about to leave. *)

\* What is left below x was written over its delete.
EmptyBut(x) == x \in filled => Content(x) \in overtaken

Leaves(r) ==
  /\ at[r] = "subjectRow" =>
       \A e \in enrolled : e[1] = Subject(r) => e \in overtaken
  /\ at[r] = "planVersions" => \A l \in LecturesOf(Plan(r)) \ listed[r] : EmptyBut(l)
  /\ at[r] = "planLectures" => \A l \in LecturesOf(Plan(r)) : EmptyBut(l)
  /\ at[r] = "planRow" => LecturesOf(Plan(r)) \cap rows \subseteq overtaken
  /\ at[r] \in {"lectureRow", "sessionRow"} => EmptyBut(On(r))

LeaveInv == OrphansWereOvertaken /\ \A r \in Requests : Leaves(r)

-----------------------------------------------------------------------------
(* What every step does to the rows. *)

\* What is under a delete that has begun is going.
LEMMA DoomedIsGoing ==
  ASSUME NEW r \in Requests
  PROVE  /\ at[r] = "subjectRow" => Going(Subject(r))
         /\ at[r] \in {"planVersions", "planLectures", "planRow"} =>
              Going(Plan(r)) /\ \A l \in LecturesOf(Plan(r)) : Going(l)
         /\ at[r] \in {"lectureRow", "sessionRow"} => Going(On(r))
BY DEF Going, Doomed

\* Something of S is overtaken when it is written below what is going, and
\* stays so until it is removed.
ContentsWatched ==
  \A x \in Filled :
    /\ x \in filled' \ filled /\ Going(x) => Content(x) \in overtaken'
    /\ x \in filled' /\ Content(x) \in overtaken => Content(x) \in overtaken'

LecturesWatched ==
  \A l \in Lectures :
    /\ l \in rows' \ rows => l \in overtaken' \/ ~Going(Parent[l])
    /\ l \in rows' /\ l \in overtaken => l \in overtaken'

PairsWatched ==
  \A e \in Pairs :
    /\ e \in enrolled' \ enrolled /\ Going(e[1]) => e \in overtaken'
    /\ e \in enrolled' /\ e \in overtaken => e \in overtaken'

\* A row goes by the last step of its delete, or with the plan above it.
RemovedBy(r, x) ==
  \/ at[r] = "subjectRow" /\ x = Subject(r)
  \/ at[r] = "planLectures" /\ x \in LecturesOf(Plan(r))
  \/ at[r] = "planRow" /\ x = Plan(r)
  \/ at[r] \in {"lectureRow", "sessionRow"} /\ x = On(r)

Effects ==
  /\ ContentsWatched /\ LecturesWatched /\ PairsWatched
  /\ \A x \in rows \ rows' : \E r \in Requests : RemovedBy(r, x)

LEMMA StillEffects ==
  ASSUME UNCHANGED <<rows, filled, enrolled, overtaken>> PROVE Effects
BY DEF Effects, ContentsWatched, LecturesWatched, PairsWatched

LEMMA InsertEffects ==
  ASSUME NEW r, NEW label, NEW S, S \cap Lectures = {}, Inserts(r, label, S)
  PROVE  Effects
BY DEF Effects, ContentsWatched, LecturesWatched, PairsWatched

LEMMA SaveEffects ==
  ASSUME NEW a, NEW label, NEW x, NEW next, Saves(a, label, x, next)
  PROVE  Effects
BY DEF Effects, ContentsWatched, LecturesWatched, PairsWatched, Wrote, Going

LEMMA DeleteEffects ==
  ASSUME NEW r \in Requests, NEW label, NEW S, NEW next, Deletes(r, label, S, next),
         S \subseteq Nodes, \A x \in S : RemovedBy(r, x)
  PROVE  Effects
<1>1. ContentsWatched
  BY DEF ContentsWatched, Removed, Contents
<1>2. LecturesWatched
  BY DEF LecturesWatched, Removed
<1>3. PairsWatched
  BY DEF PairsWatched, Removed
<1> QED
  BY <1>1, <1>2, <1>3 DEF Effects

LEMMA FillEffects ==
  ASSUME NEW a, NEW label, NEW x, NEW next, Fills(a, label, x, next)
  PROVE  Effects
BY DEF Effects, ContentsWatched, LecturesWatched, PairsWatched, Wrote

LEMMA EmptyEffects ==
  ASSUME NEW r, NEW label, NEW S \in SUBSET Filled, NEW next, Empties(r, label, S, next)
  PROVE  Effects
<1>1. ASSUME NEW x \in Filled, x \notin S PROVE Content(x) \notin {Content(y) : y \in S}
  BY <1>1 DEF Content
<1>2. ContentsWatched
  BY <1>1 DEF ContentsWatched, Removed
<1>3. {Content(y) : y \in S} \subseteq Contents
  BY DEF Contents
<1>4. LecturesWatched
  BY <1>3 DEF LecturesWatched, Removed, Nodes
<1>5. PairsWatched
  BY <1>3 DEF PairsWatched, Removed
<1> QED
  BY <1>2, <1>4, <1>5 DEF Effects

LEMMA UnenrollEffects ==
  ASSUME NEW r, NEW label, NEW S \in SUBSET Pairs, NEW next,
         Unenrolls(r, label, S, next)
  PROVE  Effects
<1>1. ContentsWatched
  BY DEF ContentsWatched, Removed, Contents
<1>2. LecturesWatched
  BY DEF LecturesWatched, Removed, Nodes
<1>3. PairsWatched
  BY DEF PairsWatched, Removed
<1> QED
  BY <1>1, <1>2, <1>3 DEF Effects

LEMMA SubjectEffects ==
  ASSUME TreeTypeOK, NEW r \in Requests, Placed(r), SubjectStep(r)
  PROVE  Effects
<1>1. CASE CreateSubject(r)
  <2> DEFINE S == {s \in Subjects : Keeper[s] = User(r)}
  <2>1. S \cap Lectures = {} /\ Inserts(r, "createSubject", S)
    BY <1>1 DEF CreateSubject
  <2> HIDE DEF S
  <2> QED
    BY <2>1, InsertEffects
<1>2. CASE UpdateSubject(r)
  BY <1>2, SaveEffects DEF UpdateSubject
<1>3. CASE DeleteEnrollments(r)
  BY <1>3, UnenrollEffects DEF DeleteEnrollments
<1>4. CASE DeleteSubjectRow(r)
  <2>1. Subject(r) \in Nodes /\ RemovedBy(r, Subject(r))
    BY <1>4 DEF DeleteSubjectRow, Placed, Routed, Serves, Subject, Nodes, RemovedBy
  <2> QED
    BY <1>4, <2>1, DeleteEffects DEF DeleteSubjectRow
<1>5. CASE FindStudent(r) \/ FindEnrolled(r)
  BY <1>5, StillEffects DEF FindStudent, FindEnrolled
<1>6. CASE Enroll(r)
  BY <1>6 DEF Enroll, Effects, ContentsWatched, LecturesWatched, PairsWatched, Wrote
<1>7. CASE Unenroll(r)
  <2>1. <<Subject(r), On(r)>> \in Pairs
    BY <1>7 DEF Unenroll, Placed, Routed, Serves, Subject, On, Pairs
  <2> QED
    BY <1>7, <2>1, UnenrollEffects DEF Unenroll
<1> QED
  BY <1>1, <1>2, <1>3, <1>4, <1>5, <1>6, <1>7 DEF SubjectStep

LEMMA PlanEffects ==
  ASSUME TreeTypeOK, NEW r \in Requests, Placed(r), PlanStep(r)
  PROVE  Effects
<1>1. CASE CreatePlan(r)
  <2> DEFINE S == {p \in Plans : Parent[p] = Subject(r)}
  <2>1. S \cap Lectures = {} /\ Inserts(r, "createPlan", S)
    BY <1>1 DEF CreatePlan
  <2> HIDE DEF S
  <2> QED
    BY <2>1, InsertEffects
<1>2. CASE UpdatePlan(r) \/ SaveEdit(r)
  BY <1>2, SaveEffects DEF UpdatePlan, SaveEdit
<1>3. CASE ListLectures(r) \/ QueueJob(r)
  BY <1>3, StillEffects DEF ListLectures, QueueJob
<1>4. CASE DeletePlanVersions(r)
  <2>1. listed[r] \in SUBSET Filled
    BY DEF TreeTypeOK, Filled
  <2> QED
    BY <1>4, <2>1, EmptyEffects DEF DeletePlanVersions
<1>5. CASE DeletePlanLectures(r)
  <2>1. /\ LecturesOf(Plan(r)) \subseteq Nodes
        /\ \A x \in LecturesOf(Plan(r)) : RemovedBy(r, x)
    BY <1>5 DEF DeletePlanLectures, LecturesOf, Nodes, RemovedBy
  <2> QED
    BY <1>5, <2>1, DeleteEffects DEF DeletePlanLectures
<1>6. CASE DeletePlanRow(r)
  <2>1. Plan(r) \in Nodes /\ RemovedBy(r, Plan(r))
    BY <1>6 DEF DeletePlanRow, Placed, Routed, Serves, Plan, Nodes, RemovedBy
  <2> QED
    BY <1>6, <2>1, DeleteEffects DEF DeletePlanRow
<1>7. CASE CreateLecture(r)
  BY <1>7 DEF CreateLecture, LecturesOf, Effects, ContentsWatched,
              LecturesWatched, PairsWatched, Wrote
<1>8. CASE EditLecture(r)
  BY <1>8, FillEffects DEF EditLecture
<1>9. CASE DeleteVersions(r)
  <2>1. {On(r)} \in SUBSET Filled
    BY <1>9 DEF DeleteVersions, Placed, Routed, Serves, On, Filled
  <2> QED
    BY <1>9, <2>1, EmptyEffects DEF DeleteVersions
<1>10. CASE DeleteLectureRow(r)
  <2>1. On(r) \in Nodes /\ RemovedBy(r, On(r))
    BY <1>10 DEF DeleteLectureRow, Placed, Routed, Serves, On, Nodes, RemovedBy
  <2> QED
    BY <1>10, <2>1, DeleteEffects DEF DeleteLectureRow
<1> QED
  BY <1>1, <1>2, <1>3, <1>4, <1>5, <1>6, <1>7, <1>8, <1>9, <1>10 DEF PlanStep

LEMMA ChatEffects ==
  ASSUME TreeTypeOK, NEW r \in Requests, Placed(r), ChatStep(r)
  PROVE  Effects
<1>1. CASE CreateSession(r)
  <2> DEFINE S == {c \in Sessions : Parent[c] = Subject(r) /\ Keeper[c] = User(r)}
  <2>1. S \cap Lectures = {} /\ Inserts(r, "createSession", S)
    BY <1>1 DEF CreateSession
  <2> HIDE DEF S
  <2> QED
    BY <2>1, InsertEffects
<1>2. CASE SaveQuestion(r) \/ SaveAnswer(r) \/ SaveTitle(r)
  <2>1. ASSUME NEW label, NEW t, NEW next, SavesSession(r, label, t, next)
        PROVE  Effects
    BY <2>1, SaveEffects DEF SavesSession
  <2> QED
    BY <1>2, <2>1 DEF SaveQuestion, SaveAnswer, SaveTitle
<1>3. CASE AskQuestion(r) \/ StoreAnswer(r)
  BY <1>3, FillEffects DEF AskQuestion, StoreAnswer
<1>4. CASE FindQuestion(r)
  BY <1>4, StillEffects DEF FindQuestion
<1>5. CASE DeleteMessages(r)
  <2>1. {On(r)} \in SUBSET Filled
    BY <1>5 DEF DeleteMessages, Placed, Routed, Serves, On, Filled
  <2> QED
    BY <1>5, <2>1, EmptyEffects DEF DeleteMessages
<1>6. CASE DeleteSessionRow(r)
  <2>1. On(r) \in Nodes /\ RemovedBy(r, On(r))
    BY <1>6 DEF DeleteSessionRow, Placed, Routed, Serves, On, Nodes, RemovedBy
  <2> QED
    BY <1>6, <2>1, DeleteEffects DEF DeleteSessionRow
<1> QED
  BY <1>1, <1>2, <1>3, <1>4, <1>5, <1>6 DEF ChatStep

LEMMA StepEffects == ASSUME TreeTypeOK, PlaceInv, [Next]_vars PROVE Effects
<1>1. ASSUME NEW r \in Requests, Arrive(r) \/ CheckStep(r) PROVE Effects
  BY <1>1, StillEffects
  DEF Arrive, CheckStep, FindLecture, FindPlan, FindOwnSubject, FindSubject,
      FindEnrollment, FindSession
<1>2. ASSUME NEW w \in Workers, JobStep(w) PROVE Effects
  BY <1>2, StillEffects, SaveEffects, FillEffects
  DEF JobStep, TakeJob, MarkGenerating, InsertVersion, JobError, Land
<1>3. ASSUME NEW a \in Requests \cup Workers, GiveUp(a) PROVE Effects
  BY <1>3, StillEffects DEF GiveUp
<1>4. CASE UNCHANGED vars
  BY <1>4, StillEffects DEF vars
<1> QED
  BY <1>1, <1>2, <1>3, <1>4, SubjectEffects, PlanEffects, ChatEffects
  DEF Next, PlaceInv

-----------------------------------------------------------------------------
(* What a delete leaves. *)

\* Nothing new comes unwatched below a row that is going.
LEMMA EmptyStays ==
  ASSUME Effects, NEW x \in Filled, Going(x), EmptyBut(x)
  PROVE  EmptyBut(x)'
BY DEF Effects, ContentsWatched, EmptyBut, Content

\* A request that does not move keeps what its delete promises.
LEMMA OthersLeave ==
  ASSUME TreeTypeOK', PlaceInv, Effects, NEW q \in Requests, Leaves(q),
         at'[q] = at[q], call'[q] = call[q], listed'[q] = listed[q]
  PROVE  Leaves(q)'
<1> USE DoomedIsGoing
<1>1. UNCHANGED <<Subject(q), Plan(q), On(q)>>
  BY DEF Subject, Plan, On
<1>2. CASE at[q] = "subjectRow"
  <2>1. ASSUME NEW e \in enrolled', e[1] = Subject(q) PROVE e \in overtaken'
    BY <1>2, <2>1 DEF Leaves, Effects, PairsWatched, TreeTypeOK
  <2> QED
    BY <1>1, <1>2, <2>1 DEF Leaves
<1>3. CASE at[q] \in {"planVersions", "planLectures"}
  <2>1. LecturesOf(Plan(q)) \subseteq Filled
    BY DEF LecturesOf, Filled
  <2>2. \A l \in LecturesOf(Plan(q)) : EmptyBut(l) => EmptyBut(l)'
    BY <1>3, <2>1, EmptyStays
  <2> QED
    BY <1>1, <1>3, <2>2 DEF Leaves
<1>4. CASE at[q] = "planRow"
  <2>1. ASSUME NEW l \in LecturesOf(Plan(q)), l \in rows' PROVE l \in overtaken'
    <3>1. l \in Lectures /\ Going(Parent[l])
      BY <1>4 DEF LecturesOf
    <3> QED
      BY <1>4, <2>1, <3>1 DEF Leaves, Effects, LecturesWatched
  <2> QED
    BY <1>1, <1>4, <2>1 DEF Leaves
<1>5. CASE at[q] \in {"lectureRow", "sessionRow"}
  <2>1. On(q) \in Filled
    BY <1>5 DEF PlaceInv, Placed, Routed, Serves, On, Filled
  <2> QED
    BY <1>1, <1>5, <2>1, EmptyStays DEF Leaves
<1> QED
  BY <1>2, <1>3, <1>4, <1>5 DEF Leaves

\* An orphan was there before, or its parent goes now: then the delete that
\* removes the parent had emptied it.
LEMMA StepOrphans ==
  ASSUME TreeTypeOK, TreeTypeOK', PlaceInv, LeaveInv, Effects
  PROVE  OrphansWereOvertaken'
<1> USE DEF LeaveInv, Effects
<1>1. ASSUME NEW l \in Lectures, l \in rows', Parent[l] \notin rows'
      PROVE  l \in overtaken'
  <2>1. CASE l \notin rows
    <3>0. ~Going(Parent[l]) => Parent[l] \in rows
      BY DEF Going
    <3>1. l \in overtaken' \/ (Parent[l] \in rows \ rows' /\ ~Going(Parent[l]))
      BY <1>1, <2>1, <3>0 DEF LecturesWatched
    <3>2. ASSUME Parent[l] \in rows \ rows', ~Going(Parent[l]) PROVE FALSE
      BY <3>2, DoomedIsGoing DEF RemovedBy, LecturesOf, Filled
    <3> QED
      BY <3>1, <3>2
  <2>2. CASE l \in rows /\ Parent[l] \notin rows
    BY <1>1, <2>2 DEF LecturesWatched, OrphansWereOvertaken, Orphans
  <2>3. CASE l \in rows /\ Parent[l] \in rows
    <3>1. PICK r \in Requests : RemovedBy(r, Parent[l])
      BY <1>1, <2>3
    <3>2. at[r] = "planRow" /\ Parent[l] = Plan(r)
      BY <3>1 DEF RemovedBy, LecturesOf, Filled, PlaceInv, Placed, Routed,
                  Serves, Subject, On
    <3>3. l \in overtaken
      BY <2>3, <3>2 DEF Leaves, LecturesOf
    <3> QED
      BY <1>1, <3>3 DEF LecturesWatched
  <2> QED
    BY <2>1, <2>2, <2>3
<1>2. ASSUME NEW x \in filled', x \notin rows' PROVE Content(x) \in overtaken'
  <2>1. x \in Filled
    BY <1>2 DEF TreeTypeOK
  <2>2. CASE x \notin rows
    <3>1. Going(x) /\ EmptyBut(x)
      BY <2>2 DEF Going, EmptyBut, OrphansWereOvertaken, Orphans
    <3> QED
      BY <1>2, <2>1, <3>1, EmptyStays DEF EmptyBut, Content
  <2>3. CASE x \in rows
    <3>1. PICK r \in Requests : RemovedBy(r, x)
      BY <1>2, <2>3
    <3>2. x \notin Subjects /\ x \notin Plans
      BY <2>1 DEF Filled
    <3>3. \/ at[r] = "planLectures" /\ x \in LecturesOf(Plan(r))
          \/ at[r] \in {"lectureRow", "sessionRow"} /\ x = On(r)
      BY <3>1, <3>2 DEF RemovedBy, PlaceInv, Placed, Routed, Serves, Subject, Plan
    <3>4. Going(x) /\ EmptyBut(x)
      BY <3>3, DoomedIsGoing DEF Leaves
    <3> QED
      BY <1>2, <2>1, <3>4, EmptyStays DEF EmptyBut, Content
  <2> QED
    BY <2>2, <2>3
<1>3. ASSUME NEW e \in enrolled', e[1] \notin rows' PROVE e \in overtaken'
  <2>1. e \in Pairs /\ e[1] \in Subjects
    BY <1>3 DEF TreeTypeOK, Pairs
  <2>2. CASE e[1] \notin rows
    <3>1. Going(e[1])
      BY <2>2 DEF Going
    <3>2. e \in enrolled => e \in overtaken
      BY <2>2 DEF OrphansWereOvertaken, Orphans
    <3> QED
      BY <1>3, <2>1, <3>1, <3>2 DEF PairsWatched
  <2>3. CASE e[1] \in rows
    <3>1. PICK r \in Requests : RemovedBy(r, e[1])
      BY <1>3, <2>3
    <3>2. at[r] = "subjectRow" /\ e[1] = Subject(r)
      BY <2>1, <3>1 DEF RemovedBy, LecturesOf, PlaceInv, Placed, Routed, Serves,
                        Plan, On
    <3>3. Going(e[1]) /\ (e \in enrolled => e \in overtaken)
      BY <3>2, DoomedIsGoing DEF Leaves
    <3> QED
      BY <1>3, <2>1, <3>3 DEF PairsWatched
  <2> QED
    BY <2>2, <2>3
<1> QED
  BY <1>1, <1>2, <1>3 DEF OrphansWereOvertaken, Orphans

\* A delete has emptied a row when it comes to remove it.
LEMMA OwnLeaves ==
  ASSUME TreeTypeOK, TreeTypeOK', PlaceInv, PlaceInv', LeaveInv, Effects, Next,
         NEW r \in Requests, at'[r] # at[r]
  PROVE  Leaves(r)'
<1> USE DEF LeaveInv
<1>1. CASE at'[r] \notin {"subjectRow", "planVersions", "planLectures", "planRow",
                         "lectureRow", "sessionRow"}
  BY <1>1 DEF Leaves
<1>2. CASE DeleteEnrollments(r)
  <2>1. /\ at'[r] = "subjectRow" /\ UNCHANGED Subject(r)
        /\ enrolled' = enrolled \ {e \in Pairs : e[1] = Subject(r)}
    BY <1>2 DEF DeleteEnrollments, TreeTypeOK, Subject
  <2> QED
    BY <2>1 DEF Leaves, TreeTypeOK
<1>3. CASE ListLectures(r)
  <2>1. /\ at'[r] \in {"planVersions", "planRow"} /\ UNCHANGED Plan(r)
        /\ listed'[r] = LecturesOf(Plan(r)) \cap rows
        /\ at'[r] = "planRow" => LecturesOf(Plan(r)) \cap rows = {}
        /\ UNCHANGED <<rows, filled, overtaken>>
    BY <1>3 DEF ListLectures, TreeTypeOK, Plan
  <2>2. \A l \in LecturesOf(Plan(r)) \ rows : EmptyBut(l) /\ EmptyBut(l)'
    BY <2>1 DEF OrphansWereOvertaken, Orphans, EmptyBut, Content
  <2> QED
    BY <2>1, <2>2 DEF Leaves
<1>4. CASE DeletePlanVersions(r)
  <2>1. /\ at[r] = "planVersions" /\ at'[r] = "planLectures" /\ UNCHANGED Plan(r)
        /\ filled' = filled \ listed[r]
    BY <1>4 DEF DeletePlanVersions, TreeTypeOK, Plan
  <2>2. LecturesOf(Plan(r)) \subseteq Filled
    BY DEF LecturesOf, Filled
  <2>3. ASSUME NEW l \in LecturesOf(Plan(r)) PROVE EmptyBut(l)'
    <3>1. CASE l \in listed[r]
      BY <2>1, <3>1 DEF EmptyBut
    <3>2. CASE l \notin listed[r]
      BY <2>1, <2>2, <3>2, EmptyStays, DoomedIsGoing DEF Leaves
    <3> QED
      BY <3>1, <3>2
  <2> QED
    BY <2>1, <2>3 DEF Leaves
<1>5. CASE DeletePlanLectures(r)
  <2>1. /\ at'[r] = "planRow" /\ UNCHANGED Plan(r)
        /\ rows' = rows \ LecturesOf(Plan(r))
    BY <1>5 DEF DeletePlanLectures, TreeTypeOK, Plan
  <2> QED
    BY <2>1 DEF Leaves
<1>6. CASE DeleteVersions(r) \/ DeleteMessages(r)
  <2>1. /\ at'[r] \in {"lectureRow", "sessionRow"} /\ UNCHANGED On(r)
        /\ filled' = filled \ {On(r)}
    BY <1>6 DEF DeleteVersions, DeleteMessages, TreeTypeOK, On
  <2> QED
    BY <2>1 DEF Leaves, EmptyBut
<1>7. CASE at'[r] \in {"subjectRow", "planVersions", "planLectures", "planRow",
                      "lectureRow", "sessionRow"}
  <2>1. CASE Arrive(r) \/ CheckStep(r) \/ GiveUp(r)
    <3>1. at'[r] \in {"done", "idle", "lecture", "plan", "subject", "enrollment", "session"} \cup Ops
      BY <2>1 DEF Arrive, FirstCheck, CheckStep, FindLecture, FindPlan,
             FindOwnSubject, FindSubject, FindEnrollment, FindSession, Admitted,
             GiveUp, TreeTypeOK, Call, NoCall
    <3> QED
      BY <1>7, <3>1
  <2>2. CASE SubjectStep(r)
    BY <1>2, <1>7, <2>2 DEF SubjectStep, CreateSubject, UpdateSubject,
           DeleteSubjectRow, FindStudent, Enroll, FindEnrolled, Unenroll, TreeTypeOK
  <2>3. CASE PlanStep(r)
    BY <1>3, <1>4, <1>5, <1>6, <1>7, <2>3
    DEF PlanStep, CreatePlan, UpdatePlan, DeletePlanRow, CreateLecture, QueueJob,
        EditLecture, SaveEdit, DeleteLectureRow, TreeTypeOK
  <2>4. CASE ChatStep(r)
    BY <1>6, <1>7, <2>4
    DEF ChatStep, CreateSession, AskQuestion, SaveQuestion, StoreAnswer,
        SaveAnswer, FindQuestion, SaveTitle, DeleteSessionRow, SavesSession,
        TreeTypeOK
  <2> QED
    BY <2>1, <2>2, <2>3, <2>4, OwnStep
<1> QED
  BY <1>1, <1>7

\* A request that does not move has the same call and the same list.
LEMMA StandStill ==
  ASSUME TreeTypeOK, PlaceInv, [Next]_vars, NEW r \in Requests, at'[r] = at[r]
  PROVE  call'[r] = call[r] /\ listed'[r] = listed[r]
<1>1. ASSUME NEW q \in Requests,
             Arrive(q) \/ CheckStep(q) \/ SubjectStep(q) \/ PlanStep(q) \/ ChatStep(q)
      PROVE  call'[r] = call[r] /\ listed'[r] = listed[r]
  <2>1. OnlyMoves(q)
    BY <1>1, ArrivePlaced, CheckPlaced, SubjectPlaced, PlanPlaced, ChatPlaced
    DEF PlaceInv
  <2>2. ~Arrive(r)
    BY DEF Arrive, FirstCheck, TreeTypeOK
  <2>3. ~CreateLecture(r) /\ ~ListLectures(r)
    BY DEF CreateLecture, ListLectures, TreeTypeOK
  <2>4. CASE q = r
    <3>1. CASE CheckStep(r) \/ SubjectStep(r)
      BY <3>1 DEF CheckStep, FindLecture, FindPlan, FindOwnSubject, FindSubject,
             FindEnrollment, FindSession, SubjectStep, CreateSubject,
             UpdateSubject, DeleteEnrollments, DeleteSubjectRow, FindStudent,
             Enroll, FindEnrolled, Unenroll
    <3>2. CASE PlanStep(r)
      BY <2>3, <3>2 DEF PlanStep, CreatePlan, UpdatePlan, DeletePlanVersions,
             DeletePlanLectures, DeletePlanRow, QueueJob, EditLecture, SaveEdit,
             DeleteVersions, DeleteLectureRow
    <3>3. CASE ChatStep(r)
      BY <3>3 DEF ChatStep, CreateSession, AskQuestion, SaveQuestion,
             StoreAnswer, SaveAnswer, FindQuestion, SaveTitle, DeleteMessages,
             DeleteSessionRow, SavesSession
    <3> QED
      BY <1>1, <2>2, <2>4, <3>1, <3>2, <3>3
  <2> QED
    BY <2>1, <2>4 DEF OnlyMoves
<1>2. ASSUME NEW w \in Workers, JobStep(w)
      PROVE  call'[r] = call[r] /\ listed'[r] = listed[r]
  BY <1>2, JobPlaced DEF PlaceInv, OnlyMoves
<1>3. CASE UNCHANGED <<call, listed>>
  BY <1>3
<1> QED
  BY <1>1, <1>2, <1>3 DEF Next, GiveUp, vars

LEMMA StepLeaves ==
  ASSUME TreeTypeOK, PlaceInv, LeaveInv, [Next]_vars
  PROVE  LeaveInv'
<1>1. TreeTypeOK' /\ PlaceInv' /\ Effects
  BY StepTypes, StepPlaced, StepEffects
<1>2. OrphansWereOvertaken'
  BY <1>1, StepOrphans
<1>3. ASSUME NEW r \in Requests PROVE Leaves(r)'
  <2>1. CASE at'[r] # at[r]
    <3>1. Next
      BY <2>1 DEF vars
    <3> QED
      BY <1>1, <2>1, <3>1, OwnLeaves
  <2>2. CASE at'[r] = at[r]
    <3>1. call'[r] = call[r] /\ listed'[r] = listed[r]
      BY <2>2, StandStill
    <3> QED
      BY <1>1, <2>2, <3>1, OthersLeave DEF LeaveInv
  <2> QED
    BY <2>1, <2>2
<1> QED
  BY <1>2, <1>3 DEF LeaveInv

LEMMA InitLeaves == Init => LeaveInv
BY StartAssumption DEF Init, LeaveInv, Leaves, OrphansWereOvertaken, Orphans, Filled

\* Of the lectures, versions, messages and enrollments that the delete of their
\* parent removes, one is orphaned only if it was written while that delete was
\* under way, or after it by a request or a job that had read the parent before.
\* It says nothing of the plans and sessions of a deleted subject.
THEOREM NoOtherOrphans == Spec => []OrphansWereOvertaken
<1>1. Init => TreeTypeOK /\ PlaceInv /\ LeaveInv
  BY InitTree, InitLeaves
<1>2. TreeTypeOK /\ PlaceInv /\ LeaveInv /\ [Next]_vars
        => TreeTypeOK' /\ PlaceInv' /\ LeaveInv'
  BY StepTypes, StepPlaced, StepLeaves
<1>3. LeaveInv => OrphansWereOvertaken
  BY DEF LeaveInv
<1> QED
  BY <1>1, <1>2, <1>3, PTL DEF Spec
=============================================================================
