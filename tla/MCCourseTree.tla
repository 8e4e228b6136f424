---------------------------- MODULE MCCourseTree ----------------------------
(* CourseTree on a small instance: two subjects, one of them filled. *)
EXTENDS CourseTree, TLC

CONSTANTS ann, ben, eva,      \* two teachers and a student
          s1, s2, s3, p1, p2, l1, l2, c1, c2

MCRole   == ann :> "teacher" @@ ben :> "teacher" @@ eva :> "student"
MCParent == p1 :> s1 @@ p2 :> s2 @@ l1 :> p1 @@ l2 :> p1 @@ c1 :> s1 @@ c2 :> s1
MCKeeper == s1 :> ann @@ s2 :> ben @@ s3 :> ann @@ c1 :> eva @@ c2 :> eva
MCStart  == {s1, s2, p1, l1, c1}
MCEnrolled == {<<s1, eva>>}

Route(op, user, s, p, x) ==
  [op |-> op, user |-> user, subject |-> s, plan |-> p, on |-> x]

\* Each route as its owner calls it, and with ids that do not belong together.
MCCalls ==
  {Route(op, ann, s1, None, eva) : op \in {"enroll", "unenroll"}}
  \cup {Route(op, ann, s1, None, None) : op \in {"updateSubject", "deleteSubject"}}
  \cup {Route(op, ann, s1, p1, None) : op \in {"updatePlan", "deletePlan", "createLecture"}}
  \cup {Route(op, ann, s1, p1, l1) : op \in LectureOps}
  \cup {Route(op, eva, s1, None, c1) : op \in ChatOps \ {"createSession"}}
  \cup {Route("createSubject", ann, None, None, None),
        Route("createSession", eva, s1, None, None),
        Route("createPlan", ben, s2, None, None),
        Route("deletePlan", ben, s2, p1, None),
        Route("editLecture", ben, s2, p2, l1),
        Route("updatePlan", ben, s1, p1, None),
        Route("enroll", ann, s1, None, ben),
        Route("ask", ann, s1, None, c1)}

MCSymmetry == Permutations(Requests)

\* The comment in delete_subject on what it removes: "otherwise deleting a
\* subject leaves its Document rows and vector chunks orphaned forever (the
\* subject_id they point at no longer resolves to anything)".  Of the plans and
\* the chat sessions of a subject, which hold its id too, this is violated.
SubjectIdsResolve == \A x \in (Plans \cup Sessions) \cap rows : Parent[x] \in rows
=============================================================================
