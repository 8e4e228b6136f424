------------------------ MODULE PlannerLectureProofs ------------------------
(***************************************************************************)
(* Proofs about PlannerLecture, for any calls, workers, transforms and     *)
(* bounds.  The last section is about MCPlannerHistory, which adds to it   *)
(* whether requests have overlapped.                                       *)
(***************************************************************************)
EXTENDS MCPlannerHistory, TLAPS

USE DEF Actors

-----------------------------------------------------------------------------
(* What the records are made of, and how to make them. *)

LEMMA LectureFields ==
  ASSUME NEW d \in Lecture
  PROVE  /\ d.status \in Status
         /\ d.cur \in Nat
         /\ d.refine \in Transforms \cup {"none"}
BY DEF Lecture

LEMMA WithType ==
  ASSUME NEW s \in Status, NEW n \in Nat, NEW t \in Transforms \cup {"none"}
  PROVE  /\ With(s, n, t) \in Lecture
         /\ With(s, n, t).status = s
         /\ With(s, n, t).cur = n
BY DEF Lecture, With

LEMMA NewLectureType ==
  NewLecture \in Lecture /\ NewLecture.cur = 0 /\ NewLecture.status = "pending"
BY WithType DEF NewLecture, Status

LEMMA ReadyType ==
  ASSUME NEW d \in Lecture, NEW n \in Nat
  PROVE  /\ Ready(d, n) \in Lecture
         /\ Ready(d, n).cur = n
         /\ Ready(d, n).status = "ready"
BY WithType, LectureFields DEF Ready, Status

LEMMA JobFields ==
  ASSUME NEW j \in Job
  PROVE  /\ j.id \in Calls
         /\ j.kind \in {"generate", "refine"}
         /\ j.transform \in Transforms \cup {"none"}
         /\ j.attempt \in 0..MaxRetries
BY DEF Job

LEMMA GenerateJobType ==
  ASSUME NEW c \in Calls
  PROVE  GenerateJob(c) \in Job
BY BoundsAssumption DEF Job, GenerateJob, Task

LEMMA RefineJobType ==
  ASSUME NEW c \in Calls, NEW t \in Transforms \cup {"none"}
  PROVE  RefineJob(c, t) \in Job
BY BoundsAssumption DEF Job, RefineJob, Task

LEMMA RetriedType ==
  ASSUME NEW j \in Job, j.attempt < MaxRetries
  PROVE  Retried(j) \in Job
BY BoundsAssumption DEF Job, Retried, Task

LEMMA MarkedType ==
  ASSUME NEW d \in Lecture, NEW j \in Job
  PROVE  /\ Marked(d, j) \in Lecture
         /\ Marked(d, j).cur = d.cur
         /\ Marked(d, j).status = "generating"
BY WithType, LectureFields, JobFields DEF Marked, Status

LEMMA RowType ==
  ASSUME NEW n \in Nat \ {0}, NEW s \in Source, NEW c \in Calls
  PROVE  [version |-> n, source |-> s, by |-> c] \in Version
BY DEF Version

-----------------------------------------------------------------------------
(* Types. *)

\* Every step keeps the types: a document's status stays one of LectureStatus,
\* a job's attempt within _MAX_RETRIES, version numbers positive.
LEMMA StepTypeOK == TypeOK /\ [Next]_vars => TypeOK'
<1> SUFFICES ASSUME TypeOK, [Next]_vars PROVE TypeOK'
  OBVIOUS
<1> USE ActorsAssumption, BoundsAssumption
<1> USE LectureFields, NewLectureType
<1> USE DEF TypeOK, CallPC, WorkerPC
<1>1. ASSUME NEW c \in Calls, CreateInsert(c) PROVE TypeOK'
  BY <1>1 DEF CreateInsert, Goto
<1>2. ASSUME NEW c \in Calls, NEW l \in CallPC, Load(c, l) PROVE TypeOK'
  BY <1>2 DEF Load, Goto
<1>3. ASSUME NEW c \in Calls, CreateDispatch(c) PROVE TypeOK'
  BY <1>3, GenerateJobType DEF CreateDispatch, Answer, Goto
<1>4. ASSUME NEW c \in Calls, EditInsert(c) PROVE TypeOK'
  <2> DEFINE next == snap[c].cur + 1
  <2>1. snap[c] \in Lecture /\ snap[c].cur \in Nat
    OBVIOUS
  <2>2. next \in Nat \ {0} /\ next \in Nat
    BY <2>1
  <2>3. Ready(snap[c], next) \in Lecture
    BY <2>1, <2>2, ReadyType
  <2>4. \A src \in Source : [version |-> next, source |-> src, by |-> c] \in Version
    BY <2>2, RowType
  <2>5. rows' \subseteq Version
    BY <1>4, <2>4 DEF EditInsert, AppendRow, InsertRow, Source
  <2>6. snap' \in [Actors -> Lecture]
    BY <1>4, <2>3 DEF EditInsert, AppendRow, Answer
  <2>7. /\ pc' \in [Actors -> CallPC \cup WorkerPC]
        /\ pc'[c] \in CallPC
        /\ \A a \in Actors \ {c} : pc'[a] = pc[a]
    BY <1>4 DEF EditInsert, AppendRow, Answer, Goto
  <2>8. UNCHANGED <<present, lec, queue, job, num, crashes, purged>>
    BY <1>4 DEF EditInsert, AppendRow
  <2> QED
    BY <2>5, <2>6, <2>7, <2>8
<1>5. ASSUME NEW c \in Calls, RollbackInsert(c) PROVE TypeOK'
  <2> DEFINE next == snap[c].cur + 1
  <2>1. snap[c] \in Lecture /\ snap[c].cur \in Nat
    OBVIOUS
  <2>2. next \in Nat \ {0} /\ next \in Nat
    BY <2>1
  <2>3. Ready(snap[c], next) \in Lecture
    BY <2>1, <2>2, ReadyType
  <2>4. \A src \in Source : [version |-> next, source |-> src, by |-> c] \in Version
    BY <2>2, RowType
  <2>5. rows' \subseteq Version
    BY <1>5, <2>4 DEF RollbackInsert, AppendRow, InsertRow, Source
  <2>6. snap' \in [Actors -> Lecture]
    BY <1>5, <2>3 DEF RollbackInsert, AppendRow, Answer
  <2>7. /\ pc' \in [Actors -> CallPC \cup WorkerPC]
        /\ pc'[c] \in CallPC
        /\ \A a \in Actors \ {c} : pc'[a] = pc[a]
    BY <1>5 DEF RollbackInsert, AppendRow, Answer, Goto
  <2>8. UNCHANGED <<present, lec, queue, job, num, crashes, purged>>
    BY <1>5 DEF RollbackInsert, AppendRow
  <2> QED
    BY <2>5, <2>6, <2>7, <2>8
<1>6. ASSUME NEW c \in Calls, EditSave(c) \/ RollbackSave(c) PROVE TypeOK'
  <2>1. snap[c] \in Lecture
    OBVIOUS
  <2>2. present' \in BOOLEAN /\ purged' \in BOOLEAN
    BY <1>6 DEF EditSave, RollbackSave, SaveCopy, Save
  <2>3. lec' \in Lecture
    BY <1>6, <2>1 DEF EditSave, RollbackSave, SaveCopy, Save
  <2> QED
    BY <1>6, <2>2, <2>3 DEF EditSave, RollbackSave, SaveCopy, Answer, Goto
<1>7. ASSUME NEW c \in Calls, RefineDispatch(c) PROVE TypeOK'
  BY <1>7, RefineJobType DEF RefineDispatch, Answer, Goto
<1>8. ASSUME NEW c \in Calls, RetryDispatch(c) PROVE TypeOK'
  BY <1>8, GenerateJobType, RefineJobType DEF RetryDispatch, Replay, Answer, Goto
<1>9. ASSUME NEW c \in Calls, RollbackFind(c) PROVE TypeOK'
  BY <1>9 DEF RollbackFind, Answer, Goto
<1>10. ASSUME NEW c \in Calls, DeleteVersions(c) PROVE TypeOK'
  BY <1>10 DEF DeleteVersions, Goto
<1>11. ASSUME NEW c \in Calls, DeleteDoc(c) \/ CallStops(c) PROVE TypeOK'
  <2>1. present' \in BOOLEAN /\ purged' \in BOOLEAN
    BY <1>11 DEF DeleteDoc, CallStops
  <2>2. crashes' \in 0..MaxCrashes
    BY <1>11 DEF DeleteDoc, CallStops
  <2> QED
    BY <1>11, <2>1, <2>2 DEF DeleteDoc, CallStops, Answer, Goto
<1>12. ASSUME NEW w \in Workers, NEW j \in queue, Start(w, j) PROVE TypeOK'
  BY <1>12 DEF Start, Release, Goto
<1>13. ASSUME NEW w \in Workers, MarkGenerating(w) PROVE TypeOK'
  BY <1>13, MarkedType DEF MarkGenerating, Save, Goto
<1>14. ASSUME NEW w \in Workers, FindCurrent(w) PROVE TypeOK'
  BY <1>14 DEF FindCurrent, Goto
<1>15. ASSUME NEW w \in Workers, Complete(w) PROVE TypeOK'
  BY <1>15 DEF Complete, Goto
<1>16. ASSUME NEW w \in Workers, NextVersionNumber(w) PROVE TypeOK'
  BY <1>16 DEF Version, NextVersionNumber, Goto
<1>17. ASSUME NEW w \in Workers, InsertVersion(w) PROVE TypeOK'
  <2>1. snap[w] \in Lecture /\ job[w] \in Job /\ num[w] \in Nat \ {0}
    BY <1>17 DEF InsertVersion
  <2>2. Ready(snap[w], num[w]) \in Lecture
    BY <2>1, ReadyType
  <2>3. [version |-> num[w], source |-> JobSource(job[w]), by |-> job[w].id]
          \in Version
    BY <2>1, RowType, JobFields DEF JobSource, Source
  <2>4. rows' \subseteq Version /\ snap' \in [Actors -> Lecture]
    BY <1>17, <2>2, <2>3 DEF InsertVersion, InsertRow
  <2> QED
    BY <1>17, <2>1, <2>4 DEF InsertVersion, Goto
<1>18. ASSUME NEW w \in Workers, SaveReady(w) PROVE TypeOK'
  BY <1>18 DEF SaveReady, Save, Goto
<1>19. ASSUME NEW w \in Workers, PublishReady(w) PROVE TypeOK'
  BY <1>19 DEF PublishReady, Release, Goto
<1>20. ASSUME NEW w \in Workers, TransientError(w) PROVE TypeOK'
  BY <1>20, RetriedType DEF TransientError, Release, Goto
<1>21. ASSUME NEW w \in Workers, OtherError(w) PROVE TypeOK'
  BY <1>21 DEF OtherError, Goto
<1>22. ASSUME NEW w \in Workers, MarkFailed(w) PROVE TypeOK'
  BY <1>22, WithType DEF MarkFailed, Save, Release, Goto, Status
<1>23. ASSUME NEW w \in Workers, WorkerStops(w) PROVE TypeOK'
  BY <1>23 DEF WorkerStops, Release, Goto
<1>24. CASE UNCHANGED vars
  BY <1>24 DEF vars
<1> HIDE LectureFields, NewLectureType
<1> HIDE DEF TypeOK, CallPC, WorkerPC
<1> QED
  BY <1>1, <1>2, <1>3, <1>4, <1>5, <1>6, <1>7, <1>8, <1>9, <1>10, <1>11,
     <1>12, <1>13, <1>14, <1>15, <1>16, <1>17, <1>18, <1>19, <1>20, <1>21,
     <1>22, <1>23, <1>24 DEF Next, CallStep, WorkerStep

LEMMA InitTypeOK == Init => TypeOK
<1> SUFFICES ASSUME Init PROVE TypeOK
  OBVIOUS
<1>0. present \in BOOLEAN /\ purged \in BOOLEAN
  BY DEF Init
<1>1. /\ lec \in Lecture /\ rows \subseteq Version /\ queue \subseteq Job
      /\ crashes \in 0..MaxCrashes
  BY BoundsAssumption, NewLectureType DEF Init
<1>2. /\ pc \in [Actors -> CallPC \cup WorkerPC]
      /\ \A c \in Calls : pc[c] \in CallPC
      /\ \A w \in Workers : pc[w] = "idle"
  BY DEF Init, CallPC, WorkerPC
<1>3. snap \in [Actors -> Lecture]
  BY NewLectureType DEF Init
<1>4. /\ job \in [Workers -> Job \cup {NoJob}]
      /\ num \in [Workers -> Nat]
  BY DEF Init
<1> QED
  BY <1>0, <1>1, <1>2, <1>3, <1>4 DEF TypeOK, WorkerPC

\* Every reachable state of PlannerLecture is well typed.
THEOREM TypeCorrect == Spec => []TypeOK
BY InitTypeOK, StepTypeOK, PTL DEF Spec
-----------------------------------------------------------------------------
(* The history.  A document or a private copy may point at any version, but *)
(* only at one whose row is there with all the rows before it, and a number *)
(* is only computed one beyond such a version.                              *)

\* Every version up to n has its row in R.
Backed(n, R) == \A k \in 1..n : \E r \in R : r.version = k

\* No two rows of R share a number.
Unique(R) == \A r, s \in R : r.version = s.version => r = s

\* A ready document names a version.
Served(doc) == doc.status = "ready" => doc.cur # 0

HistoryInv ==
  /\ Unique(rows)
  /\ Served(lec)
  /\ \A a \in Actors : Served(snap[a])
  /\ ~purged =>
       /\ \A r \in rows : Backed(r.version, rows)
       /\ Backed(lec.cur, rows)
       /\ \A a \in Actors : Backed(snap[a].cur, rows)
       /\ \A w \in Workers : pc[w] = "insert" => Backed(num[w] - 1, rows)

LEMMA BackedZero == ASSUME NEW R PROVE Backed(0, R)
BY DEF Backed

LEMMA BackedGrows ==
  ASSUME NEW R, NEW S, R \subseteq S, NEW n, Backed(n, R)
  PROVE  Backed(n, S)
BY DEF Backed

LEMMA BackedNext ==
  ASSUME NEW R, NEW n \in Nat \ {0}, Backed(n - 1, R), NEW r, r.version = n
  PROVE  Backed(n, R \cup {r})
BY DEF Backed

LEMMA UniqueGrows ==
  ASSUME NEW R, Unique(R), NEW r, r.version \notin {q.version : q \in R}
  PROVE  Unique(R \cup {r})
BY DEF Unique

\* Adding the row after a backed version keeps everything backed.
LEMMA InsertKeepsBacked ==
  ASSUME NEW n \in Nat \ {0}, NEW s, NEW c, ~Taken(n), InsertRow(n, s, c),
         HistoryInv, ~purged, Backed(n - 1, rows)
  PROVE  /\ Backed(n, rows')
         /\ \A r \in rows' : Backed(r.version, rows')
<1> DEFINE new == [version |-> n, source |-> s, by |-> c]
<1>1. rows' = rows \cup {new} /\ new.version = n
  BY DEF InsertRow
<1>2. Backed(n, rows')
  BY <1>1, BackedNext
<1>3. ASSUME NEW r \in rows PROVE Backed(r.version, rows')
  <2>1. Backed(r.version, rows)
    BY DEF HistoryInv
  <2> QED
    BY <1>1, <2>1, BackedGrows
<1> QED
  BY <1>1, <1>2, <1>3

LEMMA InsertKeepsUnique ==
  ASSUME NEW n, NEW s, NEW c, ~Taken(n), InsertRow(n, s, c), HistoryInv
  PROVE  Unique(rows') /\ rows \subseteq rows'
<1> DEFINE new == [version |-> n, source |-> s, by |-> c]
<1>1. rows' = rows \cup {new} /\ new.version = n
  BY DEF InsertRow
<1> QED
  BY <1>1, UniqueGrows DEF HistoryInv, Taken, Numbers

\* What an insert and the change of the copy that follows it preserve.
LEMMA InsertKeepsHistoryInv ==
  ASSUME TypeOK, HistoryInv, NEW a \in Actors,
         NEW n \in Nat \ {0}, NEW s, NEW c, ~Taken(n), InsertRow(n, s, c),
         ~purged => Backed(n - 1, rows),
         snap' = [snap EXCEPT ![a] = Ready(snap[a], n)],
         UNCHANGED <<lec, num, purged>>,
         \A w \in Workers : pc'[w] = "insert" => pc[w] = "insert"
  PROVE  HistoryInv'
<1>1. Unique(rows') /\ rows \subseteq rows'
  BY InsertKeepsUnique
<1>2. Served(lec')
  BY DEF HistoryInv
<1>3. ASSUME NEW b \in Actors
      PROVE  snap'[b] = snap[b] \/ snap'[b].cur = n
  BY ReadyType DEF TypeOK
<1>4. ASSUME NEW b \in Actors PROVE Served(snap'[b])
  <2>1. snap[a] \in Lecture /\ Ready(snap[a], n).cur = n
    BY ReadyType DEF TypeOK
  <2>2. CASE b = a
    BY <2>1, <2>2 DEF TypeOK, Served
  <2>3. CASE b # a
    BY <2>3 DEF TypeOK, HistoryInv
  <2> QED
    BY <2>2, <2>3
<1>5. ASSUME ~purged
      PROVE  /\ \A r \in rows' : Backed(r.version, rows')
             /\ Backed(lec'.cur, rows')
             /\ \A b \in Actors : Backed(snap'[b].cur, rows')
             /\ \A w \in Workers : pc'[w] = "insert"
                                    => Backed(num'[w] - 1, rows')
  <2>1. Backed(n, rows') /\ \A r \in rows' : Backed(r.version, rows')
    BY <1>5, InsertKeepsBacked
  <2>2. Backed(lec'.cur, rows')
    <3>1. Backed(lec.cur, rows)
      BY <1>5 DEF HistoryInv
    <3> QED
      BY <1>1, <3>1, BackedGrows
  <2>3. ASSUME NEW b \in Actors PROVE Backed(snap'[b].cur, rows')
    <3>1. Backed(snap[b].cur, rows)
      BY <1>5 DEF HistoryInv
    <3>2. Backed(snap[b].cur, rows')
      BY <1>1, <3>1, BackedGrows
    <3> QED
      BY <1>3, <2>1, <3>2
  <2>4. ASSUME NEW w \in Workers, pc'[w] = "insert"
        PROVE  Backed(num'[w] - 1, rows')
    <3>1. Backed(num[w] - 1, rows)
      BY <1>5, <2>4 DEF HistoryInv
    <3> QED
      BY <1>1, <3>1, BackedGrows
  <2> QED
    BY <2>1, <2>2, <2>3, <2>4
<1> QED
  BY <1>1, <1>2, <1>4, <1>5 DEF HistoryInv

LEMMA StepHistoryInv ==
  ASSUME TypeOK, TypeOK', HistoryInv, [Next]_vars PROVE HistoryInv'
<1> USE ActorsAssumption, NewLectureType, BackedZero DEF HistoryInv, Served
<1>1. ASSUME NEW c \in Calls, CreateInsert(c) PROVE HistoryInv'
  BY <1>1 DEF CreateInsert, Goto
<1>2. ASSUME NEW c \in Calls, NEW l \in CallPC, Load(c, l) PROVE HistoryInv'
  BY <1>2 DEF Load, Goto, TypeOK
<1>3. ASSUME NEW c \in Calls, CreateDispatch(c) PROVE HistoryInv'
  BY <1>3 DEF CreateDispatch, Answer, Goto, TypeOK
<1>6. ASSUME NEW c \in Calls, EditSave(c) \/ RollbackSave(c) PROVE HistoryInv'
  BY <1>6 DEF EditSave, RollbackSave, SaveCopy, Save, Answer, Goto, TypeOK
<1>7. ASSUME NEW c \in Calls, RefineDispatch(c) PROVE HistoryInv'
  BY <1>7 DEF RefineDispatch, Answer, Goto, TypeOK
<1>8. ASSUME NEW c \in Calls, RetryDispatch(c) PROVE HistoryInv'
  BY <1>8 DEF RetryDispatch, Answer, Goto, TypeOK
<1>9. ASSUME NEW c \in Calls, RollbackFind(c) PROVE HistoryInv'
  BY <1>9 DEF RollbackFind, Answer, Goto, TypeOK
<1>10. ASSUME NEW c \in Calls, DeleteVersions(c) PROVE HistoryInv'
  BY <1>10 DEF DeleteVersions, Goto, Unique
<1>11. ASSUME NEW c \in Calls, DeleteDoc(c) \/ CallStops(c) PROVE HistoryInv'
  BY <1>11 DEF DeleteDoc, CallStops, Answer, Goto, TypeOK
<1>12. ASSUME NEW w \in Workers, NEW j \in queue, Start(w, j) PROVE HistoryInv'
  BY <1>12 DEF Start, Release, Goto, TypeOK
<1>13. ASSUME NEW w \in Workers, MarkGenerating(w) PROVE HistoryInv'
  BY <1>13, MarkedType DEF MarkGenerating, Save, Goto, TypeOK
<1>14. ASSUME NEW w \in Workers, FindCurrent(w) PROVE HistoryInv'
  BY <1>14 DEF FindCurrent, Goto, TypeOK
<1>15. ASSUME NEW w \in Workers, Complete(w) PROVE HistoryInv'
  BY <1>15 DEF Complete, Goto, TypeOK
<1>16. ASSUME NEW w \in Workers, NextVersionNumber(w) PROVE HistoryInv'
  BY <1>16 DEF NextVersionNumber, Goto, TypeOK, Version
<1>18. ASSUME NEW w \in Workers, SaveReady(w) PROVE HistoryInv'
  BY <1>18 DEF SaveReady, Save, Goto, TypeOK
<1>19. ASSUME NEW w \in Workers, PublishReady(w) PROVE HistoryInv'
  BY <1>19 DEF PublishReady, Release, Goto, TypeOK
<1>20. ASSUME NEW w \in Workers, TransientError(w) PROVE HistoryInv'
  BY <1>20 DEF TransientError, Release, Goto, TypeOK
<1>21. ASSUME NEW w \in Workers, OtherError(w) PROVE HistoryInv'
  BY <1>21 DEF OtherError, Goto, TypeOK
<1>22. ASSUME NEW w \in Workers, MarkFailed(w) PROVE HistoryInv'
  BY <1>22, WithType, LectureFields DEF MarkFailed, Save, Release, Goto, TypeOK, Status
<1>23. ASSUME NEW w \in Workers, WorkerStops(w) PROVE HistoryInv'
  BY <1>23 DEF WorkerStops, Release, Goto, TypeOK
<1>24. CASE UNCHANGED vars
  BY <1>24 DEF vars
<1>4. ASSUME NEW c \in Calls, NEW src, NEW label, label # "insert",
             AppendRow(c, src, label)
      PROVE  HistoryInv'
  <2> DEFINE next == snap[c].cur + 1
  <2>1. /\ snap[c] \in Lecture /\ next \in Nat \ {0}
        /\ next - 1 = snap[c].cur
    BY LectureFields DEF TypeOK
  <2>2. CASE Taken(next)
    BY <1>4, <2>2 DEF AppendRow, Answer, Goto, TypeOK
  <2>3. CASE ~Taken(next)
    <3>1. InsertRow(next, src, c)
      BY <1>4, <2>3 DEF AppendRow
    <3>2. ~purged => Backed(next - 1, rows)
      BY <2>1
    <3>3. /\ snap' = [snap EXCEPT ![c] = Ready(snap[c], next)]
          /\ pc' = [pc EXCEPT ![c] = label]
          /\ UNCHANGED <<lec, num, purged>>
      BY <1>4, <2>3 DEF AppendRow, Goto
    <3>4. \A w \in Workers : pc'[w] = "insert" => pc[w] = "insert"
      BY <1>4, <3>3 DEF TypeOK
    <3> HIDE DEF next, HistoryInv
    <3> QED
      BY <2>1, <2>3, <3>1, <3>2, <3>3, <3>4, InsertKeepsHistoryInv
  <2> QED
    BY <2>2, <2>3
<1>5. ASSUME NEW c \in Calls, EditInsert(c) \/ RollbackInsert(c)
      PROVE  HistoryInv'
  BY <1>4, <1>5 DEF EditInsert, RollbackInsert
<1>17. ASSUME NEW w \in Workers, InsertVersion(w) PROVE HistoryInv'
  <2>1. num[w] \in Nat \ {0}
    BY <1>17 DEF InsertVersion, TypeOK
  <2>2. CASE Taken(num[w])
    BY <1>17, <2>2 DEF InsertVersion, Goto, TypeOK
  <2>3. CASE ~Taken(num[w])
    <3>1. InsertRow(num[w], JobSource(job[w]), job[w].id)
      BY <1>17, <2>3 DEF InsertVersion
    <3>2. ~purged => Backed(num[w] - 1, rows)
      BY <1>17 DEF InsertVersion
    <3>3. /\ snap' = [snap EXCEPT ![w] = Ready(snap[w], num[w])]
          /\ pc' = [pc EXCEPT ![w] = "save"]
          /\ UNCHANGED <<lec, num, purged>>
      BY <1>17, <2>3 DEF InsertVersion, Goto
    <3>4. \A v \in Workers : pc'[v] = "insert" => pc[v] = "insert"
      BY <3>3 DEF TypeOK
    <3> HIDE DEF HistoryInv
    <3> QED
      BY <2>1, <2>3, <3>1, <3>2, <3>3, <3>4, InsertKeepsHistoryInv
  <2> QED
    BY <2>2, <2>3
<1> HIDE ActorsAssumption, NewLectureType, BackedZero DEF HistoryInv, Served
<1> QED
  BY <1>1, <1>2, <1>3, <1>5, <1>6, <1>7, <1>8, <1>9, <1>10, <1>11,
     <1>12, <1>13, <1>14, <1>15, <1>16, <1>17, <1>18, <1>19, <1>20, <1>21,
     <1>22, <1>23, <1>24 DEF Next, CallStep, WorkerStep

LEMMA InitHistoryInv == Init => HistoryInv
BY NewLectureType, BackedZero DEF Init, HistoryInv, Served, Unique

\* In every reachable state, whatever handlers, jobs, failures and deletes
\* overlap, documents and private copies only point at backed versions.
THEOREM HistoryInvariant == Spec => []HistoryInv
BY InitHistoryInv, StepHistoryInv, TypeCorrect, PTL DEF Spec

\* Until a delete, version numbers are unique and without gaps, and the
\* current version's row is there, for any number of requests and workers.
THEOREM HistorySafe == Spec => [](VersionsNumbered /\ CurrentVersionExists)
<1>1. TypeOK /\ HistoryInv => VersionsNumbered /\ CurrentVersionExists
  <2> SUFFICES ASSUME TypeOK, HistoryInv
               PROVE  VersionsNumbered /\ CurrentVersionExists
    OBVIOUS
  <2>1. VersionsNumbered
    BY DEF VersionsNumbered, HistoryInv, Unique, Backed, HasRow, Numbers
  <2>2. lec.cur \in Nat
    BY LectureFields DEF TypeOK
  <2>3. ASSUME ~purged, lec.cur # 0 PROVE HasRow(lec.cur)
    <3>1. lec.cur \in 1..lec.cur
      BY <2>2, <2>3
    <3> QED
      BY <2>3, <3>1 DEF HistoryInv, Backed, HasRow, Numbers
  <2> QED
    BY <2>1, <2>3 DEF CurrentVersionExists, HistoryInv, Served
<1> QED
  BY <1>1, TypeCorrect, HistoryInvariant, PTL

\* A version row is never deleted or overwritten before the lecture is.
THEOREM HistoryGrows == Spec => HistoryAppendOnly
<1>1. [Next]_vars => [purged' \/ rows \subseteq rows']_rows
  BY DEF Next, CallStep, WorkerStep, vars, CreateInsert, CreateDispatch, Load,
     EditInsert, EditSave, RefineDispatch, RetryDispatch, RollbackFind,
     RollbackInsert, RollbackSave, DeleteVersions, DeleteDoc, CallStops,
     Start, MarkGenerating, FindCurrent, Complete, NextVersionNumber,
     InsertVersion, SaveReady, PublishReady, TransientError, OtherError,
     MarkFailed, WorkerStops, AppendRow, SaveCopy, InsertRow
<1> QED
  BY <1>1, PTL DEF Spec, HistoryAppendOnly
-----------------------------------------------------------------------------
(* Refinement.  Seen through the mapping a step adds the next row, moves    *)
(* the current version, deletes everything, or changes nothing.             *)

NewRow(r) == /\ r \in Version
             /\ ~Taken(r.version)
             /\ rows' = rows \cup {r}
             /\ ~purged => Backed(r.version - 1, rows)
             /\ UNCHANGED <<lec, purged>>

LEMMA AppendRowShape ==
  ASSUME TypeOK, HistoryInv, NEW c \in Calls,
         EditInsert(c) \/ RollbackInsert(c)
  PROVE  UNCHANGED <<rows, purged>> \/ \E r : NewRow(r)
<1> DEFINE next == snap[c].cur + 1
<1>1. PICK src \in Source, label \in CallPC : AppendRow(c, src, label)
  BY DEF EditInsert, RollbackInsert, Source, CallPC
<1>2. /\ next \in Nat \ {0} /\ next - 1 = snap[c].cur
  BY LectureFields DEF TypeOK
<1>3. CASE Taken(next)
  BY <1>1, <1>3 DEF AppendRow
<1>4. CASE ~Taken(next)
  <2> DEFINE new == [version |-> next, source |-> src, by |-> c]
  <2>1. rows' = rows \cup {new} /\ UNCHANGED <<lec, purged>>
    BY <1>1, <1>4 DEF AppendRow, InsertRow
  <2>2. new \in Version /\ new.version = next
    BY <1>2, RowType
  <2>3. ~purged => Backed(next - 1, rows)
    BY <1>2 DEF HistoryInv
  <2> QED
    BY <1>4, <2>1, <2>2, <2>3 DEF NewRow
<1> QED
  BY <1>3, <1>4

LEMMA InsertVersionShape ==
  ASSUME TypeOK, HistoryInv, NEW w \in Workers, InsertVersion(w)
  PROVE  UNCHANGED <<rows, purged>> \/ \E r : NewRow(r)
<1>1. num[w] \in Nat \ {0} /\ job[w] \in Job
  BY DEF TypeOK, InsertVersion
<1>2. CASE Taken(num[w])
  BY <1>2 DEF InsertVersion
<1>3. CASE ~Taken(num[w])
  <2> DEFINE new == [version |-> num[w], source |-> JobSource(job[w]),
                     by |-> job[w].id]
  <2>1. rows' = rows \cup {new} /\ UNCHANGED <<lec, purged>>
    BY <1>3 DEF InsertVersion, InsertRow
  <2>2. new \in Version /\ new.version = num[w]
    BY <1>1, RowType, JobFields DEF JobSource, Source
  <2>3. ~purged => Backed(num[w] - 1, rows)
    BY DEF HistoryInv, InsertVersion
  <2> QED
    BY <1>3, <2>1, <2>2, <2>3 DEF NewRow
<1> QED
  BY <1>2, <1>3

LEMMA StepShape ==
  ASSUME TypeOK, HistoryInv, [Next]_vars
  PROVE  \/ UNCHANGED <<rows, purged>>
         \/ \E r : NewRow(r)
         \/ rows' = {} /\ purged'
<1>1. ASSUME NEW c \in Calls, CallStep(c)
      PROVE  UNCHANGED <<rows, purged>> \/ (\E r : NewRow(r))
             \/ (rows' = {} /\ purged')
  BY <1>1, AppendRowShape
  DEF CallStep, CreateDispatch, EditSave, RefineDispatch, RetryDispatch,
      RollbackFind, RollbackSave, DeleteVersions, DeleteDoc, SaveCopy
<1>2. ASSUME NEW w \in Workers, WorkerStep(w)
      PROVE  UNCHANGED <<rows, purged>> \/ (\E r : NewRow(r))
  BY <1>2, InsertVersionShape
  DEF WorkerStep, Start, MarkGenerating, FindCurrent, Complete,
      NextVersionNumber, SaveReady, PublishReady, TransientError, OtherError,
      MarkFailed
<1> QED
  BY <1>1, <1>2 DEF Next, vars, CreateInsert, Load, CallStops, WorkerStops

LEMMA RefinementStep ==
  ASSUME TypeOK, TypeOK', HistoryInv, HistoryInv', [Next]_vars
  PROVE  [History!Next]_(History!vars)
<1> DEFINE h == IF purged THEN {} ELSE rows
           cur == IF purged THEN 0 ELSE lec.cur
<1>1. History!vars = <<h, cur, purged>>
  BY DEF History!vars
<1>2. ASSUME purged, purged' PROVE UNCHANGED History!vars
  <2>1. purged = TRUE /\ purged' = TRUE
    BY <1>2, Zenon DEF TypeOK
  <2>2. h = {} /\ h' = {} /\ cur = 0 /\ cur' = 0
    BY <1>2, Zenon
  <2> QED
    BY <2>1, <2>2, Zenon DEF History!vars
<1>3. CASE UNCHANGED <<rows, purged>>
  <2>1. CASE purged
    BY <1>2, <1>3, <2>1
  <2>2. CASE ~purged
    <3>1. Backed(lec'.cur, rows)
      BY <1>3, <2>2 DEF HistoryInv
    <3>2. lec'.cur \in Nat
      BY LectureFields DEF TypeOK
    <3>3. lec'.cur \in {r.version : r \in rows} \cup {0}
      BY <3>1, <3>2 DEF Backed
    <3>4. History!Numbers = {r.version : r \in rows}
      BY <2>2 DEF History!Numbers
    <3>5. History!Select(lec'.cur)
      BY <1>3, <2>2, <3>3, <3>4 DEF History!Select
    <3> QED
      BY <3>3, <3>4, <3>5 DEF History!Next
  <2> QED
    BY <2>1, <2>2
<1>4. CASE \E r : NewRow(r)
  <2>1. PICK r : NewRow(r)
    BY <1>4
  <2>2. CASE purged
    BY <1>2, <2>1, <2>2 DEF NewRow
  <2>3. CASE ~purged
    <3>1. /\ r \in Version /\ r.version \in Nat \ {0}
          /\ r.version \notin {q.version : q \in rows}
          /\ r \notin rows
      BY <2>1 DEF NewRow, Version, Taken, Numbers
    <3>2. Backed(r.version - 1, rows)
      BY <2>1, <2>3 DEF NewRow
    <3>3. r.version = 1 \/ r.version - 1 \in {q.version : q \in rows}
      <4>1. CASE r.version # 1
        <5>1. r.version - 1 \in 1..(r.version - 1)
          BY <3>1, <4>1
        <5> QED
          BY <3>2, <5>1 DEF Backed
      <4> QED
        BY <4>1
    <3>4. History!Numbers = {q.version : q \in rows}
      BY <2>3 DEF History!Numbers
    <3>5. History!Append(r)
      BY <2>1, <2>3, <3>1, <3>3, <3>4 DEF History!Append, NewRow
    <3>6. r \in h' \ h
      BY <2>1, <2>3, <3>1 DEF NewRow
    <3> QED
      BY <3>5, <3>6 DEF History!Next
  <2> QED
    BY <2>2, <2>3
<1>5. CASE rows' = {} /\ purged'
  <2>1. CASE purged
    BY <1>2, <1>5, <2>1
  <2>2. CASE ~purged
    BY <1>5, <2>2 DEF History!Next, History!Delete
  <2> QED
    BY <2>1, <2>2
<1> QED
  BY <1>3, <1>4, <1>5, StepShape

\* Handlers and jobs that overlap, fail and die implement an append-only
\* history with a current version in it.
THEOREM Refinement == Spec => ImplementsHistory
<1>1. Init => History!Init
  BY DEF Init, History!Init, NewLecture, With
<1>2. QED
  BY <1>1, RefinementStep, TypeCorrect, HistoryInvariant, PTL
  DEF Spec, ImplementsHistory, History!Spec
-----------------------------------------------------------------------------
(* Generating.  What is about to be saved as ready says so, hence only a    *)
(* job's own first save makes a lecture generating.                         *)

GeneratingInv ==
  /\ GeneratingHasJob
  /\ \A c \in Calls : pc[c] \in {"editSave", "rollbackSave"}
                        => snap[c].status = "ready"
  /\ \A w \in Workers : pc[w] = "save" => snap[w].status = "ready"

LEMMA StepGeneratingInv ==
  ASSUME TypeOK, TypeOK', GeneratingInv, [Next]_vars PROVE GeneratingInv'
<1> USE ActorsAssumption, BoundsAssumption
<1> USE DEF GeneratingInv, GeneratingHasJob, Owns, TypeOK
<1>1. ASSUME NEW c \in Calls, CreateInsert(c) PROVE GeneratingInv'
  BY <1>1, NewLectureType DEF CreateInsert, Goto
<1>2. ASSUME NEW c \in Calls, NEW l \in CallPC, Load(c, l) PROVE GeneratingInv'
  BY <1>2 DEF Load, Goto
<1>3. ASSUME NEW c \in Calls, CreateDispatch(c) PROVE GeneratingInv'
  BY <1>3 DEF CreateDispatch, Answer, Goto
<1>4. ASSUME NEW c \in Calls, EditInsert(c) \/ RollbackInsert(c)
      PROVE  GeneratingInv'
  BY <1>4, ReadyType, LectureFields
  DEF EditInsert, RollbackInsert, AppendRow, Answer, Goto, Ready, With
<1>6. ASSUME NEW c \in Calls, EditSave(c) \/ RollbackSave(c)
      PROVE  GeneratingInv'
  BY <1>6 DEF EditSave, RollbackSave, SaveCopy, Save, Answer, Goto
<1>7. ASSUME NEW c \in Calls, RefineDispatch(c) PROVE GeneratingInv'
  BY <1>7 DEF RefineDispatch, Answer, Goto
<1>8. ASSUME NEW c \in Calls, RetryDispatch(c) PROVE GeneratingInv'
  BY <1>8 DEF RetryDispatch, Answer, Goto
<1>9. ASSUME NEW c \in Calls, RollbackFind(c) PROVE GeneratingInv'
  BY <1>9 DEF RollbackFind, Answer, Goto
<1>10. ASSUME NEW c \in Calls, DeleteVersions(c) PROVE GeneratingInv'
  BY <1>10 DEF DeleteVersions, Goto
<1>11. ASSUME NEW c \in Calls, DeleteDoc(c) \/ CallStops(c)
       PROVE  GeneratingInv'
  BY <1>11 DEF DeleteDoc, CallStops, Answer, Goto
<1>12. ASSUME NEW w \in Workers, NEW j \in queue, Start(w, j)
       PROVE  GeneratingInv'
  BY <1>12 DEF Start, Release, Goto
<1>13. ASSUME NEW w \in Workers, MarkGenerating(w) PROVE GeneratingInv'
  BY <1>13 DEF MarkGenerating, Save, Goto
<1>14. ASSUME NEW w \in Workers, FindCurrent(w) PROVE GeneratingInv'
  BY <1>14 DEF FindCurrent, Goto
<1>15. ASSUME NEW w \in Workers, Complete(w) PROVE GeneratingInv'
  BY <1>15 DEF Complete, Goto
<1>16. ASSUME NEW w \in Workers, NextVersionNumber(w) PROVE GeneratingInv'
  BY <1>16 DEF NextVersionNumber, Goto
<1>17. ASSUME NEW w \in Workers, InsertVersion(w) PROVE GeneratingInv'
  <2>1. snap[w] \in Lecture /\ num[w] \in Nat
    OBVIOUS
  <2>2. Ready(snap[w], num[w]).status = "ready"
    BY <2>1, ReadyType
  <2>3. \/ pc' = [pc EXCEPT ![w] = "fail"] /\ snap' = snap
        \/ /\ pc' = [pc EXCEPT ![w] = "save"]
           /\ snap' = [snap EXCEPT ![w] = Ready(snap[w], num[w])]
    BY <1>17 DEF InsertVersion, Goto
  <2>4. UNCHANGED <<present, lec, queue, crashes>>
    BY <1>17 DEF InsertVersion
  <2> QED
    BY <2>2, <2>3, <2>4
<1>18. ASSUME NEW w \in Workers, SaveReady(w) PROVE GeneratingInv'
  BY <1>18 DEF SaveReady, Save, Goto
<1>19. ASSUME NEW w \in Workers, PublishReady(w) PROVE GeneratingInv'
  BY <1>19 DEF PublishReady, Release, Goto
<1>20. ASSUME NEW w \in Workers, TransientError(w) PROVE GeneratingInv'
  BY <1>20 DEF TransientError, Release, Goto
<1>21. ASSUME NEW w \in Workers, OtherError(w) PROVE GeneratingInv'
  BY <1>21 DEF OtherError, Goto
<1>22. ASSUME NEW w \in Workers, MarkFailed(w) PROVE GeneratingInv'
  BY <1>22, WithType, LectureFields DEF MarkFailed, Save, Release, Goto, Status
<1>23. ASSUME NEW w \in Workers, WorkerStops(w) PROVE GeneratingInv'
  BY <1>23 DEF WorkerStops, Release, Goto
<1>24. CASE UNCHANGED vars
  BY <1>24 DEF vars
<1> HIDE ActorsAssumption, BoundsAssumption
<1> HIDE DEF GeneratingInv, GeneratingHasJob, Owns, TypeOK
<1> QED
  BY <1>1, <1>2, <1>3, <1>4, <1>6, <1>7, <1>8, <1>9, <1>10, <1>11,
     <1>12, <1>13, <1>14, <1>15, <1>16, <1>17, <1>18, <1>19, <1>20, <1>21,
     <1>22, <1>23, <1>24 DEF Next, CallStep, WorkerStep

\* As long as no handler and no worker has died, a lecture shown as generating
\* has a job, running or in the broker, that will end that.
THEOREM GeneratingIsOwned == Spec => []GeneratingHasJob
<1>1. Init => GeneratingInv
  BY NewLectureType DEF Init, GeneratingInv, GeneratingHasJob
<1>2. GeneratingInv => GeneratingHasJob
  BY DEF GeneratingInv
<1> QED
  BY <1>1, <1>2, StepGeneratingInv, TypeCorrect, PTL DEF Spec
-----------------------------------------------------------------------------
(* One version per request.  A request is in one place at a time: the        *)
(* handler, the broker or one worker.  It has written no version before its  *)
(* handler or its job inserts one, and a job that has is not queued again.   *)

\* The handler has inserted no version and queued no job yet.
Unfinished(c) == pc[c] \notin {"done", "editSave", "rollbackSave"}
Wrote(c) == \E r \in rows : r.by = c
Runs(w, c) == pc[w] # "idle" /\ job[w].id = c
Unwritten(w) == pc[w] \in {"mark", "find", "llm", "number", "insert"}

OnceInv ==
  /\ OneVersionPerRequest
  /\ \A c \in Calls : Unfinished(c) =>
       /\ ~Wrote(c)
       /\ \A j \in queue : j.id # c
       /\ \A w \in Workers : ~Runs(w, c)
  /\ \A j \in queue : ~Wrote(j.id) /\ \A w \in Workers : ~Runs(w, j.id)
  /\ \A i, j \in queue : i.id = j.id => i = j
  /\ \A w \in Workers : Unwritten(w) => ~Wrote(job[w].id)
  /\ \A v, w \in Workers :
       pc[v] # "idle" /\ pc[w] # "idle" /\ job[v].id = job[w].id => v = w

\* What the steps of a handler add to the broker, if anything, is its own job.
LEMMA Dispatches ==
  ASSUME NEW c \in Calls, CreateDispatch(c) \/ RefineDispatch(c) \/ RetryDispatch(c)
  PROVE  /\ \E j : j.id = c /\ queue' \in {queue, queue \cup {j}}
         /\ pc' = [pc EXCEPT ![c] = "done"]
         /\ Unfinished(c)
         /\ UNCHANGED <<rows, job>>
<1>1. \A t : GenerateJob(c).id = c /\ RefineJob(c, t).id = c
  BY DEF GenerateJob, RefineJob, Task
<1> QED
  BY <1>1, Zenon
  DEF CreateDispatch, RefineDispatch, RetryDispatch, Replay, Answer, Goto, Unfinished

LEMMA StepOnceInv ==
  ASSUME TypeOK, OnceInv, [Next]_vars PROVE OnceInv'
<1> USE ActorsAssumption
<1> USE DEF OnceInv, OneVersionPerRequest, Unfinished, Wrote, Runs, Unwritten,
            TypeOK, CallPC, WorkerPC
<1>1. ASSUME NEW c \in Calls, CreateInsert(c) PROVE OnceInv'
  BY <1>1 DEF CreateInsert, Goto
<1>2. ASSUME NEW c \in Calls, NEW l \in CallPC, Load(c, l) PROVE OnceInv'
  BY <1>2 DEF Load, Goto
<1>3. ASSUME NEW c \in Calls,
             CreateDispatch(c) \/ RefineDispatch(c) \/ RetryDispatch(c)
      PROVE  OnceInv'
  BY <1>3, Dispatches
<1>4. ASSUME NEW c \in Calls, EditInsert(c) \/ RollbackInsert(c)
      PROVE  OnceInv'
  <2>1. \/ UNCHANGED rows /\ pc' = [pc EXCEPT ![c] = "done"]
        \/ /\ \E r : r.by = c /\ rows' = rows \cup {r}
           /\ \/ pc' = [pc EXCEPT ![c] = "editSave"]
              \/ pc' = [pc EXCEPT ![c] = "rollbackSave"]
    BY <1>4, Zenon DEF EditInsert, RollbackInsert, AppendRow, InsertRow, Answer, Goto
  <2>2. Unfinished(c) /\ UNCHANGED <<queue, job>>
    BY <1>4 DEF EditInsert, RollbackInsert, AppendRow
  <2> QED
    BY <2>1, <2>2
<1>5. ASSUME NEW c \in Calls,
             \/ EditSave(c) \/ RollbackSave(c) \/ RollbackFind(c)
             \/ DeleteDoc(c) \/ CallStops(c)
      PROVE  OnceInv'
  BY <1>5
  DEF EditSave, RollbackSave, RollbackFind, SaveCopy, DeleteDoc, CallStops,
      Answer, Goto
<1>6. ASSUME NEW c \in Calls, DeleteVersions(c) PROVE OnceInv'
  BY <1>6 DEF DeleteVersions, Goto
<1>7. ASSUME NEW w \in Workers, NEW j \in queue, Start(w, j) PROVE OnceInv'
  <2>1. CASE ~present
    BY <1>7, <2>1 DEF Start, Release, Goto
  <2>2. CASE present
    BY <1>7, <2>2 DEF Start, Release, Goto
  <2> QED
    BY <2>1, <2>2
<1>8. ASSUME NEW w \in Workers,
             \/ MarkGenerating(w) \/ FindCurrent(w) \/ Complete(w)
             \/ NextVersionNumber(w) \/ SaveReady(w) \/ OtherError(w)
      PROVE  OnceInv'
  BY <1>8
  DEF MarkGenerating, FindCurrent, Complete, NextVersionNumber, SaveReady,
      OtherError, Goto
<1>9. ASSUME NEW w \in Workers, InsertVersion(w) PROVE OnceInv'
  <2>1. \/ UNCHANGED rows /\ pc' = [pc EXCEPT ![w] = "fail"]
        \/ /\ \E r : r.by = job[w].id /\ rows' = rows \cup {r}
           /\ pc' = [pc EXCEPT ![w] = "save"]
    BY <1>9, Zenon DEF InsertVersion, InsertRow, Goto
  <2>2. Unwritten(w) /\ UNCHANGED <<queue, job>>
    BY <1>9 DEF InsertVersion
  <2> QED
    BY <2>1, <2>2
<1>10. ASSUME NEW w \in Workers, TransientError(w) PROVE OnceInv'
  <2>1. CASE job[w].attempt = MaxRetries
    BY <1>10, <2>1, BoundsAssumption DEF TransientError, Goto
  <2>2. CASE job[w].attempt < MaxRetries
    <3>1. Retried(job[w]).id = job[w].id
      BY DEF Retried, Task
    <3>2. /\ queue' = queue \cup {Retried(job[w])}
          /\ pc' = [pc EXCEPT ![w] = "idle"] /\ job' = [job EXCEPT ![w] = NoJob]
          /\ Unwritten(w) /\ UNCHANGED rows
      BY <1>10, <2>2, BoundsAssumption DEF TransientError, Release, Goto
    <3> QED
      BY <3>1, <3>2
  <2> QED
    BY <1>10, <2>1, <2>2 DEF TransientError
<1>11. ASSUME NEW w \in Workers, PublishReady(w) \/ MarkFailed(w) \/ WorkerStops(w)
       PROVE  OnceInv'
  BY <1>11 DEF PublishReady, MarkFailed, WorkerStops, Release, Goto
<1>12. CASE UNCHANGED vars
  BY <1>12 DEF vars
<1> HIDE ActorsAssumption
<1> HIDE DEF OnceInv, OneVersionPerRequest, Unfinished, Wrote, Runs, Unwritten,
             TypeOK, CallPC, WorkerPC
<1> QED
  BY <1>1, <1>2, <1>3, <1>4, <1>5, <1>6, <1>7, <1>8, <1>9, <1>10, <1>11, <1>12
  DEF Next, CallStep, WorkerStep

LEMMA InitOnceInv == Init => OnceInv
BY ActorsAssumption
DEF Init, OnceInv, OneVersionPerRequest, Unfinished, Wrote, Runs, Unwritten, Actors

\* A request leaves at most one version behind, through all the attempts and
\* failures of its job: a job that has written its version ends ready or failed.
THEOREM RequestsWriteOnce == Spec => []OneVersionPerRequest
<1>1. OnceInv => OneVersionPerRequest
  BY DEF OnceInv
<1> QED
  BY <1>1, InitOnceInv, StepOnceInv, TypeCorrect, PTL DEF Spec

\* Until a delete, a lecture that names a version, or is ready, has its content.
THEOREM ContentIsThere == Spec => []CurrentVersionExists
BY HistorySafe, PTL

-----------------------------------------------------------------------------
(* One at a time.  While one request or job follows the other, the copy that *)
(* is held and the document know the newest row, but for a document that is  *)
(* about to be saved.                                                        *)

Below(n, R) == \A r \in R : r.version <= n

Active(a) == pc[a] \notin {"idle", "done"}
Lone == \A a, b \in Actors : Active(a) /\ Active(b) => a = b

Newest ==
  /\ \A a \in Actors : pc[a] \notin {"idle", "dispatch", "done"} => Below(snap[a].cur, rows)
  /\ \/ Below(lec.cur, rows)
     \/ \E a \in Actors : pc[a] \in {"editSave", "rollbackSave", "save", "fail"}
  /\ \A w \in Workers : pc[w] = "insert" => num[w] = 1 \/ Below(num[w] - 1, rows)

NewestInv == ~overlapped /\ ~purged /\ crashes = 0 => AtMostOneBusy /\ Newest

LEMMA BusyIsLone == TypeOK /\ AtMostOneBusy => Lone
BY DEF TypeOK, WorkerPC, AtMostOneBusy, Busy, Lone, Active

\* Rows are only added under the number after the newest one's.
LEMMA BelowNext ==
  ASSUME NEW n \in Nat, NEW R, R \subseteq Version, Below(n, R), NEW r, r.version = n + 1
  PROVE  Below(n + 1, R \cup {r})
BY DEF Below, Version

\* A generated version is number 1, and is inserted only if there is none.
LEMMA FirstIsAlone ==
  ASSUME TypeOK, HistoryInv, ~purged, ~Taken(1) PROVE rows = {}
<1>1. ASSUME NEW r \in rows PROVE FALSE
  <2>1. r.version \in Nat \ {0} /\ Backed(r.version, rows)
    BY DEF TypeOK, Version, HistoryInv
  <2>2. 1 \in 1..r.version
    BY <2>1
  <2> QED
    BY <2>1, <2>2 DEF Backed, Taken, Numbers
<1> QED
  BY <1>1

LEMMA ReadyCurrent == \A d, n : Ready(d, n).cur = n
BY DEF Ready, With

\* Deaths and deletes are not undone.
LEMMA PurgedStays ==
  ASSUME TypeOK, Next
  PROVE  /\ purged => purged'
         /\ crashes \in Nat /\ (crashes' = crashes \/ crashes' = crashes + 1)
<1>1. ASSUME NEW c \in Calls, CallStep(c) PROVE crashes' = crashes /\ (purged => purged')
  BY <1>1
  DEF CallStep, CreateDispatch, EditInsert, EditSave, RefineDispatch, RetryDispatch,
      RollbackFind, RollbackInsert, RollbackSave, DeleteVersions, DeleteDoc, AppendRow,
      SaveCopy
<1>2. ASSUME NEW w \in Workers, WorkerStep(w) PROVE UNCHANGED <<crashes, purged>>
  BY <1>2
  DEF WorkerStep, Start, MarkGenerating, FindCurrent, Complete, NextVersionNumber,
      InsertVersion, SaveReady, PublishReady, TransientError, OtherError, MarkFailed
<1>3. crashes \in Nat
  BY BoundsAssumption DEF TypeOK
<1> QED
  BY <1>1, <1>2, <1>3 DEF Next, CreateInsert, Load, CallStops, WorkerStops

LEMMA StepNewest ==
  ASSUME TypeOK, TypeOK', HistoryInv, OnceInv, Next, Newest, Lone, Lone',
         ~purged', crashes' = crashes
  PROVE  Newest'
<1>n. ~Taken(1) => rows = {}
  BY FirstIsAlone, PurgedStays
<1> USE ActorsAssumption
<1> USE DEF Newest, Lone, Active, TypeOK, CallPC, WorkerPC
<1>1. ASSUME NEW c \in Calls, CreateInsert(c) PROVE Newest'
  <2>1. rows = {}
    BY <1>1 DEF CreateInsert, OnceInv, Unfinished, Wrote, Version
  <2> QED
    BY <1>1, <2>1 DEF CreateInsert, Goto, Below
<1>2. ASSUME NEW c \in Calls, NEW l \in CallPC, Load(c, l) PROVE Newest'
  BY <1>2 DEF Load, Goto
<1>3. ASSUME NEW c \in Calls,
             CreateDispatch(c) \/ RefineDispatch(c) \/ RetryDispatch(c)
      PROVE  Newest'
  BY <1>3 DEF CreateDispatch, RefineDispatch, RetryDispatch, Answer, Goto
<1>4. ASSUME NEW c \in Calls, EditInsert(c) \/ RollbackInsert(c) PROVE Newest'
  <2> DEFINE next == snap[c].cur + 1
  <2>1. /\ snap[c] \in Lecture /\ snap[c].cur \in Nat /\ next \in Nat
        /\ Below(snap[c].cur, rows) /\ Active(c)
    BY <1>4, LectureFields DEF EditInsert, RollbackInsert
  <2>2. CASE Taken(next)
    BY <1>4, <2>1, <2>2 DEF EditInsert, RollbackInsert, AppendRow, Answer, Goto
  <2>3. CASE ~Taken(next)
    <3>1. PICK label \in {"editSave", "rollbackSave"} :
            /\ pc' = [pc EXCEPT ![c] = label]
            /\ snap' = [snap EXCEPT ![c] = Ready(snap[c], next)]
            /\ \E r : r.version = next /\ rows' = rows \cup {r}
      BY <1>4, <2>3, Zenon
      DEF EditInsert, RollbackInsert, AppendRow, InsertRow, Goto
    <3>2. Ready(snap[c], next).cur = next
      BY ReadyCurrent
    <3>3. Below(next, rows')
      BY <2>1, <3>1, BelowNext
    <3>4. snap'[c].cur = next /\ pc'[c] = label
      BY <3>1, <3>2
    <3>5. \A b \in Actors \ {c} : pc'[b] \in {"idle", "done"}
      BY <2>1, <3>1
    <3> HIDE DEF next
    <3> QED
      BY <3>3, <3>4, <3>5
  <2> QED
    BY <2>2, <2>3
<1>5. ASSUME NEW c \in Calls, EditSave(c) \/ RollbackSave(c) PROVE Newest'
  BY <1>5 DEF EditSave, RollbackSave, SaveCopy, Save, Answer, Goto
<1>6. ASSUME NEW c \in Calls, RollbackFind(c) \/ DeleteDoc(c) PROVE Newest'
  BY <1>6 DEF RollbackFind, DeleteDoc, Answer, Goto
<1>7. ASSUME NEW c \in Calls, DeleteVersions(c) \/ CallStops(c) PROVE Newest'
  BY <1>7 DEF DeleteVersions, CallStops
<1>8. ASSUME NEW w \in Workers, NEW j \in queue, Start(w, j) PROVE Newest'
  BY <1>8 DEF Start, Release, Goto
<1>9. ASSUME NEW w \in Workers, MarkGenerating(w) PROVE Newest'
  <2>1. Marked(snap[w], job[w]).cur = snap[w].cur
    BY <1>9, MarkedType DEF MarkGenerating
  <2> QED
    BY <1>9, <2>1 DEF MarkGenerating, Save, Goto
<1>10. ASSUME NEW w \in Workers, FindCurrent(w) \/ Complete(w) \/ OtherError(w)
       PROVE  Newest'
  BY <1>10 DEF FindCurrent, Complete, OtherError, Goto
<1>11. ASSUME NEW w \in Workers, NextVersionNumber(w) PROVE Newest'
  BY <1>11 DEF NextVersionNumber, Goto, Below, Version
<1>12. ASSUME NEW w \in Workers, InsertVersion(w) PROVE Newest'
  <2>1. /\ snap[w] \in Lecture /\ num[w] \in Nat \ {0} /\ Active(w)
        /\ num[w] = 1 \/ Below(num[w] - 1, rows)
    BY <1>12 DEF InsertVersion
  <2>2. CASE Taken(num[w])
    BY <1>12, <2>2 DEF InsertVersion, Goto
  <2>3. CASE ~Taken(num[w])
    <3>1. /\ pc' = [pc EXCEPT ![w] = "save"]
          /\ snap' = [snap EXCEPT ![w] = Ready(snap[w], num[w])]
          /\ \E r : r.version = num[w] /\ rows' = rows \cup {r}
      BY <1>12, <2>3, Zenon DEF InsertVersion, InsertRow, Goto
    <3>2. Below(num[w] - 1, rows)
      <4>1. ASSUME num[w] = 1 PROVE rows = {}
        BY <1>n, <2>3, <4>1
      <4> QED
        BY <2>1, <4>1 DEF Below
    <3>3. Below(num[w], rows')
      <4>1. num[w] - 1 \in Nat /\ (num[w] - 1) + 1 = num[w]
        BY <2>1
      <4> QED
        BY <3>1, <3>2, <4>1, BelowNext
    <3>4. Ready(snap[w], num[w]).cur = num[w]
      BY ReadyCurrent
    <3>5. snap'[w].cur = num[w] /\ pc'[w] = "save"
      BY <3>1, <3>4
    <3>6. \A b \in Actors \ {w} : pc'[b] \in {"idle", "done"}
      BY <2>1, <3>1
    <3> QED
      BY <3>3, <3>5, <3>6
  <2> QED
    BY <2>2, <2>3
<1>13. ASSUME NEW w \in Workers, SaveReady(w) PROVE Newest'
  BY <1>13 DEF SaveReady, Save, Goto
<1>14. ASSUME NEW w \in Workers, PublishReady(w) \/ TransientError(w) PROVE Newest'
  BY <1>14 DEF PublishReady, TransientError, Release, Goto
<1>15. ASSUME NEW w \in Workers, MarkFailed(w) PROVE Newest'
  <2>1. With("failed", snap[w].cur, snap[w].refine).cur = snap[w].cur
    BY DEF With
  <2> QED
    BY <1>15, <2>1 DEF MarkFailed, Save, Release, Goto
<1>16. ASSUME NEW w \in Workers, WorkerStops(w) PROVE Newest'
  BY <1>16, BoundsAssumption DEF WorkerStops
<1> HIDE ActorsAssumption
<1> HIDE DEF Newest, Lone, Active, TypeOK, CallPC, WorkerPC
<1> QED
  BY <1>1, <1>2, <1>3, <1>4, <1>5, <1>6, <1>7, <1>8, <1>9, <1>10, <1>11, <1>12,
     <1>13, <1>14, <1>15, <1>16 DEF Next, CallStep, WorkerStep

LEMMA StepNewestInv ==
  ASSUME TypeOK, TypeOK', HistoryInv, OnceInv, NewestInv,
         [HistoryNext]_<<vars, overlapped>>
  PROVE  NewestInv'
<1>1. CASE HistoryNext
  <2> SUFFICES ASSUME ~overlapped', ~purged', crashes' = 0
               PROVE  AtMostOneBusy' /\ Newest'
    BY DEF NewestInv
  <2>1. AtMostOneBusy' /\ ~overlapped /\ Next
    BY <1>1 DEF HistoryNext
  <2>2. ~purged /\ crashes = 0 /\ crashes' = crashes
    BY <2>1, PurgedStays
  <2>3. AtMostOneBusy /\ Newest
    BY <2>1, <2>2 DEF NewestInv
  <2>4. Lone /\ Lone'
    BY <2>1, <2>3, BusyIsLone, PTL
  <2> QED
    BY <2>1, <2>2, <2>3, <2>4, StepNewest
<1>2. CASE UNCHANGED <<vars, overlapped>>
  BY <1>2 DEF vars, NewestInv, AtMostOneBusy, Busy, Newest, Below
<1> QED
  BY <1>1, <1>2

\* For a teacher who waits for each answer and each job, and as long as nothing
\* dies, the current version is the newest whenever nothing is going on.
THEOREM NothingIsRolledBack == HistorySpec => []NewestIsCurrent
<1>1. HistoryInit => Init /\ NewestInv
  <2> SUFFICES ASSUME HistoryInit PROVE Init /\ NewestInv
    OBVIOUS
  <2>1. Init /\ rows = {} /\ queue = {}
    BY DEF HistoryInit, Init
  <2>2. AtMostOneBusy
    BY <2>1, ActorsAssumption DEF AtMostOneBusy, Busy, Init
  <2> QED
    BY <2>1, <2>2, ActorsAssumption DEF NewestInv, Newest, Below, Init
<1>2. [HistoryNext]_<<vars, overlapped>> => [Next]_vars
  BY DEF HistoryNext
<1>3. Init => TypeOK /\ HistoryInv /\ OnceInv
  BY InitTypeOK, InitHistoryInv, InitOnceInv
<1>4. TypeOK /\ NewestInv => NewestIsCurrent
  <2> SUFFICES ASSUME TypeOK, NewestInv, Busy = {}, ~overlapped, crashes = 0, ~purged
               PROVE  Below(lec.cur, rows)
    BY DEF NewestIsCurrent, Below
  <2>1. Newest
    BY DEF NewestInv
  <2>2. \A a \in Actors : pc[a] \in {"idle", "done"}
    BY DEF Busy
  <2> QED
    BY <2>1, <2>2 DEF Newest
<1> QED
  BY <1>1, <1>2, <1>3, <1>4, StepTypeOK, StepHistoryInv, StepOnceInv, StepNewestInv, PTL
  DEF HistorySpec
=============================================================================
