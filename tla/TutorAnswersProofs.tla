-------------------------- MODULE TutorAnswersProofs --------------------------
(***************************************************************************)
(* Proofs about DocumentStore, for any requests, subjects, files and       *)
(* number of requests that stop; then about TutorAnswers, which composes   *)
(* it with the asks of the Tutor, for any asks, sessions and bounds too.   *)
(***************************************************************************)
EXTENDS TutorAnswers, TLAPS

-----------------------------------------------------------------------------
(* The documents.                                                          *)

USE NoFileAssumption, NoDocAssumption, StopsAssumption

-----------------------------------------------------------------------------
(* What handles and rows are made of, and how to make them. *)

LEMMA HandleFields ==
  ASSUME NEW h \in Handle
  PROVE  h.id \in Requests /\ h.subject \in Subjects /\ h.file \in Files \cup {NoFile}
BY DEF Handle

LEMMA HeldType ==
  ASSUME NEW r \in Requests, NEW s \in Subjects, NEW f \in Files \cup {NoFile}
  PROVE  /\ Held(r, s, f) \in Handle
         /\ Held(r, s, f).id = r
         /\ Held(r, s, f).subject = s
         /\ Held(r, s, f).file = f
BY DEF Held, Handle

LEMMA RowFields ==
  ASSUME NEW d \in Row
  PROVE  /\ d.id \in Requests /\ d.subject \in Subjects /\ d.file \in Files
         /\ d.status \in Status
BY DEF Row

LEMMA RowType ==
  ASSUME NEW h \in Handle, h.file \in Files, NEW st \in Status
  PROVE  /\ HasStatus(h, st) \in Row
         /\ HasStatus(h, st).id = h.id
         /\ HasStatus(h, st).subject = h.subject
         /\ HasStatus(h, st).file = h.file
         /\ HasStatus(h, st).status = st
<1>1. h.id \in Requests /\ h.subject \in Subjects
  BY HandleFields
<1> QED
  BY <1>1 DEF HasStatus, Row

-----------------------------------------------------------------------------
(* Types. *)

\* Every step keeps the types: in particular an upload and its ingest keep
\* working on their own row, and a delete only ever collects content hashes.
LEMMA StepDocTypeOK == DocTypeOK /\ [DocNext]_docVars => DocTypeOK'
<1> SUFFICES ASSUME DocTypeOK, [DocNext]_docVars PROVE DocTypeOK'
  OBVIOUS
<1> USE HandleFields, RowFields
<1> USE DEF DocTypeOK, RequestPC, UploadPC, IngestPC, DeletePC
<1>1. ASSUME NEW r \in Requests, NEW s \in Subjects, NEW f \in Files, Upload(r, s, f)
      PROVE  DocTypeOK'
  BY <1>1, HeldType DEF Upload, Goto
<1>2. ASSUME NEW r \in Requests, FindExisting(r) PROVE DocTypeOK'
  BY <1>2 DEF FindExisting, End, Goto
<1>3. ASSUME NEW r \in Requests, FileExists(r) PROVE DocTypeOK'
  BY <1>3 DEF FileExists, Goto
<1>4. ASSUME NEW r \in Requests, UploadFile(r) PROVE DocTypeOK'
  BY <1>4 DEF UploadFile, Goto
<1>5. ASSUME NEW r \in Requests, InsertRow(r) PROVE DocTypeOK'
  BY <1>5, RowType DEF InsertRow, End, Goto, Status
<1>6. ASSUME NEW r \in Requests, IngestLoad(r) PROVE DocTypeOK'
  BY <1>6 DEF IngestLoad, End, Goto
<1>7. ASSUME NEW r \in Requests, MarkProcessing(r) PROVE DocTypeOK'
  BY <1>7, RowType DEF MarkProcessing, Saved, Refused, End, Goto, Status
<1>8. ASSUME NEW r \in Requests, Download(r) PROVE DocTypeOK'
  BY <1>8 DEF Download, Goto
<1>9. ASSUME NEW r \in Requests, Prepare(r) PROVE DocTypeOK'
  BY <1>9 DEF Prepare, Goto
<1>10. ASSUME NEW r \in Requests, ClearChunks(r) PROVE DocTypeOK'
  BY <1>10 DEF ClearChunks, Goto
<1>11. ASSUME NEW r \in Requests, UpsertChunks(r) PROVE DocTypeOK'
  BY <1>11 DEF UpsertChunks, Goto
<1>12. ASSUME NEW r \in Requests, IngestBump(r) PROVE DocTypeOK'
  BY <1>12 DEF IngestBump, BumpVersion, Goto
<1>13. ASSUME NEW r \in Requests, IngestError(r) PROVE DocTypeOK'
  BY <1>13 DEF IngestError, Goto
<1>14. ASSUME NEW r \in Requests, SaveOutcome(r) PROVE DocTypeOK'
  BY <1>14, RowType DEF SaveOutcome, Saved, Refused, End, Goto, Status
<1>15. ASSUME NEW r \in Requests, NEW d \in rows, Delete(r, d) PROVE DocTypeOK'
  BY <1>15, HeldType DEF Delete, Goto
<1>16. ASSUME NEW r \in Requests, DeleteChunks(r) PROVE DocTypeOK'
  BY <1>16 DEF DeleteChunks, Goto
<1>17. ASSUME NEW r \in Requests, DeleteBump(r) PROVE DocTypeOK'
  BY <1>17 DEF DeleteBump, BumpVersion, Goto
<1>18. ASSUME NEW r \in Requests, DeleteRow(r) PROVE DocTypeOK'
  BY <1>18 DEF DeleteRow, Goto
<1>19. ASSUME NEW r \in Requests, NEW f \in hashes[r], CheckRemaining(r, f)
       PROVE  DocTypeOK'
  BY <1>19 DEF CheckRemaining, Goto
<1>20. ASSUME NEW r \in Requests, DeleteFile(r) PROVE DocTypeOK'
  BY <1>20 DEF DeleteFile, Goto
<1>21. ASSUME NEW r \in Requests, CheckedAll(r) PROVE DocTypeOK'
  BY <1>21 DEF CheckedAll, End, Goto
<1>22. ASSUME NEW r \in Requests, NEW s \in Subjects, DeleteSubject(r, s)
       PROVE  DocTypeOK'
  BY <1>22, HeldType DEF DeleteSubject, Goto
<1>23. ASSUME NEW r \in Requests, ListDocuments(r) PROVE DocTypeOK'
  BY <1>23 DEF ListDocuments, Of, Goto
<1>24. ASSUME NEW r \in Requests, DeleteCollection(r) PROVE DocTypeOK'
  BY <1>24 DEF DeleteCollection, Goto
<1>25. ASSUME NEW r \in Requests, DeleteRows(r) PROVE DocTypeOK'
  BY <1>25 DEF DeleteRows, Goto
<1>26. ASSUME NEW r \in Requests, RemoveSubject(r) PROVE DocTypeOK'
  BY <1>26 DEF RemoveSubject, End, Goto
<1>27. ASSUME NEW r \in Requests, RequestStops(r) PROVE DocTypeOK'
  BY <1>27 DEF RequestStops, End, Goto
<1>28. CASE UNCHANGED docVars
  BY <1>28 DEF docVars
<1> QED
  BY <1>1, <1>2, <1>3, <1>4, <1>5, <1>6, <1>7, <1>8, <1>9, <1>10, <1>11, <1>12,
     <1>13, <1>14, <1>15, <1>16, <1>17, <1>18, <1>19, <1>20, <1>21, <1>22,
     <1>23, <1>24, <1>25, <1>26, <1>27, <1>28
  DEF DocNext, UploadStep, IngestStep, DeleteStep

LEMMA InitDocTypeOK == DocInit => DocTypeOK
BY DEF DocInit, NoDocuments, DocTypeOK, RequestPC, UploadPC, IngestPC, DeletePC

\* The model's data stay within their types, for any constants.
THEOREM TypeCorrect == DocSpec => []DocTypeOK
BY InitDocTypeOK, StepDocTypeOK, PTL DEF DocSpec

-----------------------------------------------------------------------------
(* The inductive invariant of the rows. *)

\* A row has the id of the upload that made it, and while that upload's ingest
\* runs, the subject and content the ingest knows.  A delete cannot break it:
\* it only takes rows away; a save that brings a row back is the ingest's own.
RowsOwned ==
  \A d \in rows :
    /\ pc[d.id] \in IngestPC \cup {"done"}
    /\ pc[d.id] \in IngestPC
         => d.subject = doc[d.id].subject /\ d.file = doc[d.id].file

RowsInv == UniqueContent /\ RowsOwned /\ ProcessingHasIngest

\* Nothing but r moves.
OnlyMoves(r) ==
  \A q \in Requests \ {r} : pc'[q] = pc[q] /\ doc'[q] = doc[q]

\* A request that is not an ingest owns no row, so rows it leaves or removes
\* keep their owners.
LEMMA RowsKept ==
  ASSUME DocTypeOK, RowsInv, NEW r \in Requests,
         pc[r] \notin IngestPC \cup {"done"},
         rows' \subseteq rows, stops' = stops, OnlyMoves(r)
  PROVE  RowsInv'
<1> USE RowFields DEF RowsInv, OnlyMoves, DocTypeOK
<1>1. \A d \in rows : d.id \in Requests \ {r}
  BY DEF RowsOwned
<1>2. UniqueContent'
  BY DEF UniqueContent
<1>3. RowsOwned'
  BY <1>1 DEF RowsOwned
<1>4. ProcessingHasIngest'
  BY <1>1 DEF ProcessingHasIngest
<1> QED
  BY <1>2, <1>3, <1>4

\* An ingest that goes on without saving.
LEMMA IngestMoves ==
  ASSUME DocTypeOK, RowsInv, NEW r \in Requests,
         pc[r] \in IngestPC, pc'[r] \in IngestPC, doc' = doc,
         rows' = rows, stops' = stops, OnlyMoves(r)
  PROVE  RowsInv'
<1> USE RowFields DEF RowsInv, OnlyMoves, DocTypeOK
<1>1. UniqueContent'
  BY DEF UniqueContent
<1>2. RowsOwned'
  BY DEF RowsOwned
<1>3. ProcessingHasIngest'
  BY DEF ProcessingHasIngest
<1> QED
  BY <1>1, <1>2, <1>3

\* An ingest that finds its row gone, or cannot save it again, ends without
\* leaving one behind.
LEMMA IngestGone ==
  ASSUME DocTypeOK, RowsInv, NEW r \in Requests,
         pc[r] \in IngestPC, pc'[r] \in IngestPC \cup {"done"},
         Stored(doc[r]) = {}, rows' = rows, stops' = stops, OnlyMoves(r)
  PROVE  RowsInv'
<1> USE RowFields DEF RowsInv, OnlyMoves, DocTypeOK
<1>1. \A d \in rows : d.id \in Requests \ {r}
  BY DEF Stored
<1>2. UniqueContent'
  BY DEF UniqueContent
<1>3. RowsOwned'
  BY <1>1 DEF RowsOwned
<1>4. ProcessingHasIngest'
  BY <1>1 DEF ProcessingHasIngest
<1> QED
  BY <1>2, <1>3, <1>4

\* An ingest that saves: it replaces its own row, or brings it back while no
\* other row has the content.
LEMMA IngestSaves ==
  ASSUME DocTypeOK, RowsInv, NEW r \in Requests, NEW st \in Status,
         pc[r] \in IngestPC, Saved(doc[r], st), stops' = stops, OnlyMoves(r),
         \/ pc'[r] \in IngestPC /\ doc'[r] = doc[r]
         \/ pc'[r] = "done" /\ st \in {"ready", "failed"}
  PROVE  RowsInv'
<1> DEFINE new == HasStatus(doc[r], st)
<1> USE RowFields DEF DocTypeOK
<1>1. /\ doc[r] \in Handle /\ doc[r].file \in Files
      /\ new.id = r /\ new.subject = doc[r].subject /\ new.file = doc[r].file
      /\ new.status = st
  BY RowType DEF IngestPC
<1>2. /\ rows' = (rows \ Stored(doc[r])) \cup {new}
      /\ \A d \in rows \ Stored(doc[r]) :
           /\ d.id # r
           /\ ~(d.subject = new.subject /\ d.file = new.file)
  <2>1. \A d \in Stored(doc[r]) : d.subject = new.subject /\ d.file = new.file
    BY <1>1 DEF Stored, RowsInv, RowsOwned, IngestPC
  <2>2. \A d \in rows \ Stored(doc[r]) : d.id # r
    BY <1>1 DEF Stored, IngestPC
  <2>3. \A d \in rows \ Stored(doc[r]) :
          ~(d.subject = new.subject /\ d.file = new.file)
    <3>1. CASE Stored(doc[r]) # {}
      <4>1. PICK e \in Stored(doc[r]) : TRUE
        BY <3>1
      <4>2. e \in rows
        BY DEF Stored
      <4> QED
        BY <2>1, <4>1, <4>2 DEF RowsInv, UniqueContent
    <3>2. CASE ~Known(doc[r])
      BY <1>1, <3>2 DEF Known
    <3> QED
      BY <3>1, <3>2 DEF Saved
  <2> QED
    BY <2>2, <2>3 DEF Saved
<1>3. UniqueContent'
  BY <1>1, <1>2 DEF RowsInv, UniqueContent
<1>4. RowsOwned'
  <2>1. ASSUME NEW d \in rows \ Stored(doc[r])
        PROVE  pc'[d.id] = pc[d.id] /\ doc'[d.id] = doc[d.id]
    BY <1>2 DEF OnlyMoves
  <2>2. /\ pc'[new.id] \in IngestPC \cup {"done"}
        /\ pc'[new.id] \in IngestPC => doc'[new.id] = doc[r]
    BY <1>1 DEF IngestPC
  <2> QED
    BY <1>1, <1>2, <2>1, <2>2 DEF RowsInv, RowsOwned
<1>5. ProcessingHasIngest'
  BY <1>1, <1>2 DEF RowsInv, ProcessingHasIngest, OnlyMoves
<1> QED
  BY <1>3, <1>4, <1>5 DEF RowsInv

LEMMA StepRowsInv == DocTypeOK /\ RowsInv /\ [DocNext]_docVars => RowsInv'
<1> SUFFICES ASSUME DocTypeOK, RowsInv, [DocNext]_docVars PROVE RowsInv'
  OBVIOUS
<1> USE DEF UploadPC, IngestPC, DeletePC, OnlyMoves
<1>1. ASSUME NEW r \in Requests, NEW s \in Subjects, NEW f \in Files, Upload(r, s, f)
      PROVE  RowsInv'
  BY <1>1, RowsKept DEF Upload, Goto, DocTypeOK
<1>2. ASSUME NEW r \in Requests, FindExisting(r) \/ FileExists(r) \/ UploadFile(r)
      PROVE  RowsInv'
  BY <1>2, RowsKept DEF FindExisting, FileExists, UploadFile, End, Goto, DocTypeOK
<1>3. ASSUME NEW r \in Requests, InsertRow(r) PROVE RowsInv'
  <2> DEFINE new == HasStatus(doc[r], "pending")
  <2>1. CASE Known(doc[r])
    BY <1>3, <2>1, RowsKept DEF InsertRow, End, Goto, DocTypeOK
  <2>2. CASE ~Known(doc[r])
    <3>1. /\ new.id = r /\ new.subject = doc[r].subject /\ new.file = doc[r].file
          /\ new.status = "pending"
      BY <1>3, RowType DEF InsertRow, DocTypeOK, Status
    <3>2. /\ rows' = rows \cup {new} /\ pc'[r] = "load" /\ doc' = doc
          /\ stops' = stops
          /\ \A q \in Requests \ {r} : pc'[q] = pc[q]
      BY <1>3, <2>2 DEF InsertRow, Goto, DocTypeOK
    <3>3. \A d \in rows : d.id \in Requests /\ d.id # r
      BY <1>3, RowFields DEF InsertRow, RowsInv, RowsOwned, DocTypeOK
    <3>4. UniqueContent'
      BY <2>2, <3>1, <3>2, <3>3 DEF RowsInv, UniqueContent, Known
    <3>5. RowsOwned'
      BY <3>1, <3>2, <3>3 DEF RowsInv, RowsOwned
    <3>6. ProcessingHasIngest'
      BY <3>1, <3>2, <3>3 DEF RowsInv, ProcessingHasIngest
    <3> QED
      BY <3>4, <3>5, <3>6 DEF RowsInv
  <2> QED
    BY <2>1, <2>2
<1>4. ASSUME NEW r \in Requests, IngestLoad(r) PROVE RowsInv'
  BY <1>4, IngestMoves, IngestGone DEF IngestLoad, End, Goto, DocTypeOK
<1>5. ASSUME NEW r \in Requests, MarkProcessing(r) PROVE RowsInv'
  <2>1. CASE Refused(doc[r]) /\ End(r)
    BY <1>5, <2>1, IngestGone DEF MarkProcessing, Refused, End, Goto, DocTypeOK
  <2>2. CASE Saved(doc[r], "processing") /\ Goto(r, "download") /\ doc' = doc
    BY <1>5, <2>2, IngestSaves DEF MarkProcessing, Goto, DocTypeOK, Status
  <2> QED
    BY <1>5, <2>1, <2>2 DEF MarkProcessing
<1>6. ASSUME NEW r \in Requests,
             \/ Download(r) \/ Prepare(r) \/ ClearChunks(r) \/ UpsertChunks(r)
             \/ IngestBump(r) \/ IngestError(r)
      PROVE  RowsInv'
  BY <1>6, IngestMoves
  DEF Download, Prepare, ClearChunks, UpsertChunks, IngestBump, IngestError, Goto,
      DocTypeOK
<1>7. ASSUME NEW r \in Requests, SaveOutcome(r) PROVE RowsInv'
  <2>1. CASE Refused(doc[r])
    BY <1>7, <2>1, IngestGone DEF SaveOutcome, Refused, End, Goto, DocTypeOK
  <2>2. ASSUME NEW st \in {"ready", "failed"}, Saved(doc[r], st) PROVE RowsInv'
    BY <1>7, <2>2, IngestSaves DEF SaveOutcome, End, Goto, DocTypeOK, Status
  <2> QED
    BY <1>7, <2>1, <2>2 DEF SaveOutcome
<1>8. ASSUME NEW r \in Requests, NEW d \in rows, Delete(r, d) PROVE RowsInv'
  BY <1>8, RowsKept DEF Delete, Goto, DocTypeOK
<1>9. ASSUME NEW r \in Requests,
             \/ DeleteChunks(r) \/ DeleteBump(r) \/ DeleteRow(r)
             \/ \E f \in hashes[r] : CheckRemaining(r, f)
             \/ DeleteFile(r) \/ CheckedAll(r)
      PROVE  RowsInv'
  BY <1>9, RowsKept
  DEF DeleteChunks, DeleteBump, DeleteRow, CheckRemaining, DeleteFile, CheckedAll,
      End, Goto, DocTypeOK
<1>10. ASSUME NEW r \in Requests, NEW s \in Subjects, DeleteSubject(r, s)
       PROVE  RowsInv'
  BY <1>10, RowsKept DEF DeleteSubject, Goto, DocTypeOK
<1>11. ASSUME NEW r \in Requests,
              \/ ListDocuments(r) \/ DeleteCollection(r) \/ DeleteRows(r)
              \/ RemoveSubject(r)
       PROVE  RowsInv'
  BY <1>11, RowsKept
  DEF ListDocuments, DeleteCollection, DeleteRows, RemoveSubject, End, Goto, DocTypeOK
<1>12. ASSUME NEW r \in Requests, RequestStops(r) PROVE RowsInv'
  <2>1. rows' = rows /\ stops' # 0 /\ pc'[r] = "done" /\ OnlyMoves(r)
    BY <1>12 DEF RequestStops, End, Goto, DocTypeOK
  <2>2. UniqueContent' /\ ProcessingHasIngest'
    BY <2>1 DEF RowsInv, UniqueContent, ProcessingHasIngest
  <2>3. RowsOwned'
    BY <2>1, RowFields DEF RowsInv, RowsOwned, DocTypeOK
  <2> QED
    BY <2>2, <2>3 DEF RowsInv
<1>13. CASE UNCHANGED docVars
  BY <1>13 DEF docVars, RowsInv, UniqueContent, RowsOwned, ProcessingHasIngest
<1> QED
  BY <1>1, <1>2, <1>3, <1>4, <1>5, <1>6, <1>7, <1>8, <1>9, <1>10, <1>11, <1>12,
     <1>13
  DEF DocNext, UploadStep, IngestStep, DeleteStep

LEMMA InitRowsInv == DocInit => RowsInv
BY DEF DocInit, NoDocuments, RowsInv, UniqueContent, RowsOwned, ProcessingHasIngest

\* However uploads, ingests and deletes interleave, a subject never has two
\* rows for one content, and no two rows have one id.
THEOREM OneRowPerContent == DocSpec => []UniqueContent
<1>1. RowsInv => UniqueContent
  BY DEF RowsInv
<1> QED
  BY <1>1, InitDocTypeOK, StepDocTypeOK, InitRowsInv, StepRowsInv, PTL DEF DocSpec

\* While nothing died, every pending or processing row has the ingest that
\* will end that state.
THEOREM ProcessingIsOwned == DocSpec => []ProcessingHasIngest
<1>1. RowsInv => ProcessingHasIngest
  BY DEF RowsInv
<1> QED
  BY <1>1, InitDocTypeOK, StepDocTypeOK, InitRowsInv, StepRowsInv, PTL DEF DocSpec

-----------------------------------------------------------------------------
(* No leaked objects. *)

\* A delete works on the content its document has, even if an ingest brings
\* the row back meanwhile.
DeletesAgree ==
  \A r \in Requests : pc[r] \in {"unindex", "touch", "row"} =>
    LET q == doc[r].id IN
      /\ pc[q] \in IngestPC \cup {"done"}
      /\ pc[q] \in IngestPC => doc[q].file = doc[r].file
      /\ \A d \in rows : d.id = q => d.file = doc[r].file

\* Request r has the object of f in hand: it is about to insert a row for it,
\* to look whether it is referenced, or to remove the whole subject.
Holds(r, f) ==
  \/ pc[r] = "insert" /\ doc[r].file = f
  \/ pc[r] \in {"check", "drop"} /\ (f \in hashes[r] \/ doc[r].file = NoFile)
  \/ pc[r] = "drop" /\ doomed[r] = f
  \/ pc[r] = "subject"

HasRow(f) == \E d \in rows : d.file = f

\* While nothing died and every subject stands, each object has a row or a
\* request that will give it one or remove it.
ObjectsOwned ==
  stops = 0 /\ subjects = Subjects
    => \A f \in objects : HasRow(f) \/ \E r \in Requests : Holds(r, f)

\* DeletesAgree survives a step of an upload or ingest r that keeps its row's
\* content, and of a delete that takes rows away.
LEMMA AgreeKept ==
  ASSUME DocTypeOK, RowsInv, DeletesAgree, NEW r \in Requests, OnlyMoves(r),
         \A d \in rows' : d \in rows \/ (d.id = r /\ d.file = doc[r].file),
         \/ pc[r] \in IngestPC /\ pc'[r] \in IngestPC /\ doc'[r] = doc[r]
         \/ pc[r] \in IngestPC /\ pc'[r] = "done"
         \/ pc[r] \notin IngestPC \cup {"done"} /\ rows' \subseteq rows
         \/ pc[r] = "insert",
         \/ pc'[r] \notin {"unindex", "touch", "row"}
         \/ pc[r] \in {"unindex", "touch"} /\ doc'[r] = doc[r]
  PROVE  DeletesAgree'
<1> USE RowFields, HandleFields DEF OnlyMoves, UploadPC, IngestPC, DeletePC
<1> SUFFICES ASSUME NEW q \in Requests, pc'[q] \in {"unindex", "touch", "row"}
             PROVE  /\ pc'[doc'[q].id] \in IngestPC \cup {"done"}
                    /\ pc'[doc'[q].id] \in IngestPC
                         => doc'[doc'[q].id].file = doc'[q].file
                    /\ \A d \in rows' : d.id = doc'[q].id => d.file = doc'[q].file
  BY DEF DeletesAgree
<1> DEFINE o == doc[q].id
<1>1. /\ pc[q] \in {"unindex", "touch", "row"} /\ doc'[q] = doc[q]
      /\ o \in Requests
  BY DEF DocTypeOK
<1>2. /\ pc[o] \in IngestPC \cup {"done"}
      /\ pc[o] \in IngestPC => doc[o].file = doc[q].file
      /\ \A d \in rows : d.id = o => d.file = doc[q].file
  BY <1>1 DEF DeletesAgree
<1>3. CASE o # r
  BY <1>1, <1>2, <1>3
<1>4. CASE o = r
  <2>1. pc[r] \in IngestPC
    BY <1>2, <1>4
  <2>2. doc[r].file = doc[q].file
    BY <1>2, <1>4, <2>1
  <2> QED
    BY <1>1, <1>2, <1>4, <2>1, <2>2
<1> QED
  BY <1>3, <1>4

\* ObjectsOwned survives a step of r that keeps every content's row, adds no
\* object, and lets go of nothing.
LEMMA OwnedKept ==
  ASSUME DocTypeOK, ObjectsOwned, NEW r \in Requests, OnlyMoves(r),
         \A q \in Requests \ {r} : hashes'[q] = hashes[q] /\ doomed'[q] = doomed[q],
         \A d \in rows : \E e \in rows' : e.file = d.file,
         objects' \subseteq objects, stops' = stops, subjects' = subjects,
         \A f \in objects' : Holds(r, f) => HasRow(f)' \/ Holds(r, f)'
  PROVE  ObjectsOwned'
<1> SUFFICES ASSUME stops = 0, subjects = Subjects, NEW f \in objects'
             PROVE  HasRow(f)' \/ \E q \in Requests : Holds(q, f)'
  BY DEF ObjectsOwned
<1>1. CASE HasRow(f)
  BY <1>1 DEF HasRow
<1>2. CASE \E q \in Requests : Holds(q, f)
  <2>1. PICK q \in Requests : Holds(q, f)
    BY <1>2
  <2>2. q # r => Holds(q, f)'
    BY <2>1 DEF Holds, OnlyMoves
  <2> QED
    BY <2>1, <2>2
<1> QED
  BY <1>1, <1>2 DEF ObjectsOwned

\* The files with a row after a save include the files with one before.
LEMMA SavedFiles ==
  ASSUME DocTypeOK, RowsInv, NEW r \in Requests, NEW st \in Status,
         pc[r] \in IngestPC, Saved(doc[r], st)
  PROVE  /\ \A d \in rows : \E e \in rows' : e.file = d.file
         /\ \A d \in rows' : d \in rows \/ (d.id = r /\ d.file = doc[r].file)
<1> DEFINE new == HasStatus(doc[r], st)
<1>1. /\ doc[r] \in Handle /\ doc[r].file \in Files /\ doc[r].id = r
      /\ new.id = r /\ new.file = doc[r].file
  BY RowType DEF IngestPC, DocTypeOK
<1>2. rows' = (rows \ Stored(doc[r])) \cup {new}
  BY DEF Saved
<1>3. \A d \in Stored(doc[r]) : d.file = new.file
  BY <1>1 DEF Stored, RowsInv, RowsOwned
<1> QED
  BY <1>1, <1>2, <1>3

LEMMA StepDeletesAgree ==
  DocTypeOK /\ RowsInv /\ DeletesAgree /\ [DocNext]_docVars => DeletesAgree'
<1> SUFFICES ASSUME DocTypeOK, RowsInv, DeletesAgree, [DocNext]_docVars
             PROVE  DeletesAgree'
  OBVIOUS
<1> USE DEF UploadPC, IngestPC, DeletePC, OnlyMoves
<1>1. ASSUME NEW r \in Requests, NEW s \in Subjects, NEW f \in Files, Upload(r, s, f)
      PROVE  DeletesAgree'
  BY <1>1, AgreeKept DEF Upload, Goto, DocTypeOK
<1>2. ASSUME NEW r \in Requests, FindExisting(r) \/ FileExists(r) \/ UploadFile(r)
      PROVE  DeletesAgree'
  BY <1>2, AgreeKept DEF FindExisting, FileExists, UploadFile, End, Goto, DocTypeOK
<1>3. ASSUME NEW r \in Requests, InsertRow(r) PROVE DeletesAgree'
  <2>1. \A d \in rows' : d \in rows \/ (d.id = r /\ d.file = doc[r].file)
    BY <1>3, RowType DEF InsertRow, DocTypeOK, Status
  <2> QED
    BY <1>3, <2>1, AgreeKept DEF InsertRow, End, Goto, DocTypeOK
<1>4. ASSUME NEW r \in Requests, IngestLoad(r) PROVE DeletesAgree'
  BY <1>4, AgreeKept DEF IngestLoad, End, Goto, DocTypeOK
<1>5. ASSUME NEW r \in Requests, MarkProcessing(r) PROVE DeletesAgree'
  <2>1. CASE Refused(doc[r]) /\ End(r)
    BY <1>5, <2>1, AgreeKept DEF MarkProcessing, Refused, End, Goto, DocTypeOK
  <2>2. CASE Saved(doc[r], "processing") /\ Goto(r, "download") /\ doc' = doc
    <3>1. \A d \in rows' : d \in rows \/ (d.id = r /\ d.file = doc[r].file)
      BY <1>5, <2>2, SavedFiles DEF MarkProcessing, Status
    <3> QED
      BY <1>5, <2>2, <3>1, AgreeKept DEF MarkProcessing, Goto, DocTypeOK
  <2> QED
    BY <1>5, <2>1, <2>2 DEF MarkProcessing
<1>6. ASSUME NEW r \in Requests,
             \/ Download(r) \/ Prepare(r) \/ ClearChunks(r) \/ UpsertChunks(r)
             \/ IngestBump(r) \/ IngestError(r)
      PROVE  DeletesAgree'
  BY <1>6, AgreeKept
  DEF Download, Prepare, ClearChunks, UpsertChunks, IngestBump, IngestError, Goto,
      DocTypeOK
<1>7. ASSUME NEW r \in Requests, SaveOutcome(r) PROVE DeletesAgree'
  <2>1. \A d \in rows' : d \in rows \/ (d.id = r /\ d.file = doc[r].file)
    BY <1>7, SavedFiles DEF SaveOutcome, Refused, Status
  <2> QED
    BY <1>7, <2>1, AgreeKept DEF SaveOutcome, End, Goto, DocTypeOK
<1>8. ASSUME NEW r \in Requests, NEW d \in rows, Delete(r, d) PROVE DeletesAgree'
  <2>1. /\ d.id \in Requests /\ d.file \in Files
        /\ doc'[r].id = d.id /\ doc'[r].file = d.file /\ d.id # r
        /\ pc'[r] = "unindex" /\ rows' = rows /\ OnlyMoves(r)
    BY <1>8, RowFields, HeldType DEF Delete, Goto, DocTypeOK, RowsInv, RowsOwned
  <2>2. \A e \in rows : e.id = d.id => e = d
    BY DEF RowsInv, UniqueContent
  <2>3. /\ pc'[d.id] \in IngestPC \cup {"done"}
        /\ pc'[d.id] \in IngestPC => doc'[d.id].file = d.file
    BY <2>1 DEF RowsInv, RowsOwned
  <2>4. ASSUME NEW q \in Requests \ {r}, pc'[q] \in {"unindex", "touch", "row"}
        PROVE  doc'[q].id # r /\ doc'[q].id \in Requests
    BY <1>8, <2>1, <2>4, HandleFields DEF Delete, DeletesAgree, DocTypeOK
  <2> QED
    BY <2>1, <2>2, <2>3, <2>4 DEF DeletesAgree
<1>9. ASSUME NEW r \in Requests,
             \/ DeleteChunks(r) \/ DeleteBump(r) \/ DeleteRow(r)
             \/ \E f \in hashes[r] : CheckRemaining(r, f)
             \/ DeleteFile(r) \/ CheckedAll(r)
      PROVE  DeletesAgree'
  BY <1>9, AgreeKept
  DEF DeleteChunks, DeleteBump, DeleteRow, CheckRemaining, DeleteFile, CheckedAll,
      End, Goto, DocTypeOK
<1>10. ASSUME NEW r \in Requests, NEW s \in Subjects, DeleteSubject(r, s)
       PROVE  DeletesAgree'
  BY <1>10, AgreeKept DEF DeleteSubject, Goto, DocTypeOK
<1>11. ASSUME NEW r \in Requests,
              \/ ListDocuments(r) \/ DeleteCollection(r) \/ DeleteRows(r)
              \/ RemoveSubject(r)
       PROVE  DeletesAgree'
  BY <1>11, AgreeKept
  DEF ListDocuments, DeleteCollection, DeleteRows, RemoveSubject, End, Goto, DocTypeOK
<1>12. ASSUME NEW r \in Requests, RequestStops(r) PROVE DeletesAgree'
  BY <1>12, AgreeKept DEF RequestStops, End, Goto, DocTypeOK, RequestPC
<1>13. CASE UNCHANGED docVars
  BY <1>13 DEF docVars, DeletesAgree
<1> QED
  BY <1>1, <1>2, <1>3, <1>4, <1>5, <1>6, <1>7, <1>8, <1>9, <1>10, <1>11, <1>12,
     <1>13
  DEF DocNext, UploadStep, IngestStep, DeleteStep

LEMMA StepObjectsOwned ==
  /\ DocTypeOK /\ RowsInv /\ DeletesAgree /\ ObjectsOwned /\ [DocNext]_docVars
  => ObjectsOwned'
<1> SUFFICES ASSUME DocTypeOK, RowsInv, DeletesAgree, ObjectsOwned, [DocNext]_docVars
             PROVE  ObjectsOwned'
  OBVIOUS
<1> USE DEF UploadPC, IngestPC, DeletePC, OnlyMoves, Holds
<1>1. ASSUME NEW r \in Requests, NEW s \in Subjects, NEW f \in Files, Upload(r, s, f)
      PROVE  ObjectsOwned'
  BY <1>1, OwnedKept DEF Upload, Goto, DocTypeOK
<1>2. ASSUME NEW r \in Requests, FindExisting(r) \/ FileExists(r)
      PROVE  ObjectsOwned'
  BY <1>2, OwnedKept DEF FindExisting, FileExists, End, Goto, DocTypeOK
<1>3. ASSUME NEW r \in Requests, UploadFile(r) PROVE ObjectsOwned'
  <2>1. /\ objects' = objects \cup {doc[r].file}
        /\ pc'[r] = "insert" /\ doc'[r].file = doc[r].file
        /\ \A q \in Requests, f \in Files : Holds(q, f) => Holds(q, f)'
        /\ rows' = rows /\ stops' = stops /\ subjects' = subjects
    BY <1>3 DEF UploadFile, Goto, DocTypeOK
  <2>2. \A f \in Files : HasRow(f) => HasRow(f)'
    BY <2>1 DEF HasRow
  <2>3. objects \subseteq Files
    BY DEF DocTypeOK
  <2> QED
    BY <2>1, <2>2, <2>3 DEF ObjectsOwned
<1>4. ASSUME NEW r \in Requests, InsertRow(r) PROVE ObjectsOwned'
  <2>1. \E e \in rows' : e.file = doc[r].file
    <3>1. CASE Known(doc[r])
      BY <1>4, <3>1 DEF InsertRow, Known
    <3>2. CASE ~Known(doc[r])
      <4>1. HasStatus(doc[r], "pending") \in rows'
        BY <1>4, <3>2 DEF InsertRow
      <4>2. HasStatus(doc[r], "pending").file = doc[r].file
        BY DEF HasStatus
      <4> QED
        BY <4>1, <4>2
    <3> QED
      BY <3>1, <3>2
  <2>2. rows \subseteq rows'
    BY <1>4 DEF InsertRow
  <2>3. \A f \in Files : Holds(r, f) => HasRow(f)'
    BY <1>4, <2>1 DEF InsertRow, HasRow
  <2> QED
    BY <1>4, <2>2, <2>3, OwnedKept DEF InsertRow, End, Goto, DocTypeOK
<1>5. ASSUME NEW r \in Requests, IngestLoad(r) PROVE ObjectsOwned'
  BY <1>5, OwnedKept DEF IngestLoad, End, Goto, DocTypeOK
<1>6. ASSUME NEW r \in Requests, MarkProcessing(r) PROVE ObjectsOwned'
  <2>1. \A d \in rows : \E e \in rows' : e.file = d.file
    BY <1>6, SavedFiles DEF MarkProcessing, Refused, Status
  <2> QED
    BY <1>6, <2>1, OwnedKept DEF MarkProcessing, End, Goto, DocTypeOK
<1>7. ASSUME NEW r \in Requests,
             \/ Download(r) \/ Prepare(r) \/ ClearChunks(r) \/ UpsertChunks(r)
             \/ IngestBump(r) \/ IngestError(r)
      PROVE  ObjectsOwned'
  BY <1>7, OwnedKept
  DEF Download, Prepare, ClearChunks, UpsertChunks, IngestBump, IngestError, Goto,
      DocTypeOK
<1>8. ASSUME NEW r \in Requests, SaveOutcome(r) PROVE ObjectsOwned'
  <2>1. \A d \in rows : \E e \in rows' : e.file = d.file
    BY <1>8, SavedFiles DEF SaveOutcome, Refused, Status
  <2> QED
    BY <1>8, <2>1, OwnedKept DEF SaveOutcome, End, Goto, DocTypeOK
<1>9. ASSUME NEW r \in Requests, NEW d \in rows, Delete(r, d) PROVE ObjectsOwned'
  BY <1>9, OwnedKept DEF Delete, Goto, DocTypeOK
<1>10. ASSUME NEW r \in Requests, DeleteChunks(r) \/ DeleteBump(r)
       PROVE  ObjectsOwned'
  BY <1>10, OwnedKept DEF DeleteChunks, DeleteBump, Goto, DocTypeOK
<1>11. ASSUME NEW r \in Requests, DeleteRow(r) PROVE ObjectsOwned'
  <2>1. SUFFICES ASSUME stops = 0, subjects = Subjects, NEW f \in objects
                 PROVE  HasRow(f)' \/ \E q \in Requests : Holds(q, f)'
    BY <1>11 DEF DeleteRow, ObjectsOwned
  <2>2. /\ rows' = rows \ Stored(doc[r])
        /\ pc'[r] = "check" /\ hashes'[r] = {doc[r].file}
        /\ pc[r] = "row"
    BY <1>11 DEF DeleteRow, Goto, DocTypeOK
  <2>3. CASE f = doc[r].file
    BY <2>2, <2>3
  <2>4. CASE f # doc[r].file /\ HasRow(f)
    <3>1. \A d \in Stored(doc[r]) : d.file = doc[r].file
      BY <2>2 DEF DeletesAgree, Stored
    <3> QED
      BY <2>2, <2>4, <3>1 DEF HasRow
  <2>5. CASE \E q \in Requests : Holds(q, f)
    <3>1. PICK q \in Requests : Holds(q, f)
      BY <2>5
    <3>2. q # r
      BY <2>2, <3>1
    <3>3. Holds(q, f)'
      BY <1>11, <3>1, <3>2 DEF DeleteRow, Goto, DocTypeOK
    <3> QED
      BY <3>3
  <2> QED
    BY <2>1, <2>3, <2>4, <2>5 DEF ObjectsOwned
<1>12. ASSUME NEW r \in Requests, NEW f \in hashes[r], CheckRemaining(r, f)
       PROVE  ObjectsOwned'
  <2>1. Referenced(r, f) => HasRow(f)'
    BY <1>12 DEF CheckRemaining, Referenced, HasRow
  <2> QED
    BY <1>12, <2>1, OwnedKept DEF CheckRemaining, Goto, DocTypeOK
<1>13. ASSUME NEW r \in Requests, DeleteFile(r) PROVE ObjectsOwned'
  BY <1>13, OwnedKept DEF DeleteFile, Goto, DocTypeOK
<1>14. ASSUME NEW r \in Requests, CheckedAll(r) PROVE ObjectsOwned'
  BY <1>14, OwnedKept DEF CheckedAll, End, Goto, DocTypeOK
<1>15. ASSUME NEW r \in Requests, NEW s \in Subjects, DeleteSubject(r, s)
       PROVE  ObjectsOwned'
  BY <1>15, OwnedKept DEF DeleteSubject, Goto, DocTypeOK
<1>16. ASSUME NEW r \in Requests, ListDocuments(r) \/ DeleteCollection(r)
       PROVE  ObjectsOwned'
  BY <1>16, OwnedKept DEF ListDocuments, DeleteCollection, Goto, DocTypeOK
<1>17. ASSUME NEW r \in Requests, DeleteRows(r) PROVE ObjectsOwned'
  <2>1. \A f \in objects : Holds(r, f)'
    BY <1>17 DEF DeleteRows, Goto, DocTypeOK
  <2>2. UNCHANGED <<stops, subjects, objects>>
    BY <1>17 DEF DeleteRows
  <2> QED
    BY <2>1, <2>2 DEF ObjectsOwned
<1>18. ASSUME NEW r \in Requests, RemoveSubject(r) PROVE ObjectsOwned'
  BY <1>18, HandleFields DEF RemoveSubject, DocTypeOK, ObjectsOwned
<1>19. ASSUME NEW r \in Requests, RequestStops(r) PROVE ObjectsOwned'
  BY <1>19 DEF RequestStops, DocTypeOK, ObjectsOwned
<1>20. CASE UNCHANGED docVars
  BY <1>20 DEF docVars, ObjectsOwned, HasRow
<1> QED
  BY <1>1, <1>2, <1>3, <1>4, <1>5, <1>6, <1>7, <1>8, <1>9, <1>10, <1>11, <1>12,
     <1>13, <1>14, <1>15, <1>16, <1>17, <1>18, <1>19, <1>20
  DEF DocNext, UploadStep, IngestStep, DeleteStep

\* Once every request has ended, each object belongs to a document, unless
\* something died or a whole subject was deleted.
THEOREM NoObjectLeaks == DocSpec => []NoStrandedObject
<1> DEFINE Inv == DocTypeOK /\ RowsInv /\ DeletesAgree /\ ObjectsOwned
<1>1. DocInit => Inv
  BY InitDocTypeOK, InitRowsInv DEF DocInit, NoDocuments, DeletesAgree, ObjectsOwned
<1>2. Inv /\ [DocNext]_docVars => Inv'
  BY StepDocTypeOK, StepRowsInv, StepDeletesAgree, StepObjectsOwned
<1>3. Inv => NoStrandedObject
  BY DEF ObjectsOwned, Holds, HasRow, NoStrandedObject, Quiet
<1> HIDE DEF Inv
<1> QED
  BY <1>1, <1>2, <1>3, PTL DEF DocSpec

-----------------------------------------------------------------------------
(* What an ask holds, and how it changes. *)

LEMMA AskingFields ==
  ASSUME NEW k \in Asking
  PROVE  /\ k.session \in Sessions /\ k.version \in Nat /\ k.corpus \subseteq Requests
         /\ k.first \in BOOLEAN /\ k.hit \in BOOLEAN /\ k.recalled \in BOOLEAN
BY Zenon DEF Asking

LEMMA OpeningType ==
  ASSUME NEW c \in Sessions
  PROVE  /\ Opening(c) \in Asking
         /\ Opening(c).session = c /\ Opening(c).version = 0
         /\ Opening(c).first = FALSE /\ Opening(c).recalled = FALSE
BY DEF Asking, Opening

LEMMA AskingFlags ==
  ASSUME NEW k \in Asking, NEW b \in BOOLEAN
  PROVE  /\ [k EXCEPT !.first = b] \in Asking
         /\ [k EXCEPT !.hit = b] \in Asking
         /\ [k EXCEPT !.recalled = b] \in Asking
BY DEF Asking

\* One field changes and the others stay.
LEMMA AskingChanges ==
  ASSUME NEW k \in Asking, NEW x
  PROVE  LET first == [k EXCEPT !.first = x]
             hit == [k EXCEPT !.hit = x]
             recalled == [k EXCEPT !.recalled = x]
             version1 == [k EXCEPT !.version = x]
             corpus == [k EXCEPT !.corpus = x]
         IN /\ first.first = x /\ first.session = k.session /\ first.version = k.version
            /\ first.recalled = k.recalled
            /\ recalled.recalled = x /\ recalled.session = k.session
            /\ recalled.first = k.first /\ recalled.version = k.version
            /\ hit.session = k.session /\ hit.first = k.first
            /\ hit.recalled = k.recalled /\ hit.version = k.version
            /\ version1.version = x /\ version1.session = k.session
            /\ version1.first = k.first /\ version1.recalled = k.recalled
            /\ version1.corpus = k.corpus
            /\ corpus.corpus = x /\ corpus.session = k.session
            /\ corpus.first = k.first /\ corpus.recalled = k.recalled
            /\ corpus.version = k.version
BY DEF Asking

LEMMA AskingReads ==
  ASSUME NEW k \in Asking, NEW v \in Nat, NEW X \in SUBSET Requests
  PROVE  /\ [k EXCEPT !.version = v] \in Asking
         /\ [k EXCEPT !.corpus = X] \in Asking
BY DEF Asking

\* An ask that goes to label and then holds k; the others stay as they are.
Turn(a, label, k) ==
  /\ Move(a, label)
  /\ ask' = [ask EXCEPT ![a] = k]

AsksTyped ==
  /\ at \in [Asks -> AskPC]
  /\ ask \in [Asks -> Asking \cup {NoAsk}]
  /\ \A a \in Asks : Busy(a) => ask[a] \in Asking

CachesTyped ==
  /\ said \subseteq Message
  /\ cache \subseteq Entry
  /\ index \in [Subjects -> Index \cup {NoIndex}]
  /\ overtaken \subseteq Asks
  /\ raced \subseteq Asks

LEMMA TutorTypeParts ==
  /\ TutorTypeOK <=> AsksTyped /\ CachesTyped
  /\ TutorTypeOK' <=> AsksTyped' /\ CachesTyped'
BY DEF TutorTypeOK, AsksTyped, CachesTyped

LEMMA TurnTyped ==
  ASSUME AsksTyped, NEW a \in Asks, NEW label \in AskPC,
         NEW k \in Asking \cup {NoAsk}, Turn(a, label, k),
         label \notin {"idle", "done"} => k \in Asking
  PROVE  /\ AsksTyped'
         /\ at'[a] = label /\ ask'[a] = k
         /\ \A b \in Asks \ {a} : at'[b] = at[b] /\ ask'[b] = ask[b]
<1>1. /\ at'[a] = label /\ ask'[a] = k
      /\ \A b \in Asks \ {a} : at'[b] = at[b] /\ ask'[b] = ask[b]
      /\ at' \in [Asks -> AskPC] /\ ask' \in [Asks -> Asking \cup {NoAsk}]
  BY DEF AsksTyped, Turn, Move
<1> QED
  BY <1>1 DEF AsksTyped, Busy

LEMMA SubjectType ==
  ASSUME AsksTyped, NEW a \in Asks, Busy(a)
  PROVE  /\ ask[a] \in Asking /\ ask[a].session \in Sessions
         /\ Subject(a) \in Subjects
BY SubjectOfAssumption, AskingFields DEF AsksTyped, Subject

LEMMA CurrentType ==
  ASSUME DocTypeOK, NEW s \in Subjects
  PROVE  Current(s) \in Nat \ {0}
BY DEF DocTypeOK, Current

\* What an ask reads goes into what it holds.
LEMMA AskReads ==
  ASSUME DocTypeOK, TutorTypeOK, NEW a \in Asks, Busy(a)
  PROVE  LET s == Subject(a) IN
         /\ [ask[a] EXCEPT !.version = Current(s)] \in Asking
         /\ [ask[a] EXCEPT !.corpus = chunks[s]] \in Asking
         /\ index[s] # NoIndex =>
              /\ index[s].version \in Nat /\ index[s].corpus \subseteq Requests
              /\ [ask[a] EXCEPT !.corpus = index[s].corpus] \in Asking
<1>1. Subject(a) \in Subjects /\ ask[a] \in Asking
  BY SubjectType, TutorTypeParts
<1>2. Current(Subject(a)) \in Nat /\ chunks[Subject(a)] \in SUBSET Requests
  BY <1>1, CurrentType DEF DocTypeOK
<1>3. index[Subject(a)] # NoIndex => index[Subject(a)] \in Index
  BY <1>1, TutorTypeParts DEF CachesTyped
<1>4. \A i \in Index : i.version \in Nat /\ i.corpus \in SUBSET Requests
  BY DEF Index
<1> QED
  BY <1>1, <1>2, <1>3, <1>4, AskingReads

LEMMA TurnNothing ==
  ASSUME AsksTyped, NEW a \in Asks, NEW label, Move(a, label), UNCHANGED ask
  PROVE  Turn(a, label, ask[a])
BY DEF AsksTyped, Turn

LEMMA MessageType ==
  ASSUME NEW c \in Sessions, NEW a \in Asks, NEW role \in {"user", "assistant"}
  PROVE  [session |-> c, ask |-> a, role |-> role] \in Message
BY DEF Message

\* What one step of an ask is, but for what it writes.
LEMMA AskStepTurns ==
  ASSUME DocTypeOK, TutorTypeOK, AskNext
  PROVE  \E a \in Asks, label \in AskPC, k \in Asking \cup {NoAsk} :
           /\ Turn(a, label, k)
           /\ label \notin {"idle", "done"} => k \in Asking
<1> USE TutorTypeParts DEF AskPC, Answering
<1>1. ASSUME NEW a \in Asks, NEW c \in Sessions, Ask(a, c)
      PROVE  Turn(a, "count", Opening(c)) /\ Opening(c) \in Asking
  BY <1>1, OpeningType DEF Ask, Turn
<1>2. ASSUME NEW a \in Asks, AskStops(a) \/ StoreAnswer(a) \/ ReplayAnswer(a)
      PROVE  Turn(a, "done", NoAsk)
  BY <1>2 DEF AskStops, StoreAnswer, ReplayAnswer, AskEnds, Turn
<1>3. ASSUME NEW a \in Asks, CountMessages(a)
      PROVE  \E label \in AskPC, k \in Asking : Turn(a, label, k)
  <2> DEFINE k == [ask[a] EXCEPT !.first = (Messages(a) = {})]
  <2>1. ask[a] \in Asking
    BY <1>3, SubjectType DEF CountMessages, Busy
  <2>2. (Messages(a) = {}) \in BOOLEAN
    BY Zenon
  <2>3. k \in Asking
    BY <2>1, <2>2, AskingFlags
  <2>4. ask' = [ask EXCEPT ![a] = k]
    BY <1>3 DEF CountMessages
  <2> QED
    BY <1>3, <2>3, <2>4 DEF CountMessages, Turn
<1>4. ASSUME NEW a \in Asks, ReadHistory(a)
      PROVE  \E label \in AskPC, k \in Asking : Turn(a, label, k)
  <2> DEFINE k == [ask[a] EXCEPT !.recalled = (Messages(a) # {})]
  <2>1. ask[a] \in Asking
    BY <1>4, SubjectType DEF ReadHistory, Busy
  <2>2. (Messages(a) # {}) \in BOOLEAN
    BY Zenon
  <2>3. k \in Asking
    BY <2>1, <2>2, AskingFlags
  <2>4. ask' = [ask EXCEPT ![a] = k]
    BY <1>4 DEF ReadHistory
  <2> QED
    BY <1>4, <2>3, <2>4 DEF ReadHistory, Turn
<1>5. ASSUME NEW a \in Asks, LookupVersion(a) \/ RetrieveVersion(a) \/ StampVersion(a)
      PROVE  \E label \in AskPC, k \in Asking : Turn(a, label, k)
  <2> DEFINE k == [ask[a] EXCEPT !.version = Current(Subject(a))]
  <2>1. k \in Asking
    BY <1>5, AskReads DEF LookupVersion, RetrieveVersion, StampVersion, Busy
  <2>2. ask' = [ask EXCEPT ![a] = k]
    BY <1>5 DEF LookupVersion, RetrieveVersion, StampVersion
  <2> QED
    BY <1>5, <2>1, <2>2 DEF LookupVersion, RetrieveVersion, StampVersion, Turn
<1>6. ASSUME NEW a \in Asks, ReadIndex(a) \/ FetchCorpus(a)
      PROVE  \E label \in AskPC, k \in Asking : Turn(a, label, k)
  <2>1. Busy(a)
    BY <1>6 DEF ReadIndex, FetchCorpus, Busy
  <2>2. CASE ask' = ask
    <3>1. \E label \in AskPC : Move(a, label)
      BY <1>6 DEF ReadIndex, FetchCorpus
    <3> QED
      BY <2>1, <2>2, <3>1, TurnNothing, SubjectType
  <2>3. CASE FetchCorpus(a)
    BY <2>1, <2>3, AskReads DEF FetchCorpus, Turn
  <2>4. CASE ReadIndex(a) /\ ask' # ask
    <3> DEFINE k == [ask[a] EXCEPT !.corpus = index[Subject(a)].corpus]
    <3>1. /\ index[Subject(a)] # NoIndex /\ Move(a, "generate")
          /\ ask' = [ask EXCEPT ![a] = k]
      BY <2>4 DEF ReadIndex
    <3> QED
      BY <2>1, <3>1, AskReads DEF Turn
  <2> QED
    BY <1>6, <2>2, <2>3, <2>4
<1>7. ASSUME NEW a \in Asks, Lookup(a)
      PROVE  \E label \in AskPC, k \in Asking : Turn(a, label, k)
  <2>1. Busy(a) /\ ask[a] \in Asking
    BY <1>7, SubjectType DEF Lookup, Busy
  <2>2. CASE ask' = [ask EXCEPT ![a].hit = TRUE] /\ Move(a, "history")
    BY <2>1, <2>2, AskingFlags DEF Turn
  <2>3. CASE Move(a, "quota") /\ UNCHANGED ask
    BY <2>1, <2>3, TurnNothing
  <2> QED
    BY <1>7, <2>2, <2>3 DEF Lookup
<1>8. ASSUME NEW a \in Asks,
             CheckQuota(a) \/ InsertQuestion(a) \/ KeepIndex(a) \/ Generate(a)
      PROVE  \E label \in AskPC, k \in Asking : Turn(a, label, k)
  <2>1. Busy(a) /\ ask' = ask
    BY <1>8 DEF CheckQuota, InsertQuestion, KeepIndex, Generate, Busy
  <2>2. \E label \in AskPC : Move(a, label)
    BY <1>8 DEF CheckQuota, InsertQuestion, KeepIndex, Generate
  <2> QED
    BY <2>1, <2>2, TurnNothing, SubjectType
<1>9. ASSUME NEW a \in Asks, InsertAnswer(a)
      PROVE  \E label \in AskPC, k \in Asking \cup {NoAsk} :
               Turn(a, label, k) /\ (label # "done" => k \in Asking)
  <2>1. CASE Move(a, "stamp") /\ UNCHANGED ask
    BY <1>9, <2>1, TurnNothing, SubjectType DEF InsertAnswer, Busy
  <2>2. CASE AskEnds(a)
    BY <2>2 DEF AskEnds, Turn
  <2> QED
    BY <1>9, <2>1, <2>2 DEF InsertAnswer
<1> HIDE DEF AskPC, Answering
<1>10. "done" \in AskPC /\ "count" \in AskPC
  BY DEF AskPC
<1> QED
  BY <1>1, <1>2, <1>3, <1>4, <1>5, <1>6, <1>7, <1>8, <1>9, <1>10 DEF AskNext
-----------------------------------------------------------------------------
(* Types. *)

LEMMA StepCachesTyped ==
  DocTypeOK /\ TutorTypeOK /\ AskNext => CachesTyped'
<1> SUFFICES ASSUME DocTypeOK, TutorTypeOK, AskNext PROVE CachesTyped'
  OBVIOUS
<1> USE TutorTypeParts
<1>1. ASSUME NEW a \in Asks,
             InsertQuestion(a) \/ InsertAnswer(a) \/ ReplayAnswer(a)
      PROVE  CachesTyped'
  <2>1. ask[a].session \in Sessions
    BY <1>1, SubjectType DEF InsertQuestion, InsertAnswer, ReplayAnswer, Busy
  <2>2. \A role \in {"user", "assistant"} :
          [session |-> ask[a].session, ask |-> a, role |-> role] \in Message
    BY <2>1, MessageType
  <2>3. \E m \in Message : said' = said \cup {m}
    BY <1>1, <2>2 DEF InsertQuestion, InsertAnswer, ReplayAnswer, Answered
  <2> QED
    BY <1>1, <2>3 DEF InsertQuestion, InsertAnswer, ReplayAnswer, CachesTyped
<1>2. ASSUME NEW a \in Asks, KeepIndex(a) PROVE CachesTyped'
  <2>1. Subject(a) \in Subjects /\ ask[a].version \in Nat /\ ask[a].corpus \subseteq Requests
    BY <1>2, SubjectType, AskingFields DEF KeepIndex, Busy
  <2>2. [version |-> ask[a].version, corpus |-> ask[a].corpus] \in Index
    BY <2>1 DEF Index
  <2>3. index' \in [Subjects -> Index \cup {NoIndex}]
    BY <1>2, <2>2 DEF KeepIndex, CachesTyped
  <2> QED
    BY <1>2, <2>3 DEF KeepIndex, CachesTyped
<1>3. ASSUME NEW a \in Asks, StoreAnswer(a) PROVE CachesTyped'
  <2> DEFINE e == [subject |-> Subject(a), version |-> ask[a].version, by |-> a,
                   recalled |-> ask[a].recalled, corpus |-> ask[a].corpus]
  <2>1. /\ Subject(a) \in Subjects /\ ask[a].version \in Nat
        /\ ask[a].recalled \in BOOLEAN /\ ask[a].corpus \in SUBSET Requests
    BY <1>3, SubjectType, AskingFields DEF StoreAnswer, Busy
  <2>2. e \in Entry
    BY <2>1, Zenon DEF Entry
  <2>3. cache' \subseteq cache \cup {e}
    BY <1>3 DEF StoreAnswer
  <2> HIDE DEF e
  <2>4. cache' \subseteq Entry
    BY <2>2, <2>3 DEF CachesTyped
  <2> QED
    BY <1>3, <2>4 DEF StoreAnswer, CachesTyped
<1>4. ASSUME NEW a \in Asks,
             \/ \E c \in Sessions : Ask(a, c)
             \/ CountMessages(a) \/ LookupVersion(a) \/ Lookup(a) \/ CheckQuota(a)
             \/ ReadHistory(a) \/ RetrieveVersion(a) \/ ReadIndex(a) \/ FetchCorpus(a)
             \/ Generate(a) \/ StampVersion(a) \/ AskStops(a)
      PROVE  CachesTyped'
  <2>1. UNCHANGED <<said, cache, index, overtaken>> /\ raced' \subseteq Asks
    BY <1>4
    DEF Ask, Beside, CountMessages, LookupVersion, Lookup, CheckQuota, ReadHistory,
        RetrieveVersion, ReadIndex, FetchCorpus, Generate, StampVersion, AskStops,
        CachesTyped
  <2> QED
    BY <2>1 DEF CachesTyped
<1> QED
  BY <1>1, <1>2, <1>3, <1>4 DEF AskNext

LEMMA StepTutorTypeOK ==
  DocTypeOK /\ TutorTypeOK /\ [TutorNext]_tutorVars => TutorTypeOK'
<1> SUFFICES ASSUME DocTypeOK, TutorTypeOK, [TutorNext]_tutorVars
             PROVE  TutorTypeOK'
  OBVIOUS
<1>1. CASE AskNext
  <2>1. AsksTyped'
    BY <1>1, AskStepTurns, TurnTyped, TutorTypeParts
  <2> QED
    BY <1>1, <2>1, StepCachesTyped, TutorTypeParts
<1>2. CASE DocumentsMove \/ UNCHANGED tutorVars
  <2>1. /\ UNCHANGED <<at, ask, said, cache, index, raced>>
        /\ overtaken' \subseteq overtaken \cup Asks
    BY <1>2 DEF DocumentsMove, tutorVars, askVars
  <2> QED
    BY <2>1 DEF TutorTypeOK, Busy
<1> QED
  BY <1>1, <1>2 DEF TutorNext

\* To the documents every step is a step of theirs or none.
LEMMA TutorStepsDocs == [TutorNext]_tutorVars => [DocNext]_docVars
BY DEF TutorNext, DocumentsMove, tutorVars

LEMMA InitDocs ==
  ASSUME TutorInit PROVE DocTypeOK /\ RowsInv
<1>1. version \in [Subjects -> Nat]
  BY DEF TutorInit
<1>2. /\ pc \in [Requests -> RequestPC]
      /\ \A r \in Requests : pc[r] = "idle"
  BY DEF TutorInit, NoDocuments, RequestPC
<1>3. DocTypeOK
  BY <1>1, <1>2, StopsAssumption
  DEF TutorInit, NoDocuments, DocTypeOK, UploadPC, IngestPC
<1> QED
  BY <1>3
  DEF TutorInit, NoDocuments, RowsInv, UniqueContent, RowsOwned, ProcessingHasIngest

\* The documents stay what they are without the Tutor.
THEOREM TutorKeepsDocs == TutorSpec => [](DocTypeOK /\ RowsInv)
BY InitDocs, TutorStepsDocs, StepDocTypeOK, StepRowsInv, PTL DEF TutorSpec

\* The asks, the caches and the messages stay within their types.
THEOREM TutorTypeCorrect == TutorSpec => []TutorTypeOK
<1>1. TutorInit => TutorTypeOK
  BY DEF TutorInit, TutorTypeOK, AskPC, Answering, Busy
<1> QED
  BY <1>1, StepTutorTypeOK, TutorKeepsDocs, PTL DEF TutorSpec
-----------------------------------------------------------------------------
(* The first question.  An ask that may be cached has seen no message of its *)
(* session; only another ask of the session can have put one there since.    *)

AloneInv ==
  /\ CachedAlone
  /\ \A a, b \in Asks :
       Busy(a) /\ Busy(b) /\ a # b /\ ask[a].session = ask[b].session => a \in raced
  /\ \A a \in Asks \ raced :
       /\ at[a] \in {"version", "lookup", "quota", "history"} /\ ask[a].first
            => Messages(a) = {}
       /\ at[a] \in {"stamp", "store"} => ask[a].first
       /\ Busy(a) /\ (ask[a].first \/ at[a] = "count") => ~ask[a].recalled

\* The parts of it that speak of one ask.
AloneAsk(a) ==
  a \notin raced =>
    /\ at[a] \in {"version", "lookup", "quota", "history"} /\ ask[a].first
         => Messages(a) = {}
    /\ at[a] \in {"stamp", "store"} => ask[a].first
    /\ Busy(a) /\ (ask[a].first \/ at[a] = "count") => ~ask[a].recalled

Apart ==
  \A a, b \in Asks :
    Busy(a) /\ Busy(b) /\ a # b /\ ask[a].session = ask[b].session => a \in raced

LEMMA AloneParts ==
  /\ AloneInv <=> CachedAlone /\ Apart /\ \A a \in Asks : AloneAsk(a)
  /\ AloneInv' <=> CachedAlone' /\ Apart' /\ \A a \in Asks : AloneAsk(a)'
BY DEF AloneInv, Apart, AloneAsk

\* The session of a busy ask stays its own, so asks that were apart still are.
LEMMA ApartKept ==
  ASSUME AsksTyped, Apart, NEW a \in Asks, NEW label \in AskPC,
         NEW k \in Asking \cup {NoAsk}, Turn(a, label, k),
         label \notin {"idle", "done"} => k \in Asking /\ Busy(a) /\ k.session = ask[a].session,
         raced' = raced
  PROVE  Apart'
<1>1. /\ at'[a] = label /\ ask'[a] = k
      /\ \A b \in Asks \ {a} : at'[b] = at[b] /\ ask'[b] = ask[b]
  BY TurnTyped
<1>2. \A b \in Asks : Busy(b)' => Busy(b) /\ ask'[b].session = ask[b].session
  BY <1>1 DEF Busy
<1> QED
  BY <1>2 DEF Apart

\* A step of another ask that says nothing in this one's session.
LEMMA OtherAlone ==
  ASSUME NEW b \in Asks, AloneAsk(b), at'[b] = at[b], ask'[b] = ask[b],
         raced \subseteq raced',
         \/ said' = said
         \/ \E m : said' = said \cup {m} /\ (m.session # ask[b].session \/ b \in raced)
         \/ ~Busy(b)
  PROVE  AloneAsk(b)'
<1>1. CASE ~Busy(b)
  BY <1>1 DEF AloneAsk, Busy
<1>2. CASE b \notin raced /\ \/ said' = said
                             \/ \E m : said' = said \cup {m} /\ m.session # ask[b].session
  <2>1. Messages(b)' = Messages(b)
    BY <1>2 DEF Messages
  <2> QED
    BY <2>1 DEF AloneAsk, Busy
<1>3. CASE b \in raced
  BY <1>3 DEF AloneAsk
<1> QED
  BY <1>1, <1>2, <1>3

\* A step that changes neither what was said nor what an ask knows of it.
LEMMA QuietAlone ==
  ASSUME AsksTyped, AloneInv, NEW a \in Asks, NEW label \in AskPC, NEW k \in Asking,
         Turn(a, label, k), Busy(a),
         k.session = ask[a].session, k.first = ask[a].first, k.recalled = ask[a].recalled,
         label \in {"version", "lookup", "quota", "history"}
           => at[a] \in {"version", "lookup", "quota", "history"},
         label = "store" => at[a] = "stamp",
         label = "stamp" => ask[a].first, label # "count",
         UNCHANGED <<said, cache, raced>>
  PROVE  AloneInv'
<1>1. /\ at'[a] = label /\ ask'[a] = k
      /\ \A b \in Asks \ {a} : at'[b] = at[b] /\ ask'[b] = ask[b]
  BY TurnTyped
<1>2. Apart'
  BY ApartKept, AloneParts
<1>3. \A b \in Asks \ {a} : AloneAsk(b)'
  BY <1>1, OtherAlone, AloneParts
<1>4. AloneAsk(a)'
  <2>1. AloneAsk(a) /\ Messages(a)' = Messages(a)
    BY <1>1, AloneParts DEF Messages
  <2> QED
    BY <1>1, <2>1 DEF AloneAsk, Busy
<1>5. CachedAlone'
  BY AloneParts DEF CachedAlone
<1> QED
  BY <1>2, <1>3, <1>4, <1>5, AloneParts

\* An ask that ends leaves the others alone.
LEMMA EndAlone ==
  ASSUME AsksTyped, AloneInv, NEW a \in Asks, AskEnds(a), Busy(a), UNCHANGED raced,
         \/ said' = said
         \/ \E m : said' = said \cup {m} /\ m.session = ask[a].session,
         \A e \in cache' \ cache : e.recalled => e.by \in raced
  PROVE  AloneInv'
<1>1. /\ Turn(a, "done", NoAsk) /\ at'[a] = "done"
      /\ \A b \in Asks \ {a} : at'[b] = at[b] /\ ask'[b] = ask[b]
  BY TurnTyped DEF AskEnds, Turn, AskPC
<1>2. Apart'
  BY <1>1, ApartKept, AloneParts DEF AskPC
<1>3. ASSUME NEW b \in Asks \ {a} PROVE AloneAsk(b)'
  <2>1. ~Busy(b) \/ ask[b].session # ask[a].session \/ b \in raced
    BY AloneParts DEF Apart
  <2> QED
    BY <1>1, <2>1, OtherAlone, AloneParts
<1>4. AloneAsk(a)'
  BY <1>1 DEF AloneAsk, Busy
<1>5. CachedAlone'
  BY AloneParts DEF CachedAlone
<1> QED
  BY <1>2, <1>3, <1>4, <1>5, AloneParts

LEMMA StepAloneInv ==
  DocTypeOK /\ TutorTypeOK /\ AloneInv /\ [TutorNext]_tutorVars => AloneInv'
<1> SUFFICES ASSUME DocTypeOK, TutorTypeOK, AloneInv, [TutorNext]_tutorVars
             PROVE  AloneInv'
  OBVIOUS
<1>0. AsksTyped
  BY TutorTypeParts
<1>1. ASSUME NEW a \in Asks, NEW c \in Sessions, Ask(a, c) PROVE AloneInv'
  <2>1. /\ Turn(a, "count", Opening(c)) /\ Opening(c) \in Asking
        /\ Opening(c).session = c /\ ~Opening(c).first /\ ~Opening(c).recalled
    BY <1>1, OpeningType DEF Ask, Turn
  <2>2. /\ at'[a] = "count" /\ ask'[a] = Opening(c)
        /\ \A b \in Asks \ {a} : at'[b] = at[b] /\ ask'[b] = ask[b]
    BY <1>0, <2>1, TurnTyped DEF AskPC
  <2>3. /\ raced \subseteq raced'
        /\ \A b \in Asks \ {a} :
             Busy(b) /\ ask[b].session = c => a \in raced' /\ b \in raced'
    BY <1>1 DEF Ask, Beside
  <2>4. Apart'
    BY <2>1, <2>2, <2>3, AloneParts DEF Apart, Busy
  <2>5. \A b \in Asks \ {a} : AloneAsk(b)'
    BY <1>1, <2>2, <2>3, OtherAlone, AloneParts DEF Ask
  <2>6. AloneAsk(a)'
    BY <2>1, <2>2 DEF AloneAsk
  <2>7. CachedAlone'
    BY <1>1, <2>3, AloneParts DEF CachedAlone, Ask
  <2> QED
    BY <2>4, <2>5, <2>6, <2>7, AloneParts
<1>2. ASSUME NEW a \in Asks, CountMessages(a) PROVE AloneInv'
  <2> DEFINE k == [ask[a] EXCEPT !.first = (Messages(a) = {})]
             label == IF Messages(a) = {} THEN "version" ELSE "quota"
  <2>1. Busy(a) /\ ask[a] \in Asking
    BY <1>0, <1>2, SubjectType DEF CountMessages, Busy
  <2>2. (Messages(a) = {}) \in BOOLEAN
    BY Zenon
  <2>3. k \in Asking
    BY <2>1, <2>2, AskingFlags
  <2>4. Turn(a, label, k) /\ label \in AskPC /\ UNCHANGED <<said, cache, raced>>
    BY <1>2 DEF CountMessages, Turn, AskPC
  <2>5. k.session = ask[a].session /\ k.recalled = ask[a].recalled
    BY <2>1, AskingChanges
  <2>6. k.first => Messages(a) = {}
    <3> DEFINE none == (Messages(a) = {})
    <3> HIDE DEF none
    <3>1. [ask[a] EXCEPT !.first = none].first = none
      BY <2>1, AskingChanges
    <3> QED
      BY <3>1, Zenon DEF none
  <2> HIDE DEF k, label
  <2>7. /\ at'[a] = label /\ ask'[a] = k
        /\ \A b \in Asks \ {a} : at'[b] = at[b] /\ ask'[b] = ask[b]
    BY <1>0, <2>3, <2>4, TurnTyped
  <2>8. Messages(a)' = Messages(a)
    BY <2>4, <2>5, <2>7 DEF Messages
  <2>9. Apart'
    BY <1>0, <2>1, <2>3, <2>4, <2>5, ApartKept, AloneParts
  <2>10. \A b \in Asks \ {a} : AloneAsk(b)'
    BY <2>4, <2>7, OtherAlone, AloneParts
  <2>11. AloneAsk(a)'
    <3>1. a \in raced \/ ~ask[a].recalled
      BY <1>2, <2>1, AloneParts DEF AloneAsk, CountMessages
    <3>2. at'[a] \in {"version", "quota"}
      BY <2>7 DEF label
    <3> QED
      BY <2>4, <2>5, <2>6, <2>7, <2>8, <3>1, <3>2 DEF AloneAsk
  <2>12. CachedAlone'
    BY <2>4, AloneParts DEF CachedAlone
  <2> QED
    BY <2>9, <2>10, <2>11, <2>12, AloneParts
<1>3. ASSUME NEW a \in Asks, ReadHistory(a) PROVE AloneInv'
  <2> DEFINE k == [ask[a] EXCEPT !.recalled = (Messages(a) # {})]
  <2>1. Busy(a) /\ ask[a] \in Asking
    BY <1>0, <1>3, SubjectType DEF ReadHistory, Busy
  <2>2. (Messages(a) # {}) \in BOOLEAN
    BY Zenon
  <2>3. k \in Asking
    BY <2>1, <2>2, AskingFlags
  <2>4. Turn(a, "question", k) /\ "question" \in AskPC /\ UNCHANGED <<said, cache, raced>>
    BY <1>3 DEF ReadHistory, Turn, AskPC
  <2>5. k.session = ask[a].session /\ k.first = ask[a].first
    BY <2>1, AskingChanges
  <2>6. k.recalled => Messages(a) # {}
    <3> DEFINE some == (Messages(a) # {})
    <3> HIDE DEF some
    <3>1. [ask[a] EXCEPT !.recalled = some].recalled = some
      BY <2>1, AskingChanges
    <3> QED
      BY <3>1, Zenon DEF some
  <2> HIDE DEF k
  <2>7. /\ at'[a] = "question" /\ ask'[a] = k
        /\ \A b \in Asks \ {a} : at'[b] = at[b] /\ ask'[b] = ask[b]
    BY <1>0, <2>3, <2>4, TurnTyped
  <2>8. Apart'
    BY <1>0, <2>1, <2>3, <2>4, <2>5, ApartKept, AloneParts
  <2>9. \A b \in Asks \ {a} : AloneAsk(b)'
    BY <2>4, <2>7, OtherAlone, AloneParts
  <2>10. AloneAsk(a)'
    <3>1. a \in raced \/ ~ask[a].first \/ Messages(a) = {}
      BY <1>3, AloneParts DEF AloneAsk, ReadHistory
    <3> QED
      BY <2>4, <2>5, <2>6, <2>7, <3>1 DEF AloneAsk
  <2>11. CachedAlone'
    BY <2>4, AloneParts DEF CachedAlone
  <2> QED
    BY <2>8, <2>9, <2>10, <2>11, AloneParts
<1>4. ASSUME NEW a \in Asks, LookupVersion(a) \/ RetrieveVersion(a) \/ StampVersion(a)
      PROVE  AloneInv'
  <2> DEFINE k == [ask[a] EXCEPT !.version = Current(Subject(a))]
  <2>1. Busy(a) /\ ask[a] \in Asking
    BY <1>0, <1>4, SubjectType DEF LookupVersion, RetrieveVersion, StampVersion, Busy
  <2>2. k \in Asking
    BY <2>1, AskReads
  <2>3. /\ k.session = ask[a].session /\ k.first = ask[a].first
        /\ k.recalled = ask[a].recalled
    BY <2>1, AskingChanges
  <2>4. PICK label \in AskPC :
          /\ Turn(a, label, k) /\ label \in {"lookup", "index", "store"}
          /\ label = "lookup" => at[a] = "version"
          /\ label = "store" => at[a] = "stamp"
    BY <1>4 DEF LookupVersion, RetrieveVersion, StampVersion, Turn, AskPC, Answering
  <2>5. UNCHANGED <<said, cache, raced>>
    BY <1>4 DEF LookupVersion, RetrieveVersion, StampVersion
  <2> HIDE DEF k
  <2> QED
    BY <1>0, <2>1, <2>2, <2>3, <2>4, <2>5, QuietAlone
<1>5. ASSUME NEW a \in Asks, Lookup(a) \/ ReadIndex(a) \/ FetchCorpus(a)
      PROVE  AloneInv'
  <2>1. Busy(a) /\ ask[a] \in Asking
    BY <1>0, <1>5, SubjectType DEF Lookup, ReadIndex, FetchCorpus, Busy
  <2>2. PICK label \in AskPC, k \in Asking :
          /\ Turn(a, label, k) /\ label \in {"history", "quota", "fetch", "generate", "keep"}
          /\ label \in {"history", "quota"} => at[a] = "lookup"
          /\ k.session = ask[a].session /\ k.first = ask[a].first
          /\ k.recalled = ask[a].recalled
    <3>1. CASE Lookup(a)
      <4>1. CASE ask' = [ask EXCEPT ![a].hit = TRUE] /\ Move(a, "history")
        <5> DEFINE k == [ask[a] EXCEPT !.hit = TRUE]
        <5>1. k \in Asking
          BY <2>1, AskingFlags
        <5>2. k.session = ask[a].session /\ k.first = ask[a].first
              /\ k.recalled = ask[a].recalled
          BY <2>1, AskingChanges
        <5>3. Turn(a, "history", k) /\ at[a] = "lookup"
          BY <3>1, <4>1 DEF Lookup, Turn
        <5> HIDE DEF k
        <5>4. "history" \in AskPC
          BY DEF AskPC
        <5> QED
          BY <5>1, <5>2, <5>3, <5>4, Zenon
      <4>2. CASE Move(a, "quota") /\ UNCHANGED ask
        BY <1>0, <2>1, <3>1, <4>2, TurnNothing DEF Lookup, AskPC
      <4> QED
        BY <3>1, <4>1, <4>2 DEF Lookup
    <3>2. CASE FetchCorpus(a)
      <4> DEFINE k == [ask[a] EXCEPT !.corpus = chunks[Subject(a)]]
      <4>2. k \in Asking
        BY <1>0, <2>1, AskReads
      <4>3. k.session = ask[a].session /\ k.first = ask[a].first
            /\ k.recalled = ask[a].recalled
        BY <2>1, AskingChanges
      <4>4. Turn(a, "keep", k)
        BY <3>2 DEF FetchCorpus, Turn
      <4> HIDE DEF k
      <4>5. "keep" \in AskPC /\ "keep" \notin {"history", "quota"}
        BY DEF AskPC, Answering
      <4> QED
        BY <4>2, <4>3, <4>4, <4>5, Zenon
    <3>3. CASE ReadIndex(a) /\ ask' # ask
      <4> DEFINE i == index[Subject(a)]
                 k == [ask[a] EXCEPT !.corpus = i.corpus]
      <4>1. Turn(a, "generate", k) /\ i # NoIndex
        BY <3>3 DEF ReadIndex, Turn
      <4>2. k \in Asking
        BY <1>0, <2>1, <4>1, AskReads
      <4>3. k.session = ask[a].session /\ k.first = ask[a].first
            /\ k.recalled = ask[a].recalled
        BY <2>1, AskingChanges
      <4> HIDE DEF k
      <4>4. "generate" \in AskPC /\ "generate" \notin {"history", "quota"}
        BY DEF AskPC, Answering
      <4> QED
        BY <4>1, <4>2, <4>3, <4>4, Zenon
    <3>4. CASE ReadIndex(a) /\ ask' = ask
      <4>1. \E label \in {"generate", "fetch"} : Move(a, label)
        BY <3>4 DEF ReadIndex
      <4> QED
        BY <1>0, <2>1, <3>4, <4>1, TurnNothing DEF AskPC, Answering
    <3> QED
      BY <1>5, <3>1, <3>2, <3>3, <3>4
  <2>3. UNCHANGED <<said, cache, raced>>
    BY <1>5 DEF Lookup, ReadIndex, FetchCorpus
  <2> QED
    BY <1>0, <1>5, <2>1, <2>2, <2>3, QuietAlone
<1>6. ASSUME NEW a \in Asks, CheckQuota(a) \/ KeepIndex(a) \/ Generate(a)
      PROVE  AloneInv'
  <2>1. Busy(a) /\ ask[a] \in Asking
    BY <1>0, <1>6, SubjectType DEF CheckQuota, KeepIndex, Generate, Busy
  <2>2. PICK label \in AskPC :
          /\ Move(a, label) /\ label \in {"history", "generate", "answer"}
          /\ label = "history" => at[a] = "quota"
    BY <1>6 DEF CheckQuota, KeepIndex, Generate, AskPC, Answering
  <2>3. Turn(a, label, ask[a]) /\ UNCHANGED <<said, cache, raced>>
    BY <1>0, <1>6, <2>2, TurnNothing DEF CheckQuota, KeepIndex, Generate
  <2> QED
    BY <1>0, <2>1, <2>2, <2>3, QuietAlone
<1>7. ASSUME NEW a \in Asks,
             \/ InsertQuestion(a)
             \/ InsertAnswer(a) /\ ask[a].first /\ Move(a, "stamp") /\ UNCHANGED ask
      PROVE  AloneInv'
  <2>1. Busy(a) /\ ask[a] \in Asking
    BY <1>0, <1>7, SubjectType DEF InsertQuestion, InsertAnswer, Busy
  <2>2. PICK label \in {"replay", "retrieve", "stamp"} :
          /\ Turn(a, label, ask[a])
          /\ label = "stamp" => ask[a].first
    <3>1. CASE InsertQuestion(a)
      <4>1. \E label \in {"replay", "retrieve"} : Move(a, label)
        BY <3>1 DEF InsertQuestion
      <4> QED
        BY <1>0, <3>1, <4>1, TurnNothing DEF InsertQuestion
    <3>2. CASE ask[a].first /\ Move(a, "stamp") /\ UNCHANGED ask
      BY <1>0, <3>2, TurnNothing
    <3> QED
      BY <1>7, <3>1, <3>2
  <2>3. label \in AskPC
    BY DEF AskPC, Answering
  <2>4. /\ at'[a] = label /\ ask'[a] = ask[a]
        /\ \A b \in Asks \ {a} : at'[b] = at[b] /\ ask'[b] = ask[b]
    BY <1>0, <2>1, <2>2, <2>3, TurnTyped
  <2>5. /\ \E m : said' = said \cup {m} /\ m.session = ask[a].session
        /\ UNCHANGED <<cache, raced>>
    <3> DEFINE said1(role) == [session |-> ask[a].session, ask |-> a, role |-> role]
    <3>1. \/ said' = said \cup {said1("user")}
          \/ said' = said \cup {said1("assistant")}
      BY <1>7 DEF InsertQuestion, InsertAnswer, Answered
    <3>2. \A role : said1(role).session = ask[a].session
      OBVIOUS
    <3> HIDE DEF said1
    <3>3. UNCHANGED <<cache, raced>>
      BY <1>7 DEF InsertQuestion, InsertAnswer
    <3> QED
      BY <3>1, <3>2, <3>3
  <2>6. Apart'
    BY <1>0, <2>1, <2>2, <2>3, <2>5, ApartKept, AloneParts
  <2>7. ASSUME NEW b \in Asks \ {a} PROVE AloneAsk(b)'
    <3>1. ~Busy(b) \/ ask[b].session # ask[a].session \/ b \in raced
      BY <2>1, AloneParts DEF Apart
    <3> QED
      BY <2>4, <2>5, <3>1, OtherAlone, AloneParts
  <2>8. AloneAsk(a)'
    <3>1. AloneAsk(a)
      BY AloneParts
    <3> QED
      BY <2>1, <2>2, <2>4, <2>5, <3>1 DEF AloneAsk, Busy
  <2>9. CachedAlone'
    BY <2>5, AloneParts DEF CachedAlone
  <2> QED
    BY <2>6, <2>7, <2>8, <2>9, AloneParts
<1>8. ASSUME NEW a \in Asks,
             \/ InsertAnswer(a) /\ AskEnds(a)
             \/ ReplayAnswer(a) \/ StoreAnswer(a) \/ AskStops(a)
      PROVE  AloneInv'
  <2>1. AskEnds(a) /\ Busy(a) /\ UNCHANGED raced
    BY <1>8 DEF InsertAnswer, ReplayAnswer, StoreAnswer, AskStops, Busy
  <2>2. \/ said' = said
        \/ \E m : said' = said \cup {m} /\ m.session = ask[a].session
    BY <1>8 DEF InsertAnswer, ReplayAnswer, StoreAnswer, AskStops, Answered
  <2>3. \A e \in cache' \ cache : e.recalled => e.by \in raced
    <3>1. CASE StoreAnswer(a)
      <4>1. a \in raced \/ ~ask[a].recalled
        BY <2>1, <3>1, AloneParts DEF AloneAsk, StoreAnswer
      <4>2. \A e \in cache' \ cache : e.recalled = ask[a].recalled /\ e.by = a
        BY <3>1 DEF StoreAnswer
      <4> QED
        BY <4>1, <4>2
    <3>2. CASE cache' = cache
      BY <3>2
    <3> QED
      BY <1>8, <3>1, <3>2 DEF InsertAnswer, ReplayAnswer, AskStops
  <2> QED
    BY <1>0, <2>1, <2>2, <2>3, EndAlone
<1>9. CASE DocumentsMove \/ UNCHANGED tutorVars
  <2>1. UNCHANGED <<at, ask, said, cache, raced>>
    BY <1>9 DEF DocumentsMove, tutorVars, askVars
  <2> QED
    BY <2>1 DEF AloneInv, CachedAlone, Busy, Messages
<1>10. ASSUME NEW a \in Asks, InsertAnswer(a)
       PROVE  \/ ask[a].first /\ Move(a, "stamp") /\ UNCHANGED ask
              \/ AskEnds(a)
  BY <1>10 DEF InsertAnswer
<1> QED
  BY <1>1, <1>2, <1>3, <1>4, <1>5, <1>6, <1>7, <1>8, <1>9, <1>10
  DEF TutorNext, AskNext

\* An answer is cached with earlier messages of its session in its prompt only
\* if two asks of that session ran at the same time.
THEOREM OnlyFirstAnswersAreCached == TutorSpec => []CachedAlone
<1>1. TutorInit => AloneInv
  BY DEF TutorInit, AloneInv, CachedAlone, Busy
<1>2. AloneInv => CachedAlone
  BY DEF AloneInv
<1> QED
  BY <1>1, <1>2, StepAloneInv, TutorKeepsDocs, TutorTypeCorrect, PTL DEF TutorSpec
-----------------------------------------------------------------------------
(* What the documents do to a corpus.  A change of a subject's chunks that   *)
(* its version has not followed yet has an excuse, and keeps it until the    *)
(* version follows or the subject goes.                                      *)

\* Chunks of an ingest that has not bumped the version, and never will if it
\* has failed.
Unannounced(s, id) ==
  /\ id \in chunks[s] /\ pc[id] # "ready"
  /\ \A d \in rows : d.id = id => d.status # "ready"

\* A delete between its change of the chunks and what makes that known.
Removing(s, r) ==
  /\ pc[r] \in {"touch", "rowsOf", "check", "drop", "subject"}
  /\ doc[r].subject = s
  /\ pc[r] # "touch" => doc[r].file = NoFile

Excused(s) ==
  \/ stops > 0 \/ s \notin subjects
  \/ \E r \in Requests : Unannounced(s, r) \/ Removing(s, r)

BeforeUpsert == UploadPC \cup
  {"idle", "load", "mark", "download", "text", "clear", "upsert"}

\* An ingest has chunks nowhere before it puts them there, and then in its own
\* subject; and what is ready has ended.
ChunksInv ==
  /\ \A r \in Requests, s \in Subjects : r \in chunks[s] =>
       /\ pc[r] \notin BeforeUpsert
       /\ pc[r] = "bump" => doc[r].subject = s
  /\ \A d \in rows : d.status = "ready" => pc[d.id] = "done"

DocStep(r) == UploadStep(r) \/ IngestStep(r) \/ DeleteStep(r) \/ RequestStops(r)

\* The steps that touch what can be searched.
ChunkStep(r) ==
  \/ ClearChunks(r) \/ UpsertChunks(r) \/ DeleteChunks(r) \/ DeleteCollection(r)

LEMMA ChunkSteps ==
  ASSUME NEW r \in Requests, DocStep(r) PROVE UNCHANGED chunks \/ ChunkStep(r)
BY DEF DocStep, ChunkStep, UploadStep, Upload, FindExisting, FileExists, UploadFile,
       InsertRow, IngestStep, IngestLoad, MarkProcessing, Download, Prepare,
       IngestBump, IngestError, SaveOutcome, DeleteStep, Delete, DeleteBump,
       DeleteRow, CheckRemaining, DeleteFile, CheckedAll, DeleteSubject,
       ListDocuments, DeleteRows, RemoveSubject, RequestStops

\* What every step of a request leaves alone.
LEMMA DocStepMoves ==
  ASSUME DocTypeOK, NEW r \in Requests, DocStep(r)
  PROVE  /\ OnlyMoves(r) /\ pc[r] # "done"
         /\ subjects' \subseteq subjects
         /\ stops' = stops \/ (stops' = stops + 1 /\ pc'[r] = "done")
<1> USE DEF DocTypeOK, OnlyMoves, Goto, End
<1>1. CASE UploadStep(r)
  BY <1>1 DEF UploadStep, Upload, FindExisting, FileExists, UploadFile, InsertRow
<1>2. CASE IngestStep(r)
  BY <1>2 DEF IngestStep, IngestLoad, MarkProcessing, Download, Prepare, ClearChunks,
              UpsertChunks, IngestBump, IngestError, SaveOutcome
<1>3. CASE DeleteStep(r)
  BY <1>3 DEF DeleteStep, Delete, DeleteChunks, DeleteBump, DeleteRow, CheckRemaining,
              DeleteFile, CheckedAll, DeleteSubject, ListDocuments, DeleteCollection,
              DeleteRows, RemoveSubject
<1>4. CASE RequestStops(r)
  BY <1>4 DEF RequestStops
<1> QED
  BY <1>1, <1>2, <1>3, <1>4 DEF DocStep

\* A version moves with the label of the request that bumps it.
LEMMA VersionSteps ==
  ASSUME DocTypeOK, NEW r \in Requests, DocStep(r)
  PROVE  /\ \/ UNCHANGED version
            \/ /\ BumpVersion(doc[r].subject) /\ pc[r] \in {"bump", "touch"}
               /\ stops' = stops
         /\ pc[r] = "touch" \/ pc'[r] = "ready" =>
              BumpVersion(doc[r].subject) \/ stops' = stops + 1
         /\ pc'[r] = "ready" => pc[r] = "bump"
<1> USE DEF DocTypeOK, Goto, End
<1>1. CASE UploadStep(r)
  BY <1>1 DEF UploadStep, Upload, FindExisting, FileExists, UploadFile, InsertRow
<1>2. CASE IngestStep(r)
  BY <1>2 DEF IngestStep, IngestLoad, MarkProcessing, Download, Prepare, ClearChunks,
              UpsertChunks, IngestBump, IngestError, SaveOutcome
<1>3. CASE DeleteStep(r)
  BY <1>3 DEF DeleteStep, Delete, DeleteChunks, DeleteBump, DeleteRow, CheckRemaining,
              DeleteFile, CheckedAll, DeleteSubject, ListDocuments, DeleteCollection,
              DeleteRows, RemoveSubject
<1>4. CASE RequestStops(r)
  BY <1>4 DEF RequestStops
<1> QED
  BY <1>1, <1>2, <1>3, <1>4 DEF DocStep

\* A request writes no row but its own, and a ready one only as it ends.
LEMMA RowSteps ==
  ASSUME DocTypeOK, NEW r \in Requests, DocStep(r), NEW d \in rows' \ rows
  PROVE  /\ d.id = r /\ pc[r] \in UploadPC \cup IngestPC
         /\ d.status = "ready" => pc[r] = "ready" /\ pc'[r] = "done"
<1>0. pc[r] \in UploadPC \cup IngestPC => doc[r].id = r /\ doc[r].file \in Files
  BY DEF DocTypeOK
<1>h. \A st : HasStatus(doc[r], st).id = doc[r].id /\ HasStatus(doc[r], st).status = st
  BY DEF HasStatus
<1>1. CASE InsertRow(r)
  BY <1>0, <1>h, <1>1 DEF InsertRow, UploadPC
<1>2. CASE MarkProcessing(r)
  BY <1>0, <1>h, <1>2 DEF MarkProcessing, Saved, Refused, IngestPC
<1>3. CASE SaveOutcome(r)
  <2>1. d = HasStatus(doc[r], IF pc[r] = "ready" THEN "ready" ELSE "failed")
    BY <1>3 DEF SaveOutcome, Saved, Refused
  <2>2. pc'[r] = "done" /\ pc[r] \in IngestPC
    BY <1>3 DEF SaveOutcome, End, Goto, DocTypeOK, IngestPC
  <2> QED
    BY <1>0, <1>h, <2>1, <2>2
<1>4. CASE rows' \subseteq rows
  BY <1>4
<1>5. rows' \subseteq rows \/ InsertRow(r) \/ MarkProcessing(r) \/ SaveOutcome(r)
  BY DEF DocStep, UploadStep, Upload, FindExisting, FileExists, UploadFile, IngestStep,
         IngestLoad, Download, Prepare, ClearChunks, UpsertChunks, IngestBump,
         IngestError, DeleteStep, Delete, DeleteChunks, DeleteBump, DeleteRow,
         CheckRemaining, DeleteFile, CheckedAll, DeleteSubject, ListDocuments,
         DeleteCollection, DeleteRows, RemoveSubject, RequestStops
<1> QED
  BY <1>1, <1>2, <1>3, <1>4, <1>5

\* How the chunks change: an ingest adds its own, a delete takes some away.
LEMMA ChunksChange ==
  ASSUME DocTypeOK, ChunksInv, NEW r \in Requests, DocStep(r), NEW s \in Subjects
  PROVE  \/ chunks'[s] = chunks[s]
         \/ /\ pc[r] = "upsert" /\ pc'[r] = "bump" /\ doc'[r] = doc[r]
            /\ doc[r].subject = s /\ chunks'[s] = chunks[s] \cup {r} /\ rows' = rows
         \/ /\ chunks'[s] \subseteq chunks[s]
            /\ pc'[r] \in {"touch", "rowsOf"} /\ doc'[r] = doc[r]
            /\ doc[r].subject = s
            /\ pc'[r] = "rowsOf" => doc[r].file = NoFile
<1> USE DEF DocTypeOK, Goto
<1>1. CASE UNCHANGED chunks
  BY <1>1
<1>2. CASE ClearChunks(r)
  <2>1. r \notin chunks[s]
    BY <1>2 DEF ClearChunks, ChunksInv, BeforeUpsert
  <2>2. CASE doc[r].subject = s
    <3>1. chunks'[s] = chunks[s] \ {r}
      BY <1>2, <2>2 DEF ClearChunks
    <3>2. chunks[s] \ {r} = chunks[s]
      BY <2>1
    <3> QED
      BY <3>1, <3>2
  <2>3. CASE doc[r].subject # s
    BY <1>2, <2>3 DEF ClearChunks
  <2> QED
    BY <2>2, <2>3
<1>3. CASE UpsertChunks(r)
  BY <1>3 DEF UpsertChunks
<1>4. CASE DeleteChunks(r)
  BY <1>4 DEF DeleteChunks
<1>5. CASE DeleteCollection(r)
  BY <1>5 DEF DeleteCollection
<1> QED
  BY <1>1, <1>2, <1>3, <1>4, <1>5, ChunkSteps DEF ChunkStep

\* A request is past its upsert once and for all.
LEMMA LabelSteps ==
  ASSUME DocTypeOK, NEW r \in Requests, DocStep(r)
  PROVE  /\ pc'[r] \in BeforeUpsert => pc[r] \in BeforeUpsert
         /\ pc'[r] = "bump" => pc[r] = "upsert"
<1> USE DEF DocTypeOK, Goto, End, BeforeUpsert, UploadPC
<1>1. CASE UploadStep(r)
  BY <1>1 DEF UploadStep, Upload, FindExisting, FileExists, UploadFile, InsertRow
<1>2. CASE IngestStep(r)
  BY <1>2 DEF IngestStep, IngestLoad, MarkProcessing, Download, Prepare, ClearChunks,
              UpsertChunks, IngestBump, IngestError, SaveOutcome
<1>3. CASE DeleteStep(r)
  BY <1>3 DEF DeleteStep, Delete, DeleteChunks, DeleteBump, DeleteRow, CheckRemaining,
              DeleteFile, CheckedAll, DeleteSubject, ListDocuments, DeleteCollection,
              DeleteRows, RemoveSubject
<1>4. CASE RequestStops(r)
  BY <1>4 DEF RequestStops
<1> QED
  BY <1>1, <1>2, <1>3, <1>4 DEF DocStep

LEMMA DocNextStep ==
  ASSUME [DocNext]_docVars
  PROVE  (\E r \in Requests : DocStep(r)) \/ UNCHANGED docVars
BY DEF DocNext, DocStep

LEMMA StepChunksInv == DocTypeOK /\ ChunksInv /\ [DocNext]_docVars => ChunksInv'
<1> SUFFICES ASSUME DocTypeOK, ChunksInv, [DocNext]_docVars PROVE ChunksInv'
  OBVIOUS
<1>1. CASE UNCHANGED docVars
  BY <1>1 DEF docVars, ChunksInv
<1>2. ASSUME NEW r \in Requests, DocStep(r) PROVE ChunksInv'
  <2>1. OnlyMoves(r) /\ pc[r] # "done"
    BY <1>2, DocStepMoves
  <2>2. ASSUME NEW q \in Requests, NEW s \in Subjects, q \in chunks'[s]
        PROVE  /\ pc'[q] \notin BeforeUpsert
               /\ pc'[q] = "bump" => doc'[q].subject = s
    <3>1. CASE q \in chunks[s] /\ q # r
      BY <2>1, <3>1 DEF ChunksInv, OnlyMoves
    <3>2. CASE q \in chunks[s] /\ q = r
      BY <1>2, <3>2, LabelSteps DEF ChunksInv, BeforeUpsert
    <3>3. CASE q \notin chunks[s]
      BY <1>2, <2>2, <3>3, ChunksChange DEF BeforeUpsert, UploadPC
    <3> QED
      BY <3>1, <3>2, <3>3
  <2>3. ASSUME NEW d \in rows', d.status = "ready" PROVE pc'[d.id] = "done"
    <3>1. CASE d \in rows
      <4>1. pc[d.id] = "done" /\ d.id \in Requests
        BY <2>3, <3>1, RowFields DEF ChunksInv, DocTypeOK
      <4> QED
        BY <2>1, <4>1 DEF OnlyMoves
    <3>2. CASE d \notin rows
      BY <1>2, <2>3, <3>2, RowSteps
    <3> QED
      BY <3>1, <3>2
  <2> QED
    BY <2>2, <2>3 DEF ChunksInv
<1> QED
  BY <1>1, <1>2, DocNextStep

\* A delete that has changed the chunks goes on to bump the version or to remove
\* the subject, unless it dies.
LEMMA RemovingKept ==
  ASSUME DocTypeOK, NEW r \in Requests, DocStep(r), NEW s \in Subjects,
         Removing(s, r), version'[s] = version[s]
  PROVE  Removing(s, r)' \/ stops' > 0 \/ s \notin subjects'
<1> USE DEF DocTypeOK, Removing, Goto, End
<1>1. CASE RequestStops(r)
  BY <1>1 DEF RequestStops
<1>2. CASE DeleteStep(r)
  <2>1. CASE DeleteBump(r)
    BY <2>1 DEF DeleteBump, BumpVersion
  <2>2. CASE DeleteRows(r) \/ DeleteFile(r) \/ (\E f \in hashes[r] : CheckRemaining(r, f))
    BY <2>2 DEF DeleteRows, DeleteFile, CheckRemaining
  <2>3. CASE CheckedAll(r)
    BY <2>3 DEF CheckedAll
  <2>4. CASE RemoveSubject(r)
    BY <2>4 DEF RemoveSubject
  <2> QED
    BY <1>2, <2>1, <2>2, <2>3, <2>4
    DEF DeleteStep, Delete, DeleteChunks, DeleteRow, DeleteSubject, ListDocuments,
        DeleteCollection
<1>3. CASE UploadStep(r) \/ IngestStep(r)
  BY <1>3 DEF UploadStep, Upload, FindExisting, FileExists, UploadFile, InsertRow,
              IngestStep, IngestLoad, MarkProcessing, Download, Prepare, ClearChunks,
              UpsertChunks, IngestBump, IngestError, SaveOutcome
<1> QED
  BY <1>1, <1>2, <1>3 DEF DocStep

\* Chunks that were not announced stay so until they are removed or announced.
LEMMA UnannouncedKept ==
  ASSUME DocTypeOK, ChunksInv, NEW r \in Requests, DocStep(r), NEW s \in Subjects,
         NEW q \in Requests, Unannounced(s, q), version'[s] = version[s]
  PROVE  Unannounced(s, q)' \/ Removing(s, r)' \/ stops' > 0
<1>1. OnlyMoves(r) /\ (stops' = stops \/ stops' = stops + 1) /\ stops \in Nat
  BY DocStepMoves, StopsAssumption DEF DocTypeOK
<1>2. CASE q \notin chunks'[s]
  <2>1. chunks'[s] # chunks[s] /\ ~(chunks[s] \subseteq chunks'[s])
    BY <1>2 DEF Unannounced
  <2> QED
    BY <2>1, ChunksChange DEF Removing
<1>3. CASE q \in chunks'[s]
  <2>1. ASSUME pc'[q] = "ready", stops' = stops PROVE FALSE
    <3>1. q = r
      BY <1>1, <2>1 DEF OnlyMoves, Unannounced
    <3>2. BumpVersion(doc[r].subject) /\ pc[r] = "bump"
      BY <1>1, <2>1, <3>1, VersionSteps
    <3>3. doc[r].subject = s
      BY <3>1, <3>2 DEF ChunksInv, Unannounced
    <3> QED
      BY <3>2, <3>3 DEF BumpVersion, DocTypeOK
  <2>2. ASSUME NEW d \in rows', d.id = q PROVE d.status # "ready"
    <3>1. CASE d \in rows
      BY <2>2, <3>1 DEF Unannounced
    <3>2. CASE d \notin rows
      BY <2>2, <3>2, RowSteps DEF Unannounced
    <3> QED
      BY <3>1, <3>2
  <2>3. CASE stops' = stops
    BY <1>3, <2>1, <2>2, <2>3 DEF Unannounced
  <2>4. CASE stops' = stops + 1
    BY <1>1, <2>4
  <2> QED
    BY <1>1, <2>3, <2>4
<1> QED
  BY <1>2, <1>3

LEMMA ExcusesKept ==
  ASSUME DocTypeOK, ChunksInv, [DocNext]_docVars, NEW s \in Subjects, Excused(s),
         version'[s] = version[s]
  PROVE  Excused(s)'
<1>1. CASE UNCHANGED docVars
  BY <1>1 DEF docVars, Excused, Unannounced, Removing
<1>2. ASSUME NEW r \in Requests, DocStep(r) PROVE Excused(s)'
  <2>1. OnlyMoves(r) /\ subjects' \subseteq subjects
    BY <1>2, DocStepMoves
  <2>2. stops \in Nat /\ (stops' = stops \/ stops' = stops + 1)
    BY <1>2, DocStepMoves, StopsAssumption DEF DocTypeOK
  <2>3. stops > 0 => stops' > 0
    BY <2>2
  <2>4. ASSUME NEW q \in Requests, Unannounced(s, q) PROVE Excused(s)'
    BY <1>2, <2>4, UnannouncedKept DEF Excused
  <2>5. ASSUME NEW q \in Requests, Removing(s, q) PROVE Excused(s)'
    <3>1. CASE q = r
      BY <1>2, <2>5, <3>1, RemovingKept DEF Excused
    <3>2. CASE q # r
      BY <2>1, <2>5, <3>2 DEF Excused, Removing, OnlyMoves
    <3> QED
      BY <3>1, <3>2
  <2> QED
    BY <2>1, <2>3, <2>4, <2>5 DEF Excused
<1> QED
  BY <1>1, <1>2, DocNextStep

-----------------------------------------------------------------------------
(* Versions.  A version key only counts up, so a version that was current    *)
(* once and is current now has been current all the time.                    *)

\* X is what version v of the subject stands for: what is searchable now, if the
\* version is still v, or else there is an excuse.  (An absent key reads as 1.)
Stands(s, v, X) ==
  /\ v <= Current(s)
  /\ v = version[s] /\ v >= 2 => X = chunks[s] \/ Excused(s)

LEMMA VersionCounts ==
  ASSUME DocTypeOK, [DocNext]_docVars, NEW s \in Subjects
  PROVE  /\ version'[s] = version[s] \/ version'[s] = version[s] + 1
         /\ version[s] \in Nat /\ version'[s] \in Nat
         /\ Current(s) <= Current(s)'
<1>1. version[s] \in Nat
  BY DEF DocTypeOK
<1>2. version'[s] = version[s] \/ version'[s] = version[s] + 1
  <2>1. CASE UNCHANGED docVars
    BY <2>1 DEF docVars
  <2>2. ASSUME NEW r \in Requests, DocStep(r)
        PROVE  version'[s] = version[s] \/ version'[s] = version[s] + 1
    BY <1>1, <2>2, VersionSteps DEF BumpVersion, DocTypeOK
  <2> QED
    BY <2>1, <2>2, DocNextStep
<1> QED
  BY <1>1, <1>2 DEF Current

LEMMA StandsKept ==
  ASSUME DocTypeOK, ChunksInv, [DocNext]_docVars, NEW s \in Subjects, NEW v \in Nat,
         NEW X, Stands(s, v, X)
  PROVE  Stands(s, v, X)'
<1>1. v <= Current(s)'
  BY VersionCounts, CurrentType DEF Stands, Current
<1>2. ASSUME v = version'[s], v >= 2 PROVE v = version[s]
  BY <1>2, VersionCounts DEF Stands, Current
<1>3. ASSUME v = version'[s], v >= 2 PROVE X = chunks'[s] \/ Excused(s)'
  <2>1. version'[s] = version[s] /\ (X = chunks[s] \/ Excused(s))
    BY <1>2, <1>3 DEF Stands
  <2>2. CASE Excused(s)
    BY <2>1, <2>2, ExcusesKept
  <2>3. CASE X = chunks[s] /\ UNCHANGED docVars
    BY <2>3 DEF docVars
  <2>4. ASSUME X = chunks[s], NEW r \in Requests, DocStep(r)
        PROVE  X = chunks'[s] \/ Excused(s)'
    <3>1. CASE pc[r] = "upsert" /\ pc'[r] = "bump" /\ chunks'[s] = chunks[s] \cup {r}
               /\ rows' = rows
      BY <3>1 DEF Excused, Unannounced, ChunksInv
    <3>2. CASE Removing(s, r)'
      BY <3>2 DEF Excused
    <3> QED
      BY <2>4, <3>1, <3>2, ChunksChange DEF Removing
  <2> QED
    BY <2>1, <2>2, <2>3, <2>4, DocNextStep
<1> QED
  BY <1>1, <1>3 DEF Stands

\* At rest there is no excuse.
LEMMA NoExcuseAtRest ==
  ASSUME NEW s \in Subjects, AtRest(s) PROVE ~Excused(s)
BY DEF AtRest, Quiet, Excused, Unannounced, Removing

-----------------------------------------------------------------------------
(* What the asks and the caches hold: nothing in memory or in Redis stands   *)
(* for a version whose content it is not.                                    *)

\* What an ask at this label may hold.  One that was not overtaken reads the
\* same version to the end.
Fresh(a, label, k) ==
  LET s == SubjectOf[k.session] IN
  /\ label \notin {"idle", "done"} => k.version <= Current(s)
  /\ label \in {"keep", "generate", "answer", "stamp"} => Stands(s, k.version, k.corpus)
  /\ a \notin overtaken =>
       /\ label \in Answering => k.version = Current(s)
       /\ label = "store" => Stands(s, k.version, k.corpus)

AsksFresh == \A a \in Asks : Fresh(a, at[a], ask[a])

IndexFresh ==
  \A s \in Subjects : index[s] # NoIndex => Stands(s, index[s].version, index[s].corpus)

CacheFresh ==
  \A e \in cache : e.by \in overtaken \/ Stands(e.subject, e.version, e.corpus)

FreshInv == ChunksInv /\ AsksFresh /\ IndexFresh /\ CacheFresh

LEMMA StandsSame ==
  ASSUME UNCHANGED docVars, NEW s, NEW v, NEW X
  PROVE  /\ Current(s)' = Current(s)
         /\ Stands(s, v, X)' <=> Stands(s, v, X)
<1>1. Excused(s)' <=> Excused(s)
  BY DEF docVars, Excused, Unannounced, Removing
<1>2. Current(s)' = Current(s) /\ version' = version /\ chunks' = chunks
  BY DEF docVars, Current
<1> QED
  BY <1>1, <1>2 DEF Stands

LEMMA FreshSame ==
  ASSUME UNCHANGED <<docVars, overtaken>>, NEW a, NEW label, NEW k
  PROVE  Fresh(a, label, k)' <=> Fresh(a, label, k)
<1> PICK s, v, X : s = SubjectOf[k.session] /\ v = k.version /\ X = k.corpus
  OBVIOUS
<1>1. /\ Current(s)' = Current(s)
      /\ Stands(s, v, X)' <=> Stands(s, v, X)
  BY StandsSame
<1>2. Fresh(a, label, k) <=>
        /\ label \notin {"idle", "done"} => v <= Current(s)
        /\ label \in {"keep", "generate", "answer", "stamp"} => Stands(s, v, X)
        /\ a \notin overtaken =>
             /\ label \in Answering => v = Current(s)
             /\ label = "store" => Stands(s, v, X)
  BY DEF Fresh
<1>3. Fresh(a, label, k)' <=>
        /\ label \notin {"idle", "done"} => v <= Current(s)'
        /\ label \in {"keep", "generate", "answer", "stamp"} => Stands(s, v, X)'
        /\ a \notin overtaken' =>
             /\ label \in Answering => v = Current(s)'
             /\ label = "store" => Stands(s, v, X)'
  BY DEF Fresh
<1> QED
  BY <1>1, <1>2, <1>3

\* The caches do not change when neither the documents nor they move.
LEMMA CachesSame ==
  ASSUME UNCHANGED <<docVars, overtaken>>
  PROVE  /\ IndexFresh /\ index' = index => IndexFresh'
         /\ CacheFresh /\ cache' \subseteq cache => CacheFresh'
<1>1. ASSUME NEW s \in Subjects, IndexFresh, index' = index, index[s] # NoIndex
      PROVE  Stands(s, index[s].version, index[s].corpus)'
  <2> PICK v, X : v = index[s].version /\ X = index[s].corpus
    OBVIOUS
  <2>1. Stands(s, v, X)'
    BY <1>1, StandsSame DEF IndexFresh
  <2> QED
    BY <1>1, <2>1
<1>2. ASSUME NEW e \in cache', CacheFresh, cache' \subseteq cache
      PROVE  e.by \in overtaken' \/ Stands(e.subject, e.version, e.corpus)'
  BY <1>2, StandsSame DEF CacheFresh
<1> QED
  BY <1>1, <1>2 DEF IndexFresh, CacheFresh

\* A step of one ask keeps all asks fresh if what that one then holds is.
LEMMA TurnFresh ==
  ASSUME AsksTyped, AsksFresh, UNCHANGED <<docVars, overtaken>>,
         NEW a \in Asks, NEW label \in AskPC, NEW k \in Asking \cup {NoAsk},
         Turn(a, label, k), label \notin {"idle", "done"} => k \in Asking,
         Fresh(a, label, k)
  PROVE  AsksFresh'
<1>1. /\ at'[a] = label /\ ask'[a] = k
      /\ \A b \in Asks \ {a} : at'[b] = at[b] /\ ask'[b] = ask[b]
  BY TurnTyped
<1>2. ASSUME NEW b \in Asks PROVE Fresh(b, at[b], ask[b])'
  <2> PICK l, h : l = at'[b] /\ h = ask'[b]
    OBVIOUS
  <2>1. Fresh(b, l, h)
    BY <1>1 DEF AsksFresh
  <2>2. Fresh(b, l, h)'
    BY <2>1, FreshSame
  <2> QED
    BY <2>2
<1> QED
  BY <1>2 DEF AsksFresh

\* The same for an ask that reads no version.
LEMMA KeepsFresh ==
  ASSUME AsksTyped, AsksFresh, UNCHANGED <<docVars, overtaken>>,
         NEW a \in Asks, NEW label \in AskPC, NEW k \in Asking, Busy(a),
         Turn(a, label, k), k.session = ask[a].session, k.version = ask[a].version,
         label \in {"keep", "generate", "answer", "stamp"} =>
           \/ Stands(Subject(a), k.version, k.corpus)
           \/ at[a] \in {"keep", "generate", "answer"} /\ k.corpus = ask[a].corpus,
         label \in Answering => at[a] \in Answering,
         label # "store"
  PROVE  AsksFresh'
<1>1. Fresh(a, at[a], ask[a])
  BY DEF AsksFresh
<1>2. Fresh(a, label, k)
  BY <1>1 DEF Fresh, Busy, Subject
<1> QED
  BY <1>2, TurnFresh

\* An ask that has just read a subject's version.
LEMMA ReadsVersion ==
  ASSUME DocTypeOK, AsksTyped, AsksFresh, UNCHANGED <<docVars, overtaken>>,
         NEW a \in Asks, LookupVersion(a) \/ RetrieveVersion(a) \/ StampVersion(a)
  PROVE  AsksFresh'
<1> DEFINE k == [ask[a] EXCEPT !.version = Current(Subject(a))]
<1>1. /\ Busy(a) /\ ask[a] \in Asking /\ Subject(a) \in Subjects
      /\ Fresh(a, at[a], ask[a])
  BY SubjectType DEF LookupVersion, RetrieveVersion, StampVersion, Busy, AsksFresh
<1>2. Current(Subject(a)) \in Nat
  BY <1>1, CurrentType
<1>3. k \in Asking
  BY <1>1, <1>2, AskingReads
<1>4. k.session = ask[a].session /\ k.version = Current(Subject(a)) /\ k.corpus = ask[a].corpus
  BY <1>1, AskingChanges
<1>5. PICK label \in AskPC :
        /\ Turn(a, label, k) /\ label \in {"lookup", "index", "store"}
        /\ label = "store" => at[a] = "stamp"
  BY DEF LookupVersion, RetrieveVersion, StampVersion, Turn, AskPC, Answering
<1> HIDE DEF k
<1>6. label \notin {"keep", "generate", "answer", "stamp"}
  BY <1>5
<1>7. ASSUME label = "store", a \notin overtaken
      PROVE  Stands(Subject(a), k.version, k.corpus)
  <2>1. /\ Stands(Subject(a), ask[a].version, ask[a].corpus)
        /\ ask[a].version = Current(Subject(a))
    BY <1>1, <1>5, <1>7 DEF Fresh, Subject, Answering
  <2> QED
    BY <1>4, <2>1
<1>8. Fresh(a, label, k)
  BY <1>2, <1>4, <1>6, <1>7 DEF Fresh, Subject
<1> QED
  BY <1>3, <1>5, <1>8, TurnFresh

\* What is fetched from Chroma is what any version up to the current one stands
\* for as far as it is the current one.
LEMMA Fetches ==
  ASSUME DocTypeOK, TutorTypeOK, AsksFresh, IndexFresh, UNCHANGED <<docVars, overtaken>>,
         NEW a \in Asks, ReadIndex(a) \/ FetchCorpus(a)
  PROVE  AsksFresh'
<1>0. AsksTyped
  BY TutorTypeParts
<1>1. /\ Busy(a) /\ ask[a] \in Asking /\ Subject(a) \in Subjects
      /\ Fresh(a, at[a], ask[a]) /\ at[a] \in Answering
  BY <1>0, SubjectType DEF ReadIndex, FetchCorpus, Busy, AsksFresh, Answering
<1>2. ask[a].version <= Current(Subject(a))
  BY <1>1 DEF Fresh, Busy, Subject
<1>3. CASE FetchCorpus(a)
  <2> DEFINE k == [ask[a] EXCEPT !.corpus = chunks[Subject(a)]]
  <2>1. k \in Asking /\ Turn(a, "keep", k) /\ "keep" \in AskPC
    BY <1>1, <1>3, AskReads DEF FetchCorpus, Turn, AskPC, Answering
  <2>2. /\ k.session = ask[a].session /\ k.version = ask[a].version
        /\ k.corpus = chunks[Subject(a)]
    BY <1>1, AskingChanges
  <2> HIDE DEF k
  <2>3. Stands(Subject(a), k.version, k.corpus)
    BY <1>2, <2>2 DEF Stands
  <2> QED
    BY <1>0, <1>1, <2>1, <2>2, <2>3, KeepsFresh
<1>4. CASE ReadIndex(a) /\ Move(a, "fetch") /\ UNCHANGED ask
  <2>1. Turn(a, "fetch", ask[a]) /\ "fetch" \in AskPC
    BY <1>0, <1>4, TurnNothing DEF AskPC, Answering
  <2> QED
    BY <1>0, <1>1, <2>1, KeepsFresh
<1>5. CASE /\ ReadIndex(a) /\ Move(a, "generate")
           /\ index[Subject(a)] # NoIndex /\ index[Subject(a)].version = ask[a].version
           /\ ask' = [ask EXCEPT ![a].corpus = index[Subject(a)].corpus]
  <2> DEFINE k == [ask[a] EXCEPT !.corpus = index[Subject(a)].corpus]
  <2>1. k \in Asking /\ Turn(a, "generate", k) /\ "generate" \in AskPC
    BY <1>1, <1>5, AskReads DEF Turn, AskPC, Answering
  <2>2. /\ k.session = ask[a].session /\ k.version = ask[a].version
        /\ k.corpus = index[Subject(a)].corpus
    BY <1>1, AskingChanges
  <2> HIDE DEF k
  <2>3. Stands(Subject(a), k.version, k.corpus)
    BY <1>1, <1>5, <2>2 DEF IndexFresh
  <2> QED
    BY <1>0, <1>1, <2>1, <2>2, <2>3, KeepsFresh
<1> QED
  BY <1>3, <1>4, <1>5 DEF ReadIndex

\* A question is asked, counted, looked up, sent: nothing it holds is older than
\* it was.
LEMMA OtherAskSteps ==
  ASSUME TutorTypeOK, AsksFresh, UNCHANGED <<docVars, overtaken>>, NEW a \in Asks,
         \/ CountMessages(a) \/ Lookup(a) \/ CheckQuota(a) \/ ReadHistory(a)
         \/ InsertQuestion(a) \/ KeepIndex(a) \/ Generate(a)
         \/ InsertAnswer(a) /\ Move(a, "stamp") /\ UNCHANGED ask
  PROVE  AsksFresh'
<1>0. AsksTyped
  BY TutorTypeParts
<1>1. Busy(a) /\ ask[a] \in Asking
  BY <1>0, SubjectType
  DEF CountMessages, Lookup, CheckQuota, ReadHistory, InsertQuestion, KeepIndex,
      Generate, InsertAnswer, Busy
<1>2. PICK label \in AskPC :
        /\ Move(a, label)
        /\ \/ label \in {"version", "quota", "history", "question", "replay", "retrieve"}
           \/ /\ label \in {"generate", "answer", "stamp"} /\ UNCHANGED ask
              /\ at[a] \in {"keep", "generate", "answer"}
  BY DEF CountMessages, Lookup, CheckQuota, ReadHistory, InsertQuestion, KeepIndex,
         Generate, InsertAnswer, AskPC, Answering
<1>3. \E k \in Asking :
        /\ ask' = [ask EXCEPT ![a] = k]
        /\ k.session = ask[a].session /\ k.version = ask[a].version
        /\ UNCHANGED ask => k = ask[a]
  <2>1. CASE UNCHANGED ask
    BY <1>0, <1>1, <2>1 DEF AsksTyped
  <2>2. ASSUME NEW x, \/ ask' = [ask EXCEPT ![a] = [ask[a] EXCEPT !.first = x]]
                      \/ ask' = [ask EXCEPT ![a] = [ask[a] EXCEPT !.hit = x]]
                      \/ ask' = [ask EXCEPT ![a] = [ask[a] EXCEPT !.recalled = x]],
               x \in BOOLEAN
        PROVE  \E k \in Asking :
                 /\ ask' = [ask EXCEPT ![a] = k]
                 /\ k.session = ask[a].session /\ k.version = ask[a].version
                 /\ UNCHANGED ask => k = ask[a]
    <3>1. \E k \in Asking :
            /\ ask' = [ask EXCEPT ![a] = k]
            /\ k.session = ask[a].session /\ k.version = ask[a].version
      <4> DEFINE first == [ask[a] EXCEPT !.first = x]
                 hit == [ask[a] EXCEPT !.hit = x]
                 recalled == [ask[a] EXCEPT !.recalled = x]
      <4>1. first \in Asking /\ hit \in Asking /\ recalled \in Asking
        BY <1>1, <2>2, AskingFlags
      <4>2. /\ first.session = ask[a].session /\ first.version = ask[a].version
            /\ hit.session = ask[a].session /\ hit.version = ask[a].version
            /\ recalled.session = ask[a].session /\ recalled.version = ask[a].version
        BY <1>1, AskingChanges
      <4>3. \/ ask' = [ask EXCEPT ![a] = first] \/ ask' = [ask EXCEPT ![a] = hit]
            \/ ask' = [ask EXCEPT ![a] = recalled]
        BY <2>2
      <4> HIDE DEF first, hit, recalled
      <4> QED
        BY <4>1, <4>2, <4>3
    <3> QED
      BY <1>0, <3>1 DEF AsksTyped
  <2>3. \/ UNCHANGED ask
        \/ \E x \in BOOLEAN :
             \/ ask' = [ask EXCEPT ![a] = [ask[a] EXCEPT !.first = x]]
             \/ ask' = [ask EXCEPT ![a] = [ask[a] EXCEPT !.hit = x]]
             \/ ask' = [ask EXCEPT ![a] = [ask[a] EXCEPT !.recalled = x]]
    <3>1. (Messages(a) = {}) \in BOOLEAN /\ (Messages(a) # {}) \in BOOLEAN
      BY Zenon
    <3>2. CASE CountMessages(a)
      BY <3>1, <3>2, Zenon DEF CountMessages
    <3>3. CASE ReadHistory(a)
      BY <3>1, <3>3, Zenon DEF ReadHistory
    <3>4. CASE Lookup(a)
      BY <3>4 DEF Lookup
    <3> QED
      BY <3>2, <3>3, <3>4 DEF CheckQuota, InsertQuestion, KeepIndex, Generate
  <2> QED
    BY <2>1, <2>2, <2>3
<1>4. PICK k \in Asking :
        /\ Turn(a, label, k) /\ k.session = ask[a].session
        /\ k.version = ask[a].version
        /\ UNCHANGED ask => k = ask[a]
  BY <1>2, <1>3 DEF Turn
<1>5. /\ label \in {"keep", "generate", "answer", "stamp"} =>
           at[a] \in {"keep", "generate", "answer"} /\ k.corpus = ask[a].corpus
      /\ label \in Answering => at[a] \in Answering
      /\ label # "store"
  BY <1>2, <1>4 DEF Answering
<1> QED
  BY <1>0, <1>1, <1>4, <1>5, KeepsFresh

\* An ask that ends, or begins.
LEMMA EndsFresh ==
  ASSUME AsksTyped, AsksFresh, UNCHANGED <<docVars, overtaken>>, NEW a \in Asks,
         AskEnds(a)
  PROVE  AsksFresh'
<1>1. Turn(a, "done", NoAsk) /\ "done" \in AskPC
  BY DEF AskEnds, Turn, AskPC
<1>2. Fresh(a, "done", NoAsk)
  BY DEF Fresh, Answering
<1> QED
  BY <1>1, <1>2, TurnFresh

LEMMA BeginsFresh ==
  ASSUME DocTypeOK, AsksTyped, AsksFresh, UNCHANGED <<docVars, overtaken>>,
         NEW a \in Asks, NEW c \in Sessions, Ask(a, c)
  PROVE  AsksFresh'
<1>1. /\ Turn(a, "count", Opening(c)) /\ "count" \in AskPC /\ Opening(c) \in Asking
      /\ Opening(c).version = 0 /\ Opening(c).session = c
  BY OpeningType DEF Ask, Turn, AskPC
<1>2. Current(SubjectOf[c]) \in Nat
  BY CurrentType, SubjectOfAssumption
<1>3. Fresh(a, "count", Opening(c))
  BY <1>1, <1>2 DEF Fresh, Answering
<1> QED
  BY <1>1, <1>3, TurnFresh

\* Every step of an ask, and what it leaves in the caches.
LEMMA AskStepFresh ==
  ASSUME DocTypeOK, TutorTypeOK, FreshInv, AskNext, UNCHANGED docVars
  PROVE  AsksFresh' /\ IndexFresh' /\ CacheFresh'
<1>0. /\ AsksTyped /\ AsksFresh /\ IndexFresh /\ CacheFresh
      /\ UNCHANGED <<docVars, overtaken>>
  BY TutorTypeParts
  DEF FreshInv, AskNext, Ask, CountMessages, LookupVersion, Lookup, CheckQuota, ReadHistory,
      InsertQuestion, RetrieveVersion, ReadIndex, FetchCorpus, KeepIndex, Generate,
      InsertAnswer, ReplayAnswer, StampVersion, StoreAnswer, AskStops
<1>1. ASSUME NEW a \in Asks, KeepIndex(a) PROVE IndexFresh'
  <2>1. /\ Busy(a) /\ Fresh(a, at[a], ask[a]) /\ at[a] = "keep"
    BY <1>0, <1>1 DEF KeepIndex, Busy, AsksFresh
  <2>2. Stands(Subject(a), ask[a].version, ask[a].corpus)
    BY <2>1 DEF Fresh, Subject
  <2>3. ASSUME NEW s \in Subjects, index'[s] # NoIndex
        PROVE  Stands(s, index'[s].version, index'[s].corpus)
    <3>1. CASE s = Subject(a)
      <4>1. index'[s] = [version |-> ask[a].version, corpus |-> ask[a].corpus]
        BY <1>1, <2>3, <3>1, TutorTypeParts DEF KeepIndex, CachesTyped
      <4> QED
        BY <2>2, <3>1, <4>1
    <3>2. CASE s # Subject(a)
      <4>1. index'[s] = index[s]
        BY <1>1, <3>2, TutorTypeParts DEF KeepIndex, CachesTyped
      <4> QED
        BY <1>0, <2>3, <4>1 DEF IndexFresh
    <3> QED
      BY <3>1, <3>2
  <2>4. ASSUME NEW s \in Subjects, index'[s] # NoIndex
        PROVE  Stands(s, index[s].version, index[s].corpus)'
    <3> PICK v, X : v = index'[s].version /\ X = index'[s].corpus
      OBVIOUS
    <3>1. Stands(s, v, X)'
      BY <1>0, <2>3, <2>4, StandsSame
    <3> QED
      BY <3>1
  <2> QED
    BY <2>4 DEF IndexFresh
<1>2. ASSUME NEW a \in Asks, StoreAnswer(a) PROVE CacheFresh'
  <2>1. /\ Busy(a) /\ Fresh(a, at[a], ask[a]) /\ at[a] = "store"
    BY <1>0, <1>2 DEF StoreAnswer, Busy, AsksFresh
  <2>2. a \in overtaken \/ Stands(Subject(a), ask[a].version, ask[a].corpus)
    BY <2>1 DEF Fresh, Subject
  <2>3. ASSUME NEW e \in cache' PROVE e.by \in overtaken \/ Stands(e.subject, e.version, e.corpus)
    <3>1. CASE e \in cache
      BY <1>0, <3>1 DEF CacheFresh
    <3>2. CASE e \notin cache
      <4>1. e = [subject |-> Subject(a), version |-> ask[a].version, by |-> a,
                 recalled |-> ask[a].recalled, corpus |-> ask[a].corpus]
        BY <1>2, <2>3, <3>2 DEF StoreAnswer
      <4>2. /\ e.subject = Subject(a) /\ e.version = ask[a].version /\ e.by = a
            /\ e.corpus = ask[a].corpus
        BY <4>1
      <4> QED
        BY <2>2, <4>2
    <3> QED
      BY <3>1, <3>2
  <2>4. ASSUME NEW e \in cache'
        PROVE  e.by \in overtaken' \/ Stands(e.subject, e.version, e.corpus)'
    BY <1>0, <2>3, StandsSame
  <2> QED
    BY <2>4 DEF CacheFresh
<1>3. IndexFresh'
  <2>1. (\E a \in Asks : KeepIndex(a)) \/ index' = index
    BY DEF AskNext, Ask, CountMessages, LookupVersion, Lookup, CheckQuota, ReadHistory,
           InsertQuestion, RetrieveVersion, ReadIndex, FetchCorpus, Generate,
           InsertAnswer, ReplayAnswer, StampVersion, StoreAnswer, AskStops
  <2> QED
    BY <1>0, <1>1, <2>1, CachesSame
<1>4. CacheFresh'
  <2>1. (\E a \in Asks : StoreAnswer(a)) \/ cache' = cache
    BY DEF AskNext, Ask, CountMessages, LookupVersion, Lookup, CheckQuota, ReadHistory,
           InsertQuestion, RetrieveVersion, ReadIndex, FetchCorpus, KeepIndex, Generate,
           InsertAnswer, ReplayAnswer, StampVersion, AskStops
  <2> QED
    BY <1>0, <1>2, <2>1, CachesSame
<1>5. ASSUME NEW a \in Asks,
             InsertAnswer(a) \/ ReplayAnswer(a) \/ StoreAnswer(a) \/ AskStops(a)
      PROVE  AsksFresh'
  <2>1. AskEnds(a) \/ (InsertAnswer(a) /\ Move(a, "stamp") /\ UNCHANGED ask)
    BY <1>5 DEF InsertAnswer, ReplayAnswer, StoreAnswer, AskStops
  <2> QED
    BY <1>0, <2>1, EndsFresh, OtherAskSteps
<1>6. AsksFresh'
  BY <1>0, <1>5, BeginsFresh, ReadsVersion, Fetches, OtherAskSteps DEF AskNext
<1> QED
  BY <1>3, <1>4, <1>6

\* A step of the documents under the asks: what stood still stands, and an ask
\* whose version or corpus has gone is overtaken.
LEMMA DocumentsMoveFresh ==
  ASSUME DocTypeOK, TutorTypeOK, FreshInv, DocumentsMove
  PROVE  AsksFresh' /\ IndexFresh' /\ CacheFresh'
<1>0. /\ AsksTyped /\ CachesTyped /\ ChunksInv /\ [DocNext]_docVars
      /\ UNCHANGED <<at, ask, cache, index>> /\ overtaken \subseteq overtaken'
  BY TutorTypeParts DEF FreshInv, DocumentsMove
<1>1. ASSUME NEW a \in Asks PROVE Fresh(a, at[a], ask[a])'
  <2>1. CASE ~Busy(a)
    BY <1>0, <2>1 DEF Fresh, Busy, Answering
  <2>2. CASE Busy(a)
    <3>1. Subject(a) \in Subjects /\ ask[a] \in Asking /\ Fresh(a, at[a], ask[a])
      BY <1>0, <2>2, SubjectType DEF FreshInv, AsksFresh
    <3> PICK l, s, v, X : /\ l = at[a] /\ s = Subject(a)
                          /\ v = ask[a].version /\ X = ask[a].corpus
      OBVIOUS
    <3>2. s \in Subjects /\ v \in Nat
      BY <3>1, AskingFields
    <3>3. Fresh(a, at[a], ask[a])' <=>
            /\ l \notin {"idle", "done"} => v <= Current(s)'
            /\ l \in {"keep", "generate", "answer", "stamp"} => Stands(s, v, X)'
            /\ a \notin overtaken' =>
                 /\ l \in Answering => v = Current(s)'
                 /\ l = "store" => Stands(s, v, X)'
      BY <1>0 DEF Fresh, Subject
    <3>4. /\ l \notin {"idle", "done"} => v <= Current(s)
          /\ l \in {"keep", "generate", "answer", "stamp"} => Stands(s, v, X)
          /\ a \notin overtaken =>
               /\ l \in Answering => v = Current(s)
               /\ l = "store" => Stands(s, v, X)
      BY <3>1 DEF Fresh, Subject
    <3>5. Stands(s, v, X) => Stands(s, v, X)'
      BY <1>0, <3>2, StandsKept
    <3>6. l \notin {"idle", "done"} => v <= Current(s)'
      <4>1. Current(s) <= Current(s)' /\ Current(s) \in Nat /\ Current(s)' \in Nat
        BY <1>0, <3>2, VersionCounts, CurrentType DEF Current
      <4> QED
        BY <3>2, <3>4, <4>1
    <3>7. a \notin overtaken' /\ l \in Answering => Current(s)' = Current(s)
      BY DEF DocumentsMove, Current
    <3> QED
      BY <1>0, <3>3, <3>4, <3>5, <3>6, <3>7
  <2> QED
    BY <2>1, <2>2
<1>2. ASSUME NEW s \in Subjects, index'[s] # NoIndex
      PROVE  Stands(s, index[s].version, index[s].corpus)'
  <2> PICK v, X : v = index[s].version /\ X = index[s].corpus
    OBVIOUS
  <2>1. v \in Nat
    BY <1>0, <1>2 DEF CachesTyped, Index
  <2>2. Stands(s, v, X)
    BY <1>0, <1>2 DEF FreshInv, IndexFresh
  <2>3. Stands(s, v, X)'
    BY <1>0, <2>1, <2>2, StandsKept
  <2> QED
    BY <1>0, <2>3
<1>3. ASSUME NEW e \in cache'
      PROVE  e.by \in overtaken' \/ Stands(e.subject, e.version, e.corpus)'
  <2>1. e.subject \in Subjects /\ e.version \in Nat
    BY <1>0 DEF CachesTyped, Entry
  <2>2. e.by \in overtaken \/ Stands(e.subject, e.version, e.corpus)
    BY <1>0 DEF FreshInv, CacheFresh
  <2> QED
    BY <1>0, <2>1, <2>2, StandsKept
<1> QED
  BY <1>1, <1>2, <1>3 DEF AsksFresh, IndexFresh, CacheFresh

LEMMA StepFreshInv ==
  DocTypeOK /\ TutorTypeOK /\ FreshInv /\ [TutorNext]_tutorVars => FreshInv'
<1> SUFFICES ASSUME DocTypeOK, TutorTypeOK, FreshInv, [TutorNext]_tutorVars
             PROVE  FreshInv'
  OBVIOUS
<1>1. ChunksInv'
  BY TutorStepsDocs, StepChunksInv DEF FreshInv
<1>2. CASE AskNext /\ UNCHANGED docVars
  BY <1>1, <1>2, AskStepFresh DEF FreshInv
<1>3. CASE DocumentsMove
  BY <1>1, <1>3, DocumentsMoveFresh DEF FreshInv
<1>4. CASE UNCHANGED tutorVars
  <2>1. UNCHANGED <<docVars, overtaken, at, ask, cache, index>>
    BY <1>4 DEF tutorVars, askVars
  <2>2. ASSUME NEW a \in Asks PROVE Fresh(a, at[a], ask[a])'
    <3> PICK l, k : l = at[a] /\ k = ask[a]
      OBVIOUS
    <3>1. Fresh(a, l, k)'
      BY <2>1, FreshSame DEF FreshInv, AsksFresh
    <3> QED
      BY <2>1, <3>1
  <2> QED
    BY <1>1, <2>1, <2>2, CachesSame DEF FreshInv, AsksFresh
<1> QED
  BY <1>2, <1>3, <1>4 DEF TutorNext

LEMMA InitFreshInv == TutorInit => FreshInv
BY DEF TutorInit, NoDocuments, FreshInv, ChunksInv, AsksFresh, Fresh, Answering,
       IndexFresh, CacheFresh

LEMMA TutorFresh == TutorSpec => [](DocTypeOK /\ TutorTypeOK /\ FreshInv)
BY InitFreshInv, StepFreshInv, TutorKeepsDocs, TutorTypeCorrect, PTL DEF TutorSpec

\* At rest the index in memory is the corpus as it is in Chroma, or it is not
\* used: a rebuild that lasts across a change is kept under the version it
\* started from, which is never current again.
THEOREM IndexIsNeverStale == TutorSpec => []IndexIsCurrent
<1>1. DocTypeOK /\ TutorTypeOK /\ FreshInv => IndexIsCurrent
  <2> SUFFICES ASSUME DocTypeOK, FreshInv, NEW s \in Subjects, Settled(s),
                      index[s] # NoIndex, index[s].version = Current(s)
               PROVE  index[s].corpus = chunks[s]
    BY DEF IndexIsCurrent
  <2>1. Stands(s, index[s].version, index[s].corpus)
    BY DEF FreshInv, IndexFresh
  <2>2. index[s].version = version[s] /\ version[s] >= 2
    BY DEF Settled, Current, DocTypeOK
  <2>3. ~Excused(s)
    BY NoExcuseAtRest DEF Settled
  <2> QED
    BY <2>1, <2>2, <2>3 DEF Stands
<1> QED
  BY <1>1, TutorFresh, PTL

\* At rest the cache serves no answer grounded in other documents than those
\* that are there, but for the answers whose documents changed under them.
THEOREM CachedAnswersAreFresh == TutorSpec => []StaleOnlyWhenOvertaken
<1>1. DocTypeOK /\ TutorTypeOK /\ FreshInv => StaleOnlyWhenOvertaken
  <2> SUFFICES ASSUME DocTypeOK, FreshInv, NEW s \in Subjects, Settled(s),
                      NEW e \in Cached(s, version[s]), e.by \notin overtaken
               PROVE  e.corpus = chunks[s]
    BY DEF StaleOnlyWhenOvertaken
  <2>1. e \in cache /\ e.subject = s /\ e.version = version[s]
    BY DEF Cached
  <2>2. Stands(s, version[s], e.corpus)
    BY <2>1 DEF FreshInv, CacheFresh
  <2>3. version[s] >= 2 /\ ~Excused(s)
    BY NoExcuseAtRest DEF Settled
  <2> QED
    BY <2>2, <2>3 DEF Stands
<1> QED
  BY <1>1, TutorFresh, PTL
=============================================================================
