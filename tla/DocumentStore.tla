---------------------------- MODULE DocumentStore ----------------------------
(***************************************************************************)
(* The documents of some subjects: their Mongo rows, the raw files in S3   *)
(* (one object per content hash, shared by every row with that content),   *)
(* the searchable chunks in Chroma and the content version in Redis.       *)
(* Uploads with the ingest that follows them, deletes of a document and    *)
(* deletes of a whole subject run at the same time, one await per step.    *)
(*                                                                         *)
(* A request is one HTTP request, served once.  The row an upload inserts  *)
(* has the upload's own name as its id.                                    *)
(***************************************************************************)
EXTENDS Integers

CONSTANTS
  Requests,   \* uploads, deletes of a document, deletes of a subject
  Subjects,
  Files,      \* content hashes
  NoFile,     \* no content hash
  NoDoc,      \* no document in hand
  MaxStops    \* bound: requests that die or fail on a service at any await

ASSUME NoFileAssumption  == NoFile \notin Files
ASSUME NoDocAssumption   == NoDoc \notin
  [id : Requests, subject : Subjects, file : Files \cup {NoFile}]
ASSUME StopsAssumption   == MaxStops \in Nat

VARIABLES
  subjects,  \* the subjects that exist
  rows,      \* the Document rows
  objects,   \* the content hashes with an object in S3
  chunks,    \* the documents with chunks in each subject's collection
  version,   \* each subject's version key; 0 while the key is absent
  pc,        \* where each request is
  doc,       \* the document each request works on (a delete_subject has no file)
  hashes,    \* the content hashes a delete has yet to look at
  doomed,    \* the content hash a delete has found unreferenced
  stops      \* requests that died so far

docVars == <<subjects, rows, objects, chunks, version, pc, doc, hashes, doomed,
             stops>>

-----------------------------------------------------------------------------
(* The data. *)

Status == {"pending", "processing", "ready", "failed"}

Row == [id : Requests, subject : Subjects, file : Files, status : Status]

\* What a request knows of the document it works on.
Handle == [id : Requests, subject : Subjects, file : Files \cup {NoFile}]
Held(r, s, f) == [id |-> r, subject |-> s, file |-> f]

UploadPC == {"find", "exists", "put", "insert"}
IngestPC == {"load", "mark", "download", "text", "clear", "upsert", "bump",
             "ready", "fail"}
DeletePC == {"unindex", "touch", "row", "list", "collection", "rowsOf",
             "check", "drop", "subject"}
RequestPC == UploadPC \cup IngestPC \cup DeletePC \cup {"idle", "done"}

HasStatus(h, status) ==
  [id |-> h.id, subject |-> h.subject, file |-> h.file, status |-> status]

\* A row for this content in this subject: what the dedup query looks for,
\* and what the unique index on (subject_id, file_hash) refuses.
\* Mutant: the index is not unique.
NoDedup(h) == FALSE
Known(h) == \E d \in rows : d.subject = h.subject /\ d.file = h.file

\* The last check of both deletes.
\* Mutant: the object is always kept.
KeptForever(r, f) == TRUE
Referenced(r, f) == \E d \in rows : d.file = f

Goto(r, label) == pc' = [pc EXCEPT ![r] = label]

\* A request that has ended holds nothing.
End(r) ==
  /\ Goto(r, "done")
  /\ doc' = [doc EXCEPT ![r] = NoDoc]
  /\ hashes' = [hashes EXCEPT ![r] = {}]
  /\ doomed' = [doomed EXCEPT ![r] = NoFile]

\* bump_subject_version: INCR, which makes an absent key 1.
BumpVersion(s) == version' = [version EXCEPT ![s] = @ + 1]

-----------------------------------------------------------------------------
(* upload_document. *)

Upload(r, s, f) ==
  /\ pc[r] = "idle"
  /\ s \in subjects
  /\ doc' = [doc EXCEPT ![r] = Held(r, s, f)]
  /\ Goto(r, "find")
  /\ UNCHANGED <<subjects, rows, objects, chunks, version, hashes, doomed, stops>>

\* Identical content of the subject is a no-op.
FindExisting(r) ==
  /\ pc[r] = "find"
  /\ \/ Known(doc[r]) /\ End(r)
     \/ ~Known(doc[r]) /\ Goto(r, "exists") /\ UNCHANGED <<doc, hashes, doomed>>
  /\ UNCHANGED <<subjects, rows, objects, chunks, version, stops>>

FileExists(r) ==
  /\ pc[r] = "exists"
  /\ Goto(r, IF doc[r].file \in objects THEN "insert" ELSE "put")
  /\ UNCHANGED <<subjects, rows, objects, chunks, version, doc, hashes, doomed,
                 stops>>

UploadFile(r) ==
  /\ pc[r] = "put"
  /\ objects' = objects \cup {doc[r].file}
  /\ Goto(r, "insert")
  /\ UNCHANGED <<subjects, rows, chunks, version, doc, hashes, doomed, stops>>

\* The winner of a race schedules its ingest, the loser answers with the row
\* it collided with (or, if that is gone again, with a conflict).
InsertRow(r) ==
  /\ pc[r] = "insert"
  /\ \/ /\ ~Known(doc[r])
        /\ rows' = rows \cup {HasStatus(doc[r], "pending")}
        /\ Goto(r, "load")
        /\ UNCHANGED <<doc, hashes, doomed>>
     \/ Known(doc[r]) /\ End(r) /\ UNCHANGED rows
  /\ UNCHANGED <<subjects, objects, chunks, version, stops>>

-----------------------------------------------------------------------------
(* ingest_document, in the background of the upload. *)

Stored(h) == {d \in rows : d.id = h.id}

IngestLoad(r) ==
  /\ pc[r] = "load"
  /\ \/ Stored(doc[r]) # {} /\ Goto(r, "mark") /\ UNCHANGED <<doc, hashes, doomed>>
     \/ Stored(doc[r]) = {} /\ End(r)
  /\ UNCHANGED <<subjects, rows, objects, chunks, version, stops>>

\* document.save() upserts: a row deleted meanwhile comes back, unless its
\* content was uploaded again, which the unique index then refuses.
Saved(h, status) ==
  /\ Stored(h) # {} \/ ~Known(h)
  /\ rows' = (rows \ Stored(h)) \cup {HasStatus(h, status)}

Refused(h) == Stored(h) = {} /\ Known(h) /\ UNCHANGED rows

MarkProcessing(r) ==
  /\ pc[r] = "mark"
  /\ \/ /\ Saved(doc[r], "processing")
        /\ Goto(r, "download")
        /\ UNCHANGED <<doc, hashes, doomed>>
     \/ Refused(doc[r]) /\ End(r)
  /\ UNCHANGED <<subjects, objects, chunks, version, stops>>

Download(r) ==
  /\ pc[r] = "download"
  /\ Goto(r, IF doc[r].file \in objects THEN "text" ELSE "fail")
  /\ UNCHANGED <<subjects, rows, objects, chunks, version, doc, hashes, doomed,
                 stops>>

\* Extraction, chunking, contexts and embeddings of every chunk succeed.
Prepare(r) ==
  /\ pc[r] = "text"
  /\ Goto(r, "clear")
  /\ UNCHANGED <<subjects, rows, objects, chunks, version, doc, hashes, doomed,
                 stops>>

ClearChunks(r) ==
  /\ pc[r] = "clear"
  /\ chunks' = [chunks EXCEPT ![doc[r].subject] = @ \ {r}]
  /\ Goto(r, "upsert")
  /\ UNCHANGED <<subjects, rows, objects, version, doc, hashes, doomed, stops>>

UpsertChunks(r) ==
  /\ pc[r] = "upsert"
  /\ chunks' = [chunks EXCEPT ![doc[r].subject] = @ \cup {r}]
  /\ Goto(r, "bump")
  /\ UNCHANGED <<subjects, rows, objects, version, doc, hashes, doomed, stops>>

IngestBump(r) ==
  /\ pc[r] = "bump"
  /\ BumpVersion(doc[r].subject)
  /\ Goto(r, "ready")
  /\ UNCHANGED <<subjects, rows, objects, chunks, doc, hashes, doomed, stops>>

\* Mutant: the error is only logged.
IngestErrorLogged(r) ==
  /\ pc[r] \in {"download", "text", "clear", "upsert", "bump"}
  /\ End(r)
  /\ UNCHANGED <<subjects, rows, objects, chunks, version, stops>>

\* Any exception inside the try block, the quota's included.
IngestError(r) ==
  /\ pc[r] \in {"download", "text", "clear", "upsert", "bump"}
  /\ Goto(r, "fail")
  /\ UNCHANGED <<subjects, rows, objects, chunks, version, doc, hashes, doomed,
                 stops>>

\* The last save, ready or failed; a refused one ends the background task.
SaveOutcome(r) ==
  /\ pc[r] \in {"ready", "fail"}
  /\ \/ Saved(doc[r], IF pc[r] = "ready" THEN "ready" ELSE "failed")
     \/ Refused(doc[r])
  /\ End(r)
  /\ UNCHANGED <<subjects, objects, chunks, version, stops>>

-----------------------------------------------------------------------------
(* delete_document. *)

Delete(r, d) ==
  /\ pc[r] = "idle"
  /\ d.subject \in subjects
  /\ doc' = [doc EXCEPT ![r] = Held(d.id, d.subject, d.file)]
  /\ Goto(r, "unindex")
  /\ UNCHANGED <<subjects, rows, objects, chunks, version, hashes, doomed, stops>>

DeleteChunks(r) ==
  /\ pc[r] = "unindex"
  /\ chunks' = [chunks EXCEPT ![doc[r].subject] = @ \ {doc[r].id}]
  /\ Goto(r, "touch")
  /\ UNCHANGED <<subjects, rows, objects, version, doc, hashes, doomed, stops>>

\* Mutant: the delete leaves the version alone.
DeleteNoBump(r) ==
  /\ pc[r] = "touch"
  /\ Goto(r, "row")
  /\ UNCHANGED <<subjects, rows, objects, chunks, version, doc, hashes, doomed,
                 stops>>

DeleteBump(r) ==
  /\ pc[r] = "touch"
  /\ BumpVersion(doc[r].subject)
  /\ Goto(r, "row")
  /\ UNCHANGED <<subjects, rows, objects, chunks, doc, hashes, doomed, stops>>

DeleteRow(r) ==
  /\ pc[r] = "row"
  /\ rows' = rows \ Stored(doc[r])
  /\ hashes' = [hashes EXCEPT ![r] = {doc[r].file}]
  /\ Goto(r, "check")
  /\ UNCHANGED <<subjects, objects, chunks, version, doc, doomed, stops>>

\* The object goes only if no row of any subject has this content; a delete
\* with no content left to look at goes on.
CheckRemaining(r, f) ==
  /\ pc[r] = "check"
  /\ f \in hashes[r]
  /\ hashes' = [hashes EXCEPT ![r] = @ \ {f}]
  /\ \/ Referenced(r, f) /\ UNCHANGED <<pc, doomed>>
     \/ /\ ~Referenced(r, f)
        /\ doomed' = [doomed EXCEPT ![r] = f]
        /\ Goto(r, "drop")
  /\ UNCHANGED <<subjects, rows, objects, chunks, version, doc, stops>>

DeleteFile(r) ==
  /\ pc[r] = "drop"
  /\ objects' = objects \ {doomed[r]}
  /\ doomed' = [doomed EXCEPT ![r] = NoFile]
  /\ Goto(r, "check")
  /\ UNCHANGED <<subjects, rows, chunks, version, doc, hashes, stops>>

\* delete_document ends here, delete_subject has the subject left to delete.
CheckedAll(r) ==
  /\ pc[r] = "check"
  /\ hashes[r] = {}
  /\ \/ doc[r].file # NoFile /\ End(r)
     \/ doc[r].file = NoFile /\ Goto(r, "subject")
                             /\ UNCHANGED <<doc, hashes, doomed>>
  /\ UNCHANGED <<subjects, rows, objects, chunks, version, stops>>

-----------------------------------------------------------------------------
(* delete_subject. *)

DeleteSubject(r, s) ==
  /\ pc[r] = "idle"
  /\ s \in subjects
  /\ doc' = [doc EXCEPT ![r] = Held(r, s, NoFile)]
  /\ Goto(r, "list")
  /\ UNCHANGED <<subjects, rows, objects, chunks, version, hashes, doomed, stops>>

Of(s) == {d \in rows : d.subject = s}

\* Mutant: the rows are listed, not their hashes.
ListRows(r) ==
  /\ pc[r] = "list"
  /\ hashes' = [hashes EXCEPT ![r] = Of(doc[r].subject)]
  /\ Goto(r, IF Of(doc[r].subject) = {} THEN "subject" ELSE "collection")
  /\ UNCHANGED <<subjects, rows, objects, chunks, version, doc, doomed, stops>>

ListDocuments(r) ==
  /\ pc[r] = "list"
  /\ hashes' = [hashes EXCEPT ![r] = {d.file : d \in Of(doc[r].subject)}]
  /\ Goto(r, IF Of(doc[r].subject) = {} THEN "subject" ELSE "collection")
  /\ UNCHANGED <<subjects, rows, objects, chunks, version, doc, doomed, stops>>

DeleteCollection(r) ==
  /\ pc[r] = "collection"
  /\ chunks' = [chunks EXCEPT ![doc[r].subject] = {}]
  /\ Goto(r, "rowsOf")
  /\ UNCHANGED <<subjects, rows, objects, version, doc, hashes, doomed, stops>>

\* Every row of the subject as it is now, listed or not.
DeleteRows(r) ==
  /\ pc[r] = "rowsOf"
  /\ rows' = rows \ Of(doc[r].subject)
  /\ Goto(r, "check")
  /\ UNCHANGED <<subjects, objects, chunks, version, doc, hashes, doomed, stops>>

RemoveSubject(r) ==
  /\ pc[r] = "subject"
  /\ subjects' = subjects \ {doc[r].subject}
  /\ End(r)
  /\ UNCHANGED <<rows, objects, chunks, version, stops>>

-----------------------------------------------------------------------------
\* The API process dies, or a service fails where nothing catches it.
RequestStops(r) ==
  /\ pc[r] \notin {"idle", "done"}
  /\ stops < MaxStops
  /\ stops' = stops + 1
  /\ End(r)
  /\ UNCHANGED <<subjects, rows, objects, chunks, version>>

\* No document, and no request yet.
NoDocuments ==
  /\ subjects = Subjects
  /\ rows = {}
  /\ objects = {}
  /\ chunks = [s \in Subjects |-> {}]
  /\ pc = [r \in Requests |-> "idle"]
  /\ doc = [r \in Requests |-> NoDoc]
  /\ hashes = [r \in Requests |-> {}]
  /\ doomed = [r \in Requests |-> NoFile]
  /\ stops = 0

\* Subjects that never had a document.
DocInit == NoDocuments /\ version = [s \in Subjects |-> 0]

UploadStep(r) ==
  \/ \E s \in Subjects, f \in Files : Upload(r, s, f)
  \/ FindExisting(r) \/ FileExists(r) \/ UploadFile(r) \/ InsertRow(r)

IngestStep(r) ==
  \/ IngestLoad(r) \/ MarkProcessing(r) \/ Download(r) \/ Prepare(r)
  \/ ClearChunks(r) \/ UpsertChunks(r) \/ IngestBump(r) \/ IngestError(r)
  \/ SaveOutcome(r)

DeleteStep(r) ==
  \/ \E d \in rows : Delete(r, d)
  \/ DeleteChunks(r) \/ DeleteBump(r) \/ DeleteRow(r)
  \/ \E f \in hashes[r] : CheckRemaining(r, f)
  \/ DeleteFile(r) \/ CheckedAll(r)
  \/ \E s \in Subjects : DeleteSubject(r, s)
  \/ ListDocuments(r) \/ DeleteCollection(r) \/ DeleteRows(r) \/ RemoveSubject(r)

DocNext ==
  \E r \in Requests :
    UploadStep(r) \/ IngestStep(r) \/ DeleteStep(r) \/ RequestStops(r)

DocSpec == DocInit /\ [][DocNext]_docVars

-----------------------------------------------------------------------------
(* Properties. *)

DocTypeOK ==
  /\ subjects \subseteq Subjects
  /\ rows \subseteq Row
  /\ objects \subseteq Files
  /\ chunks \in [Subjects -> SUBSET Requests]
  /\ version \in [Subjects -> Nat]
  /\ pc \in [Requests -> RequestPC]
  /\ doc \in [Requests -> Handle \cup {NoDoc}]
  /\ \A r \in Requests :
       /\ pc[r] \notin {"idle", "done"} => doc[r] \in Handle
       /\ pc[r] \in UploadPC \cup IngestPC => doc[r].id = r /\ doc[r].file \in Files
       /\ pc[r] \in {"unindex", "touch", "row"} => doc[r].file \in Files
       /\ pc[r] \in {"list", "collection", "rowsOf"} => doc[r].file = NoFile
  /\ hashes \in [Requests -> SUBSET Files]
  /\ doomed \in [Requests -> Files \cup {NoFile}]
  /\ stops \in 0..MaxStops

\* However uploads of one file race, with deletes and resurrecting saves in
\* between, a subject never has two rows for the same content.
UniqueContent ==
  \A d, e \in rows :
    d.id = e.id \/ (d.subject = e.subject /\ d.file = e.file) => d = e

\* While nothing died, a document shown as pending or processing still has
\* its ingest running: nothing else would ever end that state, and the dedup
\* of uploads would refuse the file for ever.
ProcessingHasIngest ==
  stops = 0 =>
    \A d \in rows : d.status \in {"pending", "processing"} => pc[d.id] \in IngestPC

Quiet == \A r \in Requests : pc[r] \in {"idle", "done"}

\* While nothing died and no subject was deleted, every stored object belongs
\* to some document once all requests have ended: no race of uploads and
\* deletes leaks one.
NoStrandedObject ==
  Quiet /\ stops = 0 /\ subjects = Subjects
    => \A f \in objects : \E d \in rows : d.file = f
=============================================================================
